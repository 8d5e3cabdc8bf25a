--------------------------- MODULE MsgIdQueueProofs ---------------------------
(***************************************************************************)
(* That the pools of message numbers keep the data window, for any number  *)
(* of NCCIs and message numbers, any maximal window and any window sizes,  *)
(* and in whatever order a driver confirms; and that they implement the    *)
(* abstract data window while it confirms in order.                        *)
(***************************************************************************)
EXTENDS MsgIdQueue, ListLemmas

(* The slots of the pool that are used with a window size: one at least.   *)
Size(q) == IF q.winsize = 0 THEN 1 ELSE q.winsize

(* The queue s and the free list t of a pool: no slot is in both or twice  *)
(* in one.  A slot may be in neither: when the last message of a queue is  *)
(* confirmed before others, the slots that are filled before the queue is  *)
(* empty are lost.  So msgidlast may also be one of those.                 *)
TwoLists(q, s, t) ==
  /\ LinkedAs(s, q.msgidqueue, q.next, Null) /\ LinkedAs(t, q.msgidfree, q.next, Null)
  /\ Distinct(s) /\ Distinct(t)
  /\ \A i \in 1 .. Len(s), j \in 1 .. Len(t) : s[i] # t[j]
  /\ \A j \in 1 .. Len(t) : t[j] # q.msgidlast
  /\ \A i \in 1 .. Len(s) : s[i] = q.msgidlast => i = Len(s)
  /\ Len(s) <= q.nmsg /\ q.nmsg + Len(t) <= Size(q)

(* While all confirmations come in order no slot is lost, and the queue    *)
(* holds the unconfirmed messages.                                         *)
Ordered(q, s, t, messages) ==
  /\ Len(s) = Len(messages) /\ Len(s) + Len(t) = Size(q)
  /\ q.msgidlast = IF Len(s) = 0 THEN Null ELSE s[Len(s)]
  /\ \A i \in 1 .. Len(s) : q.msgid[s[i]] = messages[i]

Slots(q) == 1 .. Size(q)

PoolInv(k) ==
  \E s, t \in Seq(Slots(np[k])) :
    /\ TwoLists(np[k], s, t)
    /\ Len(accepted[k]) + Len(t) <= Size(np[k])
    /\ k \notin unordered => Ordered(np[k], s, t, accepted[k])

QueuesInv ==
  /\ TypeOK
  /\ unordered \subseteq listed
  /\ \A k \in Nccis : IF k \in listed THEN PoolInv(k) ELSE accepted[k] = <<>>

-------------------------------------------------------------------------------
(* The pools *)

LEMMA Sizes ==
  ASSUME NEW q \in Block
  PROVE  /\ Size(q) \in Nat /\ Size(q) \in 1 .. MaxWindow /\ Slots(q) \subseteq Pool
         /\ Null \notin Pool
<1>. QED BY WindowAssumption DEF Size, Slots, Block, Pool, Null

(* The two lists of a pool are what the walks along next return.           *)
LEMMA Walks ==
  ASSUME NEW q \in Block, NEW s \in Seq(Slots(q)), NEW t \in Seq(Slots(q)), TwoLists(q, s, t)
  PROVE  Queue(q) = s /\ Free(q) = t
<1>1. /\ q.next \in [Pool -> Pool \cup {Null}] /\ Null \notin Pool /\ MaxWindow + 1 \in Nat
      /\ q.nmsg \in Nat
  BY Sizes, WindowAssumption DEF Block, Ptr
<1>2. s \in Seq(Pool) /\ t \in Seq(Pool) /\ Len(s) \in Nat /\ Len(t) \in Nat
  <2>1. Slots(q) \subseteq Pool
    BY Sizes
  <2>. QED BY <2>1
<1>3. Len(s) <= MaxWindow + 1 /\ Len(t) <= MaxWindow + 1
  <2>1. Len(s) <= q.nmsg /\ q.nmsg + Len(t) <= Size(q)
    BY DEF TwoLists
  <2>2. Size(q) \in Nat /\ Size(q) <= MaxWindow
    BY Sizes
  <2>. QED BY <1>1, <1>2, <2>1, <2>2, WindowAssumption
<1>4. LinkedAs(s, q.msgidqueue, q.next, Null) /\ LinkedAs(t, q.msgidfree, q.next, Null)
  BY DEF TwoLists
<1>5. Chain(q.next, q.msgidqueue, Null, MaxWindow + 1) = s
  BY <1>1, <1>2, <1>3, <1>4, ChainIsLinked
<1>6. Chain(q.next, q.msgidfree, Null, MaxWindow + 1) = t
  BY <1>1, <1>2, <1>3, <1>4, ChainIsLinked
<1>. QED BY <1>5, <1>6 DEF Queue, Free

(* A new pool is free.                                                      *)
LEMMA InitPool ==
  ASSUME NEW w \in 0 .. MaxWindow
  PROVE  /\ mq_init(w) \in Block
         /\ \E s, t \in Seq(Slots(mq_init(w))) :
              /\ TwoLists(mq_init(w), s, t) /\ Len(t) <= Size(mq_init(w))
              /\ Ordered(mq_init(w), s, t, <<>>)
<1>1. PICK q : q = mq_init(w)
  OBVIOUS
<1>2. /\ q.winsize = w /\ q.nmsg = 0 /\ q.msgidqueue = Null /\ q.msgidlast = Null
      /\ q.msgidfree = (IF w = 0 THEN 1 ELSE w)
      /\ q.next = [i \in Pool |-> IF i <= w THEN i - 1 ELSE Null]
  BY <1>1 DEF mq_init
<1>3. q \in Block
  <2>1. [i \in Pool |-> IF i <= w THEN i - 1 ELSE Null] \in [Pool -> Ptr]
    BY WindowAssumption DEF Pool, Ptr, Null
  <2>2. [i \in Pool |-> 0] \in [Pool -> MsgIds \cup {0}]
    OBVIOUS
  <2>3. /\ (IF w = 0 THEN 1 ELSE w) \in Ptr /\ Null \in Ptr /\ 0 \in 0 .. MaxWindow
    BY WindowAssumption DEF Pool, Ptr, Null
  <2>. QED BY <1>1, <2>1, <2>2, <2>3 DEF mq_init, Block
<1>4. PICK n \in Nat : n = Size(q) /\ n = (IF w = 0 THEN 1 ELSE w) /\ n <= MaxWindow /\ n >= 1
  BY <1>2, WindowAssumption DEF Size
<1>5. PICK t : t = [i \in 1 .. n |-> n + 1 - i]
  OBVIOUS
<1>6. t \in Seq(Slots(q)) /\ Len(t) = n /\ \A i \in 1 .. n : t[i] = n + 1 - i
  <2>1. t \in [1 .. n -> Slots(q)]
    BY <1>4, <1>5 DEF Slots
  <2>2. t \in Seq(Slots(q))
    BY <1>4, <2>1
  <2>. QED BY <1>4, <1>5, <2>1, <2>2
<1>7. LinkedAs(t, q.msgidfree, q.next, Null)
  <2>1. ASSUME NEW k \in 1 .. n
        PROVE  q.next[t[k]] = IF k = n THEN Null ELSE t[k + 1]
    <3>1. t[k] = n + 1 - k /\ n + 1 - k \in Pool
      BY <1>4, <1>6, WindowAssumption DEF Pool
    <3>2. q.next[t[k]] = IF n + 1 - k <= w THEN (n + 1 - k) - 1 ELSE Null
      BY <1>2, <3>1
    <3>3. CASE k = n
      BY <1>4, <3>2, <3>3 DEF Null
    <3>4. CASE k # n
      <4>1. k + 1 \in 1 .. n
        BY <1>4, <3>4
      <4>2. t[k + 1] = n + 1 - (k + 1)
        BY <1>6, <4>1
      <4>3. n + 1 - k <= w
        BY <1>4, <3>4
      <4>. QED BY <1>4, <3>2, <3>4, <4>2, <4>3
    <3>. QED BY <3>3, <3>4
  <2>2. t[1] = n
    BY <1>4, <1>6
  <2>. QED BY <1>2, <1>4, <1>6, <2>1, <2>2 DEF LinkedAs
<1>8. Distinct(t)
  BY <1>4, <1>6 DEF Distinct
<1>9. \A j \in 1 .. n : t[j] # Null
  BY <1>4, <1>6 DEF Null
<1>10. PICK s : s = <<>>
  OBVIOUS
<1>11. s \in Seq(Slots(q)) /\ Len(s) = 0
  BY <1>10
<1>12. LinkedAs(s, q.msgidqueue, q.next, Null) /\ Distinct(s)
  BY <1>2, <1>11 DEF LinkedAs, Distinct
<1>13. TwoLists(q, s, t)
  BY <1>2, <1>4, <1>6, <1>7, <1>8, <1>9, <1>11, <1>12 DEF TwoLists
<1>14. Ordered(q, s, t, <<>>)
  BY <1>2, <1>4, <1>6, <1>11 DEF Ordered
<1>15. /\ TwoLists(q, s, t) /\ Len(t) <= Size(q) /\ Ordered(q, s, t, <<>>)
       /\ s \in Seq(Slots(q)) /\ t \in Seq(Slots(q))
  BY <1>4, <1>6, <1>11, <1>13, <1>14
<1>. QED BY <1>1, <1>3, <1>15

(* A request moves the first free slot to the end of the queue, if the      *)
(* queue has not lost its end.                                              *)
LEMMA EnqueuePool ==
  ASSUME NEW q \in Block, NEW s \in Seq(Slots(q)), NEW t \in Seq(Slots(q)), TwoLists(q, s, t),
         q.msgidfree # Null, NEW m \in MsgIds
  PROVE  LET r == mq_enqueue(q, m) IN
         /\ r \in Block /\ r.winsize = q.winsize
         /\ \E u, v \in Seq(Slots(q)) :
              /\ TwoLists(r, u, v) /\ Len(v) = Len(t) - 1
              /\ \A messages \in Seq(MsgIds) :
                   Ordered(q, s, t, messages) => Ordered(r, u, v, Append(messages, m))
<1>1. PICK r : r = mq_enqueue(q, m)
  OBVIOUS
<1>2. PICK mq : mq = q.msgidfree
  OBVIOUS
<1>3. /\ LinkedAs(s, q.msgidqueue, q.next, Null) /\ LinkedAs(t, mq, q.next, Null)
      /\ Distinct(s) /\ Distinct(t)
      /\ \A i \in 1 .. Len(s), j \in 1 .. Len(t) : s[i] # t[j]
      /\ \A j \in 1 .. Len(t) : t[j] # q.msgidlast
      /\ \A i \in 1 .. Len(s) : s[i] = q.msgidlast => i = Len(s)
      /\ Len(s) <= q.nmsg /\ q.nmsg + Len(t) <= Size(q)
      /\ Len(s) \in Nat /\ Len(t) \in Nat /\ q.nmsg \in Nat /\ Size(q) \in Nat
      /\ Size(q) <= MaxWindow
  BY <1>2, Sizes DEF TwoLists, Block
<1>4. Len(t) # 0 /\ 1 \in 1 .. Len(t) /\ t[1] = mq /\ mq \in Slots(q)
  BY <1>2, <1>3 DEF LinkedAs
<1>5. mq \in Pool /\ mq # Null /\ Slots(q) \subseteq Pool /\ Null \notin Pool
  BY <1>4, Sizes
<1>6. /\ q.next \in [Pool -> Ptr] /\ q.msgid \in [Pool -> MsgIds \cup {0}]
      /\ q.msgidlast \in Ptr /\ q.msgidqueue \in Ptr
  BY DEF Block
<1>7. /\ r.winsize = q.winsize /\ r.nmsg = q.nmsg + 1
      /\ r.msgidfree = q.next[mq] /\ r.msgidlast = mq
      /\ r.msgidqueue = (IF q.msgidqueue = Null THEN mq ELSE q.msgidqueue)
      /\ r.msgid = [q.msgid EXCEPT ![mq] = m]
      /\ r.next = [i \in Pool |-> CASE i = q.msgidlast -> mq
                                    [] i = mq -> Null
                                    [] OTHER -> q.next[i]]
  BY <1>1, <1>2 DEF mq_enqueue, Block
<1>8. q.msgidlast # mq
  BY <1>3, <1>4
<1>9. \A i \in Pool : r.next[i] = IF i = q.msgidlast THEN mq ELSE IF i = mq THEN Null ELSE q.next[i]
  BY <1>7, <1>8
<1>10. r \in Block
  <2>1. r.next \in [Pool -> Ptr]
    BY <1>5, <1>6, <1>7 DEF Ptr
  <2>2. r.msgid \in [Pool -> MsgIds \cup {0}]
    BY <1>6, <1>7
  <2>3. q.nmsg + 1 \in 0 .. MaxWindow
    BY <1>3, <1>4, WindowAssumption
  <2>4. q.next[mq] \in Ptr /\ mq \in Ptr
    BY <1>5, <1>6 DEF Ptr
  <2>5. r.msgidqueue \in Ptr
    BY <1>6, <1>7, <2>4
  <2>6. r = [winsize |-> r.winsize, nmsg |-> r.nmsg, msgidqueue |-> r.msgidqueue,
             msgidlast |-> r.msgidlast, msgidfree |-> r.msgidfree, next |-> r.next,
             msgid |-> r.msgid]
    BY <1>1 DEF mq_enqueue, Block
  <2>7. /\ r.winsize \in 0 .. MaxWindow /\ r.nmsg \in 0 .. MaxWindow /\ r.msgidqueue \in Ptr
        /\ r.msgidlast \in Ptr /\ r.msgidfree \in Ptr
    BY <1>7, <2>3, <2>4, <2>5 DEF Block
  <2>. QED BY <2>1, <2>2, <2>6, <2>7 DEF Block
<1>11. PICK v : v = SubSeq(t, 1 + 1, Len(t))
  OBVIOUS
<1>12. /\ v \in Seq(Slots(q)) /\ Len(v) = Len(t) - 1
       /\ \A j \in 1 .. Len(t) - 1 : v[j] = t[1 + j]
  <2>1. 1 \in 0 .. Len(t)
    BY <1>3, <1>4
  <2>. QED BY <1>11, <2>1, AfterEntries
<1>13. \A j \in 1 .. Len(v) : 1 + j \in 1 .. Len(t) /\ 1 + j # 1 /\ v[j] = t[1 + j]
  BY <1>3, <1>12
<1>14. \A j \in 1 .. Len(v) : v[j] # mq /\ v[j] # q.msgidlast /\ v[j] \in Pool
  <2>1. \A j \in 1 .. Len(v) : t[1 + j] # t[1]
    BY <1>3, <1>4, <1>13 DEF Distinct
  <2>2. \A j \in 1 .. Len(v) : v[j] \in Slots(q)
    BY <1>12
  <2>. QED BY <1>3, <1>4, <1>5, <1>13, <2>1, <2>2, SMTT(30)
<1>15. Distinct(v)
  <2>. SUFFICES ASSUME NEW i \in 1 .. Len(v), NEW j \in 1 .. Len(v), v[i] = v[j] PROVE i = j
    BY DEF Distinct
  <2>1. 1 + i = 1 + j
    BY <1>3, <1>13 DEF Distinct
  <2>. QED BY <2>1, <1>12
<1>16. LinkedAs(v, r.msgidfree, r.next, Null)
  <2>1. LinkedAs(v, q.next[mq], q.next, Null)
    BY <1>3, <1>4, <1>11, LinkedAfter
  <2>2. \A j \in 1 .. Len(v) : r.next[v[j]] = q.next[v[j]]
    BY <1>9, <1>14
  <2>. QED BY <1>7, <2>1, <2>2 DEF LinkedAs
<1>17. \A i \in 1 .. Len(s) : s[i] # mq /\ s[i] \in Pool
  <2>1. \A i \in 1 .. Len(s) : s[i] # mq
    BY <1>3, <1>4
  <2>2. \A i \in 1 .. Len(s) : s[i] \in Slots(q)
    OBVIOUS
  <2>. QED BY <1>5, <2>1, <2>2
<1>18. CASE Len(s) = 0 \/ q.msgidlast = s[Len(s)]
  <2>1. PICK u : u = Append(s, mq)
    OBVIOUS
  <2>2. /\ u \in Seq(Slots(q)) /\ Len(u) = Len(s) + 1 /\ Distinct(u)
        /\ u[Len(s) + 1] = mq /\ \A i \in 1 .. Len(s) : u[i] = s[i]
    BY <1>3, <1>4, <1>17, <2>1, DistinctAppend
  <2>3. r.next[mq] = Null
    BY <1>5, <1>8, <1>9
  <2>4. ASSUME NEW i \in 1 .. Len(s)
        PROVE  r.next[s[i]] = IF i = Len(s) THEN mq ELSE q.next[s[i]]
    <3>1. s[i] = q.msgidlast <=> i = Len(s)
      BY <1>3, <1>18
    <3>. QED BY <1>9, <1>17, <3>1
  <2>5. LinkedAs(u, IF Len(s) = 0 THEN mq ELSE q.msgidqueue, r.next, Null)
    <3>1. LinkedAs(s, q.msgidqueue, q.next, Null) /\ mq \in Slots(q)
      BY <1>3, <1>4
    <3>. QED BY <2>1, <2>3, <2>4, <3>1, LinkedAppend, SMTT(30)
  <2>6. q.msgidqueue = Null <=> Len(s) = 0
    <3>1. Len(s) # 0 => 1 \in 1 .. Len(s)
      BY <1>3
    <3>. QED BY <1>3, <1>5, <1>17, <3>1 DEF LinkedAs
  <2>7. LinkedAs(u, r.msgidqueue, r.next, Null)
    BY <1>7, <2>5, <2>6
  <2>8. \A i \in 1 .. Len(u) : i = Len(s) + 1 \/ (i \in 1 .. Len(s) /\ u[i] = s[i])
    BY <1>3, <2>2
  <2>9. \A i \in 1 .. Len(u), j \in 1 .. Len(v) : u[i] # v[j]
    BY <1>3, <1>13, <1>14, <2>2, <2>8
  <2>10. \A i \in 1 .. Len(u) : u[i] = mq => i = Len(u)
    BY <1>17, <2>2, <2>8
  <2>11. Len(u) <= r.nmsg /\ r.nmsg + Len(v) <= Size(r)
    BY <1>3, <1>7, <1>12, <2>2 DEF Size
  <2>12. TwoLists(r, u, v)
    BY <1>7, <1>14, <1>15, <1>16, <2>2, <2>7, <2>9, <2>10, <2>11 DEF TwoLists
  <2>13. ASSUME NEW messages \in Seq(MsgIds), Ordered(q, s, t, messages)
         PROVE  Ordered(r, u, v, Append(messages, m))
    <3>1. PICK next : next = Append(messages, m)
      OBVIOUS
    <3>2. /\ Len(s) = Len(messages) /\ Len(s) + Len(t) = Size(q)
          /\ \A i \in 1 .. Len(s) : q.msgid[s[i]] = messages[i]
      BY <2>13 DEF Ordered
    <3>3. Len(next) = Len(s) + 1 /\ next[Len(s) + 1] = m /\ \A i \in 1 .. Len(s) : next[i] = messages[i]
      BY <3>1, <3>2
    <3>4. \A i \in 1 .. Len(s) : r.msgid[s[i]] = q.msgid[s[i]]
      BY <1>6, <1>7, <1>17
    <3>5. r.msgid[mq] = m
      BY <1>5, <1>6, <1>7
    <3>6. \A i \in 1 .. Len(u) : r.msgid[u[i]] = next[i]
      BY <2>2, <2>8, <3>2, <3>3, <3>4, <3>5
    <3>7. Len(u) + Len(v) = Size(r)
      BY <1>3, <1>7, <1>12, <2>2, <3>2 DEF Size
    <3>8. r.msgidlast = u[Len(u)] /\ Len(u) # 0
      BY <1>3, <1>7, <2>2
    <3>. QED BY <2>2, <3>1, <3>3, <3>6, <3>7, <3>8 DEF Ordered
  <2>. QED BY <1>1, <1>7, <1>10, <1>12, <2>2, <2>12, <2>13
<1>19. CASE Len(s) # 0 /\ q.msgidlast # s[Len(s)]
  <2>1. \A i \in 1 .. Len(s) : s[i] # q.msgidlast
    BY <1>3, <1>19
  <2>2. \A i \in 1 .. Len(s) : r.next[s[i]] = q.next[s[i]]
    BY <1>9, <1>17, <2>1
  <2>3. q.msgidqueue # Null
    <3>1. 1 \in 1 .. Len(s)
      BY <1>3, <1>19
    <3>. QED BY <1>3, <1>5, <1>17, <1>19, <3>1 DEF LinkedAs
  <2>4. LinkedAs(s, r.msgidqueue, r.next, Null)
    BY <1>3, <1>7, <2>2, <2>3 DEF LinkedAs
  <2>5. \A i \in 1 .. Len(s), j \in 1 .. Len(v) : s[i] # v[j]
    BY <1>3, <1>13
  <2>6. Len(s) <= r.nmsg /\ r.nmsg + Len(v) <= Size(r)
    BY <1>3, <1>7, <1>12 DEF Size
  <2>7. TwoLists(r, s, v)
    BY <1>3, <1>7, <1>14, <1>15, <1>16, <1>17, <2>4, <2>5, <2>6 DEF TwoLists
  <2>8. \A messages \in Seq(MsgIds) : ~ Ordered(q, s, t, messages)
    BY <1>19 DEF Ordered
  <2>. QED BY <1>1, <1>7, <1>10, <1>12, <2>7, <2>8
<1>. QED BY <1>18, <1>19

(* The pool after its k-th queued slot was freed.                           *)
Unlinked(q, s, k) ==
  [q EXCEPT !.msgidfree = s[k], !.nmsg = @ - 1, !.msgid[s[k]] = 0,
            !.msgidqueue = IF k = 1 THEN q.next[s[k]] ELSE @,
            !.msgidlast = IF @ = s[k] THEN Null ELSE @,
            !.next = [p \in Pool |->
               CASE p = s[k] -> q.msgidfree
                 [] k > 1 /\ p = s[k - 1] -> q.next[s[k]]
                 [] OTHER -> q.next[p]]]

(* The slot that a confirmation frees is the first with its number.         *)
LEMMA DequeueUnlinks ==
  ASSUME NEW q, NEW m, NEW s \in Seq(Pool), Queue(q) = s, OnQueue(q, m)
  PROVE  \E k \in 1 .. Len(s) :
           /\ mq_dequeue(q, m) = Unlinked(q, s, k)
           /\ q.msgid[s[k]] = m /\ (q.msgid[s[1]] = m => k = 1)
<1> DEFINE hits == {i \in 1 .. Len(s) : q.msgid[s[i]] = m}
<1>1. hits # {}
  BY DEF OnQueue
<1>2. Found(q, m) = Min(hits)
  BY <1>1 DEF Found, SelectInSeq
<1>3. \E k \in hits : \A j \in hits : k <= j
  <2>1. hits \in SUBSET Nat
    OBVIOUS
  <2>. QED BY <1>1, <2>1, LeastExists
<1>4. PICK k : k = Min(hits)
  OBVIOUS
<1>5. k \in hits /\ \A j \in hits : k <= j
  BY <1>3, <1>4 DEF Min
<1>6. k \in 1 .. Len(s) /\ q.msgid[s[k]] = m
  BY <1>5
<1>7. q.msgid[s[1]] = m => k = 1
  <2>1. 1 \in 1 .. Len(s)
    BY <1>6
  <2>. QED BY <1>5, <1>6, <2>1
<1>8. mq_dequeue(q, m) = Unlinked(q, s, k)
  <2>1. Found(q, m) = k
    BY <1>2, <1>4
  <2>. HIDE DEF hits
  <2>. QED BY <2>1 DEF mq_dequeue, Unlinked
<1>. QED BY <1>6, <1>7, <1>8

(* A confirmation moves a slot from the queue to the free list.             *)
LEMMA DequeuePool ==
  ASSUME NEW q \in Block, NEW s \in Seq(Slots(q)), NEW t \in Seq(Slots(q)),
         TwoLists(q, s, t), NEW k \in 1 .. Len(s)
  PROVE  LET r == Unlinked(q, s, k) IN
         /\ r \in Block /\ r.winsize = q.winsize
         /\ \E u, v \in Seq(Slots(q)) :
              /\ TwoLists(r, u, v) /\ Len(v) = Len(t) + 1
              /\ \A messages \in Seq(MsgIds) :
                   k = 1 /\ Ordered(q, s, t, messages) => Ordered(r, u, v, Tail(messages))
<1>1. PICK r : r = Unlinked(q, s, k)
  OBVIOUS
<1>2. PICK mq : mq = s[k]
  OBVIOUS
<1>3. /\ LinkedAs(s, q.msgidqueue, q.next, Null) /\ LinkedAs(t, q.msgidfree, q.next, Null)
      /\ Distinct(s) /\ Distinct(t)
      /\ \A i \in 1 .. Len(s), j \in 1 .. Len(t) : s[i] # t[j]
      /\ \A j \in 1 .. Len(t) : t[j] # q.msgidlast
      /\ \A i \in 1 .. Len(s) : s[i] = q.msgidlast => i = Len(s)
      /\ Len(s) <= q.nmsg /\ q.nmsg + Len(t) <= Size(q)
      /\ Len(s) \in Nat /\ Len(t) \in Nat /\ q.nmsg \in Nat /\ Size(q) \in Nat
      /\ Size(q) <= MaxWindow
  BY Sizes DEF TwoLists, Block
<1>4. /\ q.next \in [Pool -> Ptr] /\ q.msgid \in [Pool -> MsgIds \cup {0}]
      /\ q.msgidlast \in Ptr /\ q.msgidqueue \in Ptr /\ q.msgidfree \in Ptr
      /\ q.winsize \in 0 .. MaxWindow /\ q.nmsg \in 0 .. MaxWindow
  BY DEF Block
<1>5. /\ \A i \in 1 .. Len(s) : s[i] \in Slots(q) /\ s[i] \in Pool
      /\ \A j \in 1 .. Len(t) : t[j] \in Slots(q) /\ t[j] \in Pool
      /\ mq \in Slots(q) /\ mq \in Pool /\ Null \notin Pool
  <2>1. \A i \in 1 .. Len(s) : s[i] \in Slots(q)
    OBVIOUS
  <2>2. \A i \in 1 .. Len(t) : t[i] \in Slots(q)
    OBVIOUS
  <2>. QED BY <1>2, <2>1, <2>2, Sizes
<1>6. /\ r.winsize = q.winsize /\ r.nmsg = q.nmsg - 1 /\ r.msgidfree = mq
      /\ r.msgidlast = (IF q.msgidlast = mq THEN Null ELSE q.msgidlast)
      /\ r.msgidqueue = (IF k = 1 THEN q.next[s[k]] ELSE q.msgidqueue)
      /\ r.msgid = [q.msgid EXCEPT ![mq] = 0]
      /\ r.next = [p \in Pool |-> CASE p = mq -> q.msgidfree
                                    [] k > 1 /\ p = s[k - 1] -> q.next[mq]
                                    [] OTHER -> q.next[p]]
  BY <1>1, <1>2 DEF Unlinked, Block
<1>7. k > 1 => k - 1 \in 1 .. Len(s) /\ s[k - 1] # mq
  <2>1. k > 1 => k - 1 \in 1 .. Len(s) /\ k - 1 # k
    BY <1>3
  <2>. QED BY <1>2, <1>3, <2>1 DEF Distinct
<1>8. \A p \in Pool : r.next[p] = IF p = mq THEN q.msgidfree
                                 ELSE IF k > 1 /\ p = s[k - 1] THEN q.next[mq]
                                 ELSE q.next[p]
  BY <1>6, <1>7
<1>9. r \in Block
  <2>1. \A p \in Pool : r.next[p] \in Ptr
    BY <1>4, <1>5, <1>8
  <2>2. DOMAIN r.next = Pool /\ r.next = [p \in DOMAIN r.next |-> r.next[p]]
    BY <1>6
  <2>3. r.next \in [Pool -> Ptr]
    BY <2>1, <2>2
  <2>4. r.msgid \in [Pool -> MsgIds \cup {0}]
    BY <1>4, <1>6
  <2>5. q.nmsg - 1 \in 0 .. MaxWindow
    BY <1>3, <1>4, WindowAssumption
  <2>6. q.next[mq] \in Ptr /\ mq \in Ptr /\ Null \in Ptr
    BY <1>4, <1>5 DEF Ptr
  <2>7. r = [winsize |-> r.winsize, nmsg |-> r.nmsg, msgidqueue |-> r.msgidqueue,
             msgidlast |-> r.msgidlast, msgidfree |-> r.msgidfree, next |-> r.next,
             msgid |-> r.msgid]
    BY <1>1 DEF Unlinked, Block
  <2>8. /\ r.winsize \in 0 .. MaxWindow /\ r.nmsg \in 0 .. MaxWindow /\ r.msgidqueue \in Ptr
        /\ r.msgidlast \in Ptr /\ r.msgidfree \in Ptr
    BY <1>2, <1>4, <1>6, <2>5, <2>6
  <2>. QED BY <2>3, <2>4, <2>7, <2>8 DEF Block
<1>10. PICK u : u = RemoveAt(s, k)
  OBVIOUS
<1>11. /\ u \in Seq(Slots(q)) /\ Len(u) = Len(s) - 1 /\ Distinct(u)
       /\ \A j \in 1 .. Len(u) : u[j] = IF j < k THEN s[j] ELSE s[j + 1]
  BY <1>3, <1>10, DistinctRemove
<1>12. ASSUME NEW j \in 1 .. Len(u)
       PROVE  \E i \in 1 .. Len(s) : u[j] = s[i] /\ i # k /\ (i = Len(s) => j = Len(u))
  <2>1. CASE j < k
    <3>1. j \in 1 .. Len(s) /\ j # k /\ j # Len(s)
      BY <1>3, <1>11, <2>1
    <3>. QED BY <1>11, <2>1, <3>1
  <2>2. CASE ~(j < k)
    <3>1. j + 1 \in 1 .. Len(s) /\ j + 1 # k /\ (j + 1 = Len(s) => j = Len(u))
      BY <1>3, <1>11, <2>2
    <3>. QED BY <1>11, <2>2, <3>1
  <2>. QED BY <2>1, <2>2
<1>13. \A j \in 1 .. Len(u) : u[j] # mq /\ (u[j] = q.msgidlast => j = Len(u)) /\ u[j] \in Pool
  <2>1. TAKE j \in 1 .. Len(u)
  <2>2. PICK i \in 1 .. Len(s) : u[j] = s[i] /\ i # k /\ (i = Len(s) => j = Len(u))
    BY <1>12
  <2>3. s[i] # s[k] /\ s[i] \in Pool
    BY <1>3, <1>5, <2>2 DEF Distinct
  <2>4. s[i] = q.msgidlast => i = Len(s)
    BY <1>3, <2>2
  <2>. QED BY <1>2, <2>2, <2>3, <2>4
<1>14. PICK v : v = <<mq>> \o t
  OBVIOUS
<1>15. \A j \in 1 .. Len(t) : t[j] # mq
  BY <1>2, <1>3
<1>16. /\ v \in Seq(Slots(q)) /\ Len(v) = Len(t) + 1 /\ Distinct(v)
       /\ v[1] = mq /\ \A j \in 2 .. Len(t) + 1 : v[j] = t[j - 1]
  BY <1>3, <1>5, <1>14, <1>15, DistinctBefore, SMTT(30)
<1>17. \A j \in 1 .. Len(v) : j = 1 \/ (j \in 2 .. Len(t) + 1 /\ j - 1 \in 1 .. Len(t) /\ v[j] = t[j - 1])
  BY <1>3, <1>16
<1>18. LinkedAs(v, mq, r.next, Null)
  <2>1. r.next[mq] = q.msgidfree
    BY <1>5, <1>8
  <2>2. ASSUME NEW j \in 1 .. Len(t) PROVE r.next[t[j]] = q.next[t[j]]
    <3>1. t[j] # mq /\ (k > 1 => t[j] # s[k - 1]) /\ t[j] \in Pool
      BY <1>3, <1>5, <1>7, <1>15
    <3>. QED BY <1>8, <3>1
  <2>3. LinkedAs(t, q.msgidfree, q.next, Null)
    BY <1>3
  <2>. QED BY <1>5, <1>14, <2>1, <2>2, <2>3, LinkedBefore
<1>19. LinkedAs(u, r.msgidqueue, r.next, Null)
  <2>1. ASSUME NEW j \in 1 .. Len(s), j # k
        PROVE  r.next[s[j]] = IF j = k - 1 THEN q.next[s[k]] ELSE q.next[s[j]]
    <3>1. s[j] # mq /\ s[j] \in Pool
      BY <1>2, <1>3, <1>5, <2>1 DEF Distinct
    <3>2. (k > 1 /\ s[j] = s[k - 1]) <=> j = k - 1
      <4>1. j = k - 1 => k > 1
        BY <1>3
      <4>. QED BY <1>3, <1>7, <4>1 DEF Distinct
    <3>. QED BY <1>2, <1>8, <3>1, <3>2
  <2>2. LinkedAs(s, q.msgidqueue, q.next, Null)
    BY <1>3
  <2>3. LinkedAs(u, IF k = 1 THEN q.next[s[k]] ELSE q.msgidqueue, r.next, Null)
    BY <1>10, <2>1, <2>2, LinkedRemove
  <2>. QED BY <1>6, <2>3
<1>20. \A i \in 1 .. Len(u), j \in 1 .. Len(v) : u[i] # v[j]
  <2>. SUFFICES ASSUME NEW i \in 1 .. Len(u), NEW j \in 1 .. Len(v) PROVE u[i] # v[j]
    OBVIOUS
  <2>1. CASE j = 1
    BY <1>13, <1>16, <2>1
  <2>2. CASE j # 1
    <3>1. j - 1 \in 1 .. Len(t) /\ v[j] = t[j - 1]
      BY <1>17, <2>2
    <3>2. PICK x \in 1 .. Len(s) : u[i] = s[x]
      BY <1>12
    <3>. QED BY <1>3, <3>1, <3>2
  <2>. QED BY <2>1, <2>2
<1>21. \A j \in 1 .. Len(v) : v[j] # r.msgidlast
  <2>. SUFFICES ASSUME NEW j \in 1 .. Len(v) PROVE v[j] # r.msgidlast
    OBVIOUS
  <2>1. CASE j = 1
    BY <1>5, <1>6, <1>16, <2>1
  <2>2. CASE j # 1
    <3>1. j - 1 \in 1 .. Len(t) /\ v[j] = t[j - 1]
      BY <1>17, <2>2
    <3>. QED BY <1>3, <1>5, <1>6, <3>1
  <2>. QED BY <2>1, <2>2
<1>22. \A i \in 1 .. Len(u) : u[i] = r.msgidlast => i = Len(u)
  BY <1>5, <1>6, <1>13
<1>23. Len(u) <= r.nmsg /\ r.nmsg + Len(v) <= Size(r)
  BY <1>3, <1>6, <1>11, <1>16 DEF Size
<1>24. TwoLists(r, u, v)
  BY <1>6, <1>11, <1>16, <1>18, <1>19, <1>20, <1>21, <1>22, <1>23 DEF TwoLists
<1>25. ASSUME NEW messages \in Seq(MsgIds), k = 1, Ordered(q, s, t, messages)
       PROVE  Ordered(r, u, v, Tail(messages))
  <2>1. PICK rest : rest = Tail(messages)
    OBVIOUS
  <2>2. /\ Len(s) = Len(messages) /\ Len(s) + Len(t) = Size(q) /\ Len(s) # 0
        /\ q.msgidlast = s[Len(s)]
        /\ \A i \in 1 .. Len(s) : q.msgid[s[i]] = messages[i]
    BY <1>3, <1>25 DEF Ordered
  <2>3. messages # <<>>
    BY <1>3, <2>2
  <2>4. Len(rest) = Len(s) - 1 /\ \A i \in 1 .. Len(rest) : rest[i] = messages[i + 1]
    BY <2>1, <2>2, <2>3
  <2>5. \A i \in 1 .. Len(u) : i \in Nat /\ ~(i < k) /\ i + 1 \in 1 .. Len(s)
    BY <1>3, <1>11, <1>25
  <2>6. \A i \in 1 .. Len(u) : u[i] = s[i + 1]
    BY <1>11, <2>5
  <2>7. \A i \in 1 .. Len(u) : r.msgid[u[i]] = q.msgid[u[i]]
    BY <1>4, <1>6, <1>13
  <2>8. \A i \in 1 .. Len(u) : r.msgid[u[i]] = rest[i]
    <3>1. TAKE i \in 1 .. Len(u)
    <3>2. i + 1 \in 1 .. Len(s) /\ i \in 1 .. Len(rest)
      BY <1>11, <2>4, <2>5
    <3>3. q.msgid[s[i + 1]] = messages[i + 1] /\ rest[i] = messages[i + 1]
      BY <2>2, <2>4, <3>2
    <3>. QED BY <2>6, <2>7, <3>3
  <2>9. Len(u) + Len(v) = Size(r)
    BY <1>3, <1>6, <1>11, <1>16, <2>2 DEF Size
  <2>10. r.msgidlast = IF Len(u) = 0 THEN Null ELSE u[Len(u)]
    <3>1. CASE Len(s) = 1
      BY <1>2, <1>6, <1>11, <1>25, <2>2, <3>1
    <3>2. CASE Len(s) # 1
      <4>1. Len(u) \in 1 .. Len(u) /\ Len(s) \in 1 .. Len(s) /\ Len(s) # k /\ Len(u) # 0
        BY <1>3, <1>11, <1>25, <2>2, <3>2
      <4>2. u[Len(u)] = s[Len(s)]
        BY <1>3, <1>11, <2>6, <4>1
      <4>3. s[Len(s)] # mq
        BY <1>2, <1>3, <4>1 DEF Distinct
      <4>. QED BY <1>6, <2>2, <4>1, <4>2, <4>3
    <3>. QED BY <3>1, <3>2
  <2>. QED BY <1>11, <2>1, <2>4, <2>8, <2>9, <2>10 DEF Ordered
<1>26. /\ TwoLists(r, u, v) /\ Len(v) = Len(t) + 1
       /\ u \in Seq(Slots(q)) /\ v \in Seq(Slots(q))
       /\ \A messages \in Seq(MsgIds) :
            k = 1 /\ Ordered(q, s, t, messages) => Ordered(r, u, v, Tail(messages))
  BY <1>11, <1>16, <1>24, <1>25
<1>. QED BY <1>1, <1>6, <1>9, <1>26

-------------------------------------------------------------------------------
(* The invariant *)

LEMMA QueuesInvInit == Init => QueuesInv
<1>. SUFFICES ASSUME Init PROVE QueuesInv
  OBVIOUS
<1>1. 0 \in 0 .. MaxWindow
  BY WindowAssumption
<1>2. mq_init(0) \in Block
  BY <1>1, InitPool
<1>3. <<>> \in Seq(MsgIds)
  OBVIOUS
<1>. QED BY <1>2, <1>3 DEF Init, QueuesInv, TypeOK

(* Nothing changes for an NCCI whose control block and messages stay.       *)
LEMMA PoolStays ==
  ASSUME NEW k, PoolInv(k), np'[k] = np[k], accepted'[k] = accepted[k],
         k \in unordered => k \in unordered'
  PROVE  PoolInv(k)'
<1>. QED BY DEF PoolInv, TwoLists, Ordered, Slots, Size

LEMMA NewKeeps ==
  ASSUME QueuesInv, NEW k \in Nccis, capilib_new_ncci(k) PROVE QueuesInv'
<1>1. /\ k \notin listed /\ listed' = listed \cup {k} /\ answer' = <<>>
      /\ accepted' = accepted /\ unordered' = unordered
  BY DEF capilib_new_ncci
<1>2. PICK w \in 0 .. MaxWindow : np' = [np EXCEPT ![k] = mq_init(w)]
  <2>1. PICK winsize \in WinSizes : np' = [np EXCEPT ![k] = mq_init(Clamped(winsize))]
    BY DEF capilib_new_ncci
  <2>2. Clamped(winsize) \in 0 .. MaxWindow
    BY WindowAssumption DEF Clamped
  <2>. QED BY <2>1, <2>2
<1>3. PICK q : q = mq_init(w)
  OBVIOUS
<1>4. /\ q \in Block
      /\ \E s, t \in Seq(Slots(q)) :
           TwoLists(q, s, t) /\ Len(t) <= Size(q) /\ Ordered(q, s, t, <<>>)
  BY <1>3, InitPool
<1>5. /\ TypeOK /\ np \in [Nccis -> Block] /\ unordered \subseteq listed
      /\ accepted[k] = <<>> /\ k \notin unordered
      /\ \A j \in Nccis : IF j \in listed THEN PoolInv(j) ELSE accepted[j] = <<>>
  BY <1>1 DEF QueuesInv, TypeOK
<1>6. TypeOK'
  BY <1>1, <1>2, <1>3, <1>4, <1>5 DEF TypeOK
<1>7. np'[k] = q /\ accepted'[k] = <<>>
  BY <1>1, <1>2, <1>3, <1>5
<1>8. PoolInv(k)'
  <2>1. PICK s \in Seq(Slots(q)), t \in Seq(Slots(q)) :
          TwoLists(q, s, t) /\ Len(t) <= Size(q) /\ Ordered(q, s, t, <<>>)
    BY <1>4
  <2>2. Len(<<>>) + Len(t) <= Size(q)
    BY <2>1
  <2>. QED BY <1>7, <2>1, <2>2 DEF PoolInv
<1>9. ASSUME NEW j \in Nccis, j # k
      PROVE  IF j \in listed' THEN PoolInv(j)' ELSE accepted'[j] = <<>>
  <2>1. np'[j] = np[j] /\ accepted'[j] = accepted[j] /\ unordered' = unordered
    BY <1>1, <1>2, <1>5, <1>9
  <2>. QED BY <1>1, <1>5, <1>9, <2>1, PoolStays
<1>. QED BY <1>1, <1>5, <1>6, <1>8, <1>9 DEF QueuesInv

LEMMA ForgetKeeps ==
  ASSUME QueuesInv, NEW K \in SUBSET listed, Forget(K) PROVE QueuesInv'
<1>1. /\ listed' = listed \ K /\ unordered' = unordered \ K /\ answer' = <<>>
      /\ np' = [k \in Nccis |-> IF k \in K THEN mq_init(0) ELSE np[k]]
      /\ accepted' = [k \in Nccis |-> IF k \in K THEN <<>> ELSE accepted[k]]
  BY DEF Forget
<1>2. /\ TypeOK /\ unordered \subseteq listed
      /\ \A j \in Nccis : IF j \in listed THEN PoolInv(j) ELSE accepted[j] = <<>>
  BY DEF QueuesInv
<1>3. mq_init(0) \in Block
  <2>1. 0 \in 0 .. MaxWindow
    BY WindowAssumption
  <2>. QED BY <2>1, InitPool
<1>4. TypeOK'
  <2>1. <<>> \in Seq(MsgIds)
    OBVIOUS
  <2>. QED BY <1>1, <1>2, <1>3, <2>1 DEF TypeOK
<1>5. ASSUME NEW j \in Nccis
      PROVE  IF j \in listed' THEN PoolInv(j)' ELSE accepted'[j] = <<>>
  <2>1. CASE j \in K
    BY <1>1, <2>1
  <2>2. CASE j \notin K
    <3>1. np'[j] = np[j] /\ accepted'[j] = accepted[j] /\ (j \in unordered => j \in unordered')
      BY <1>1, <2>2
    <3>. QED BY <1>1, <1>2, <2>2, <3>1, PoolStays
  <2>. QED BY <2>1, <2>2
<1>. QED BY <1>1, <1>2, <1>4, <1>5 DEF QueuesInv

(* A call that changes only what belongs to one NCCI that is up.            *)
LEMMA OneChanges ==
  ASSUME QueuesInv, NEW k \in listed, NEW q \in Block, NEW messages \in Seq(MsgIds),
         np' = [np EXCEPT ![k] = q], accepted' = [accepted EXCEPT ![k] = messages],
         listed' = listed, unordered' \in {unordered, unordered \cup {k}},
         answer' \in {<<>>} \cup (Nccis \X {"NOERROR", "SENDQUEUEFULL"}),
         NEW s \in Seq(Slots(q)), NEW t \in Seq(Slots(q)), TwoLists(q, s, t),
         Len(messages) + Len(t) <= Size(q),
         k \notin unordered' => Ordered(q, s, t, messages)
  PROVE  QueuesInv'
<1>1. /\ TypeOK /\ unordered \subseteq listed /\ k \in Nccis
      /\ \A j \in Nccis : IF j \in listed THEN PoolInv(j) ELSE accepted[j] = <<>>
  BY DEF QueuesInv, TypeOK
<1>2. TypeOK'
  BY <1>1 DEF TypeOK
<1>3. np'[k] = q /\ accepted'[k] = messages
  BY <1>1 DEF TypeOK
<1>4. PoolInv(k)'
  <2>1. /\ TwoLists(np'[k], s, t) /\ Len(accepted'[k]) + Len(t) <= Size(np'[k])
        /\ k \notin unordered' => Ordered(np'[k], s, t, accepted'[k])
        /\ s \in Seq(Slots(np'[k])) /\ t \in Seq(Slots(np'[k]))
    BY <1>3
  <2>. QED BY <2>1 DEF PoolInv
<1>5. ASSUME NEW j \in Nccis, j # k
      PROVE  IF j \in listed' THEN PoolInv(j)' ELSE accepted'[j] = <<>>
  <2>1. np'[j] = np[j] /\ accepted'[j] = accepted[j] /\ (j \in unordered => j \in unordered')
    BY <1>1, <1>5 DEF TypeOK
  <2>. QED BY <1>1, <2>1, PoolStays
<1>6. unordered' \subseteq listed'
  BY <1>1
<1>. QED BY <1>2, <1>4, <1>5, <1>6 DEF QueuesInv

(* A call that changes nothing but its answer.                              *)
LEMMA OnlyAnswer ==
  ASSUME QueuesInv, UNCHANGED <<np, listed, accepted, unordered>>,
         answer' \in {<<>>} \cup (Nccis \X {"NOERROR", "SENDQUEUEFULL"})
  PROVE  QueuesInv'
<1>1. TypeOK'
  BY DEF QueuesInv, TypeOK
<1>2. \A k \in Nccis : PoolInv(k) => PoolInv(k)'
  BY PoolStays
<1>. QED BY <1>1, <1>2 DEF QueuesInv

LEMMA RequestKeeps ==
  ASSUME QueuesInv, NEW k \in Nccis, NEW m \in MsgIds, capilib_data_b3_req(k, m)
  PROVE  QueuesInv'
<1>1. listed' = listed /\ unordered' = unordered
  BY DEF capilib_data_b3_req
<1>2. CASE /\ k \in listed /\ np[k].msgidfree # Null
           /\ np' = [np EXCEPT ![k] = mq_enqueue(@, m)]
           /\ accepted' = [accepted EXCEPT ![k] = Append(@, m)]
           /\ answer' = <<k, "NOERROR">>
  <2>1. np[k] \in Block /\ accepted[k] \in Seq(MsgIds) /\ PoolInv(k)
    BY <1>2 DEF QueuesInv, TypeOK
  <2>2. PICK s \in Seq(Slots(np[k])), t \in Seq(Slots(np[k])) :
          /\ TwoLists(np[k], s, t) /\ Len(accepted[k]) + Len(t) <= Size(np[k])
          /\ k \notin unordered => Ordered(np[k], s, t, accepted[k])
    BY <2>1 DEF PoolInv
  <2>3. PICK r : r = mq_enqueue(np[k], m)
    OBVIOUS
  <2>4. /\ r \in Block /\ r.winsize = np[k].winsize
        /\ \E u, v \in Seq(Slots(np[k])) :
             /\ TwoLists(r, u, v) /\ Len(v) = Len(t) - 1
             /\ \A messages \in Seq(MsgIds) :
                  Ordered(np[k], s, t, messages) => Ordered(r, u, v, Append(messages, m))
    BY <1>2, <2>1, <2>2, <2>3, EnqueuePool
  <2>5. PICK u \in Seq(Slots(np[k])), v \in Seq(Slots(np[k])) :
          /\ TwoLists(r, u, v) /\ Len(v) = Len(t) - 1
          /\ \A messages \in Seq(MsgIds) :
               Ordered(np[k], s, t, messages) => Ordered(r, u, v, Append(messages, m))
    BY <2>4
  <2>6. Size(r) = Size(np[k]) /\ Slots(r) = Slots(np[k])
    BY <2>4 DEF Size, Slots
  <2>7. PICK messages : messages = Append(accepted[k], m)
    OBVIOUS
  <2>8. messages \in Seq(MsgIds) /\ Len(messages) = Len(accepted[k]) + 1
    BY <2>1, <2>7
  <2>9. Len(messages) + Len(v) <= Size(r)
    <3>1. Len(accepted[k]) \in Nat /\ Len(t) \in Nat /\ Size(np[k]) \in Nat
      BY <2>1, Sizes
    <3>. QED BY <2>2, <2>5, <2>6, <2>8, <3>1
  <2>10. k \notin unordered' => Ordered(r, u, v, messages)
    BY <1>1, <2>1, <2>2, <2>5, <2>7
  <2>11. /\ np' = [np EXCEPT ![k] = r] /\ accepted' = [accepted EXCEPT ![k] = messages]
         /\ answer' \in {<<>>} \cup (Nccis \X {"NOERROR", "SENDQUEUEFULL"})
         /\ unordered' \in {unordered, unordered \cup {k}} /\ k \in listed
    BY <1>1, <1>2, <2>3, <2>7
  <2>12. u \in Seq(Slots(r)) /\ v \in Seq(Slots(r)) /\ TwoLists(r, u, v)
    BY <2>5, <2>6
  <2>. QED BY <1>1, <2>4, <2>8, <2>9, <2>10, <2>11, <2>12, OneChanges
<1>3. CASE UNCHANGED <<np, accepted>>
  <2>1. answer' \in Nccis \X {"NOERROR", "SENDQUEUEFULL"}
    BY DEF capilib_data_b3_req
  <2>. QED BY <1>1, <1>3, <2>1, OnlyAnswer
<1>. QED BY <1>2, <1>3 DEF capilib_data_b3_req

LEMMA ConfirmKeeps ==
  ASSUME QueuesInv, NEW k \in Nccis, NEW m \in MsgIds, capilib_data_b3_conf(k, m)
  PROVE  QueuesInv'
<1>1. /\ listed' = listed /\ k \in listed /\ Contains(accepted[k], m) /\ answer' = <<>>
      /\ unordered' = IF m = Head(accepted[k]) THEN unordered ELSE unordered \cup {k}
      /\ accepted' = [accepted EXCEPT ![k] = RemoveFirst(@, m)]
      /\ np' = IF OnQueue(np[k], m) THEN [np EXCEPT ![k] = mq_dequeue(@, m)] ELSE np
  BY DEF capilib_data_b3_conf
<1>2. np[k] \in Block /\ np \in [Nccis -> Block] /\ accepted[k] \in Seq(MsgIds) /\ PoolInv(k)
  BY <1>1 DEF QueuesInv, TypeOK
<1>3. PICK s, t :
        /\ s \in Seq(Slots(np[k])) /\ t \in Seq(Slots(np[k]))
        /\ TwoLists(np[k], s, t) /\ Len(accepted[k]) + Len(t) <= Size(np[k])
        /\ k \notin unordered => Ordered(np[k], s, t, accepted[k])
  BY <1>2 DEF PoolInv
<1>4. Queue(np[k]) = s /\ s \in Seq(Pool)
  <2>1. Slots(np[k]) \subseteq Pool
    BY <1>2, Sizes
  <2>. QED BY <1>2, <1>3, <2>1, Walks
<1>5. PICK messages : messages = RemoveFirst(accepted[k], m)
  OBVIOUS
<1>6. /\ messages \in Seq(MsgIds) /\ Len(messages) = Len(accepted[k]) - 1
      /\ accepted[k] # <<>> /\ (m = Head(accepted[k]) => messages = Tail(accepted[k]))
  BY <1>1, <1>2, <1>5, RemoveFirstEntries, RemoveFirstTakes
<1>7. /\ Len(accepted[k]) \in Nat /\ Len(accepted[k]) # 0 /\ Len(t) \in Nat
      /\ Size(np[k]) \in Nat
  BY <1>2, <1>3, <1>6, Sizes
<1>8. k \notin unordered' => /\ k \notin unordered /\ m = Head(accepted[k])
                            /\ Len(s) # 0 /\ np[k].msgid[s[1]] = m
  <2>. SUFFICES ASSUME k \notin unordered'
                PROVE  /\ k \notin unordered /\ m = Head(accepted[k])
                       /\ Len(s) # 0 /\ np[k].msgid[s[1]] = m
    OBVIOUS
  <2>1. k \notin unordered /\ m = Head(accepted[k])
    BY <1>1
  <2>2. /\ Len(s) = Len(accepted[k])
        /\ \A i \in 1 .. Len(s) : np[k].msgid[s[i]] = accepted[k][i]
    BY <1>3, <2>1 DEF Ordered
  <2>3. m = accepted[k][1]
    BY <1>2, <1>6, <2>1
  <2>4. 1 \in 1 .. Len(s)
    BY <1>7, <2>2
  <2>. QED BY <2>1, <2>2, <2>3, <2>4
<1>9. unordered' \in {unordered, unordered \cup {k}}
  BY <1>1
<1>10. accepted' = [accepted EXCEPT ![k] = messages]
  BY <1>1, <1>5
<1>11. CASE OnQueue(np[k], m)
  <2>1. PICK n \in 1 .. Len(s) :
          /\ mq_dequeue(np[k], m) = Unlinked(np[k], s, n)
          /\ np[k].msgid[s[1]] = m => n = 1
    BY <1>4, <1>11, DequeueUnlinks
  <2>2. PICK r : r = Unlinked(np[k], s, n)
    OBVIOUS
  <2>3. /\ r \in Block /\ r.winsize = np[k].winsize
        /\ \E u, v \in Seq(Slots(np[k])) :
             /\ TwoLists(r, u, v) /\ Len(v) = Len(t) + 1
             /\ \A order \in Seq(MsgIds) :
                  n = 1 /\ Ordered(np[k], s, t, order) => Ordered(r, u, v, Tail(order))
    BY <1>2, <1>3, <2>2, DequeuePool
  <2>4. PICK u, v :
          /\ u \in Seq(Slots(np[k])) /\ v \in Seq(Slots(np[k]))
          /\ TwoLists(r, u, v) /\ Len(v) = Len(t) + 1
          /\ \A order \in Seq(MsgIds) :
               n = 1 /\ Ordered(np[k], s, t, order) => Ordered(r, u, v, Tail(order))
    BY <2>3
  <2>5. Size(r) = Size(np[k]) /\ Slots(r) = Slots(np[k])
    BY <2>3 DEF Size, Slots
  <2>6. Len(messages) + Len(v) <= Size(r)
    <3>1. PICK n1 \in Nat : n1 = Len(accepted[k])
      BY <1>7
    <3>2. /\ Len(messages) = n1 - 1 /\ Len(v) = Len(t) + 1 /\ n1 # 0
          /\ n1 + Len(t) <= Size(np[k]) /\ Len(t) \in Nat /\ Size(np[k]) \in Nat
      BY <1>3, <1>6, <1>7, <2>4, <3>1
    <3>3. Len(messages) + Len(v) <= Size(np[k])
      BY <3>2
    <3>. QED BY <2>5, <3>3
  <2>7. ASSUME k \notin unordered' PROVE Ordered(r, u, v, messages)
    <3>1. k \notin unordered /\ m = Head(accepted[k]) /\ n = 1
      BY <1>8, <2>1, <2>7
    <3>2. Ordered(np[k], s, t, accepted[k]) /\ messages = Tail(accepted[k])
      BY <1>3, <1>6, <3>1
    <3>3. Ordered(r, u, v, Tail(accepted[k]))
      BY <1>2, <2>4, <3>1, <3>2
    <3>. QED BY <3>2, <3>3
  <2>8. np' = [np EXCEPT ![k] = r]
    <3>1. np' = [np EXCEPT ![k] = mq_dequeue(np[k], m)]
      BY <1>1, <1>11
    <3>. QED BY <2>1, <2>2, <3>1
  <2>9. u \in Seq(Slots(r)) /\ v \in Seq(Slots(r)) /\ TwoLists(r, u, v)
    BY <2>4, <2>5
  <2>. QED BY <1>1, <1>6, <1>9, <1>10, <2>3, <2>6, <2>7, <2>8, <2>9, OneChanges
<1>12. CASE ~ OnQueue(np[k], m)
  <2>1. k \in unordered'
    <3>1. Len(s) # 0 => 1 \in DOMAIN s
      BY <1>3
    <3>. QED BY <1>4, <1>8, <1>12, <3>1 DEF OnQueue
  <2>2. np' = [np EXCEPT ![k] = np[k]]
    BY <1>1, <1>2, <1>12
  <2>3. Len(messages) + Len(t) <= Size(np[k])
    BY <1>3, <1>6, <1>7
  <2>. QED BY <1>1, <1>2, <1>3, <1>6, <1>9, <1>10, <2>1, <2>2, <2>3, OneChanges
<1>. QED BY <1>11, <1>12

LEMMA QueuesInvNext == QueuesInv /\ [Next]_vars => QueuesInv'
<1>. SUFFICES ASSUME QueuesInv, [Next]_vars PROVE QueuesInv'
  OBVIOUS
<1>1. ASSUME NEW k \in Nccis, capilib_new_ncci(k) PROVE QueuesInv'
  BY <1>1, NewKeeps
<1>2. ASSUME NEW k \in Nccis, capilib_free_ncci(k) PROVE QueuesInv'
  BY <1>2, ForgetKeeps DEF capilib_free_ncci
<1>3. ASSUME NEW a \in Applids, capilib_release_appl(a) PROVE QueuesInv'
  BY <1>3, ForgetKeeps DEF capilib_release_appl
<1>4. CASE capilib_release
  BY <1>4, ForgetKeeps DEF capilib_release
<1>5. ASSUME NEW k \in Nccis, NEW m \in MsgIds, capilib_data_b3_req(k, m) PROVE QueuesInv'
  BY <1>5, RequestKeeps
<1>6. ASSUME NEW k \in Nccis, NEW m \in MsgIds, capilib_data_b3_conf(k, m) PROVE QueuesInv'
  BY <1>6, ConfirmKeeps
<1>7. CASE UNCHANGED vars
  <2>1. answer \in {<<>>} \cup (Nccis \X {"NOERROR", "SENDQUEUEFULL"})
    BY DEF QueuesInv, TypeOK
  <2>. QED BY <1>7, <2>1, OnlyAnswer DEF vars
<1>. QED BY <1>1, <1>2, <1>3, <1>4, <1>5, <1>6, <1>7 DEF Next

LEMMA QueuesInvAlways == Spec => []QueuesInv
  BY QueuesInvInit, QueuesInvNext, PTL DEF Spec

-------------------------------------------------------------------------------
(* Theorems *)

(* capilib.c:11-27: the control blocks hold slots, numbers and counts of    *)
(* the pool's size.                                                         *)
THEOREM QueuesTyped == Spec => []TypeOK
<1>1. QueuesInv => TypeOK
  BY DEF QueuesInv
<1>. QED BY <1>1, QueuesInvAlways, PTL

(* capilib.c:44-78: in whatever order messages are confirmed, no slot is in *)
(* both lists of a pool, or twice in one, or outside the window.            *)
THEOREM SlotsDisjoint == Spec => []ListsDisjoint
<1>1. QueuesInv => ListsDisjoint
  <2>. SUFFICES ASSUME QueuesInv, NEW k \in listed, NEW all, all = Queue(np[k]) \o Free(np[k])
                PROVE  /\ \A i, j \in DOMAIN all : i # j => all[i] # all[j]
                       /\ ToSet(all) \subseteq Slots(np[k])
    BY DEF ListsDisjoint, Slots, Size
  <2>1. np[k] \in Block /\ PoolInv(k)
    BY DEF QueuesInv, TypeOK
  <2>2. PICK s, t : /\ s \in Seq(Slots(np[k])) /\ t \in Seq(Slots(np[k]))
                    /\ TwoLists(np[k], s, t)
    BY <2>1 DEF PoolInv
  <2>3. all = s \o t
    BY <2>1, <2>2, Walks
  <2>4. /\ all \in Seq(Slots(np[k])) /\ Len(all) = Len(s) + Len(t)
        /\ \A i \in 1 .. Len(s) : all[i] = s[i]
        /\ \A i \in 1 .. Len(t) : all[Len(s) + i] = t[i]
    BY <2>2, <2>3, ConcatEntries
  <2>5. Len(s) \in Nat /\ Len(t) \in Nat
    BY <2>2
  <2>6. ASSUME NEW i \in 1 .. Len(all)
        PROVE  \/ i \in 1 .. Len(s) /\ all[i] = s[i]
               \/ i > Len(s) /\ i - Len(s) \in 1 .. Len(t) /\ all[i] = t[i - Len(s)]
    <3>1. CASE i <= Len(s)
      BY <2>4, <2>5, <3>1
    <3>2. CASE i > Len(s)
      <4>1. i - Len(s) \in 1 .. Len(t) /\ Len(s) + (i - Len(s)) = i
        BY <2>4, <2>5, <3>2
      <4>. QED BY <2>4, <3>2, <4>1
    <3>. QED BY <2>5, <3>1, <3>2
  <2>7. ASSUME NEW i \in 1 .. Len(all), NEW j \in 1 .. Len(all), i # j
        PROVE  all[i] # all[j]
    <3>1. CASE i \in 1 .. Len(s) /\ j \in 1 .. Len(s)
      BY <2>2, <2>4, <2>7, <3>1 DEF TwoLists, Distinct
    <3>2. CASE i \in 1 .. Len(s) /\ j \notin 1 .. Len(s)
      BY <2>2, <2>4, <2>6, <3>2 DEF TwoLists
    <3>3. CASE i \notin 1 .. Len(s) /\ j \in 1 .. Len(s)
      BY <2>2, <2>4, <2>6, <3>3 DEF TwoLists
    <3>4. CASE i \notin 1 .. Len(s) /\ j \notin 1 .. Len(s)
      <4>1. /\ i - Len(s) \in 1 .. Len(t) /\ j - Len(s) \in 1 .. Len(t)
            /\ all[i] = t[i - Len(s)] /\ all[j] = t[j - Len(s)]
        BY <2>6, <3>4
      <4>2. i - Len(s) # j - Len(s)
        BY <2>5, <2>7
      <4>. QED BY <2>2, <4>1, <4>2 DEF TwoLists, Distinct
    <3>. QED BY <3>1, <3>2, <3>3, <3>4
  <2>8. DOMAIN all = 1 .. Len(all) /\ \A i \in 1 .. Len(all) : all[i] \in Slots(np[k])
    BY <2>4
  <2>. QED BY <2>7, <2>8 DEF ToSet
<1>. QED BY <1>1, QueuesInvAlways, PTL

(* capilib.c:172-194: the messages that a driver accepted and has not       *)
(* confirmed fit into the window, in whatever order it confirms.            *)
THEOREM WindowHolds == Spec => []WithinWindow
<1>1. QueuesInv => WithinWindow
  <2>. SUFFICES ASSUME QueuesInv, NEW k \in listed PROVE Len(accepted[k]) <= Size(np[k])
    BY DEF WithinWindow, Size
  <2>1. /\ np[k] \in Block /\ PoolInv(k) /\ accepted[k] \in Seq(MsgIds)
    BY DEF QueuesInv, TypeOK
  <2>2. PICK t : t \in Seq(Slots(np[k])) /\ Len(accepted[k]) + Len(t) <= Size(np[k])
    BY <2>1 DEF PoolInv
  <2>3. PICK n \in Nat : n = Len(accepted[k])
    BY <2>1
  <2>4. Len(t) \in Nat /\ Size(np[k]) \in Nat /\ n + Len(t) <= Size(np[k])
    BY <2>1, <2>2, <2>3, Sizes
  <2>5. n <= Size(np[k])
    BY <2>4
  <2>. QED BY <2>3, <2>5
<1>. QED BY <1>1, QueuesInvAlways, PTL

(* The words of the abstract data window.                                   *)
LEMMA SameWords ==
  /\ \A s, e : Data!Contains(s, e) = Contains(s, e)
  /\ \A s, e : Data!RemoveFirst(s, e) = RemoveFirst(s, e)
<1>1. \A s, e : Data!Contains(s, e) = Contains(s, e)
  BY DEF Data!Contains, Contains
<1>2. \A s, e : Data!RemoveFirst(s, e) = RemoveFirst(s, e)
  BY DEF Data!RemoveFirst, RemoveFirst, Data!SelectInSeq, SelectInSeq, Data!RemoveAt,
     RemoveAt, Data!Min, Min
<1>. QED BY <1>1, <1>2

(* The windows of the NCCIs whose confirmations came in order hold the      *)
(* unconfirmed messages, and a request finds no free slot when they are as  *)
(* many as the window admits.                                               *)
LEMMA KeptAccepted ==
  ASSUME QueuesInv, NEW k \in Kept
  PROVE  /\ Window(k) = accepted[k]
         /\ Len(accepted[k]) <= Size(np[k])
         /\ np[k].msgidfree = Null <=> Len(accepted[k]) = Size(np[k])
<1>1. k \in listed /\ k \notin unordered /\ np[k] \in Block /\ PoolInv(k)
      /\ accepted[k] \in Seq(MsgIds)
  BY DEF QueuesInv, TypeOK, Kept
<1>2. PICK acc : acc = accepted[k]
  OBVIOUS
<1>3. PICK s, t : /\ s \in Seq(Slots(np[k])) /\ t \in Seq(Slots(np[k]))
                  /\ TwoLists(np[k], s, t) /\ Ordered(np[k], s, t, acc)
  BY <1>1, <1>2 DEF PoolInv
<1>4. /\ Len(s) = Len(acc) /\ Len(s) + Len(t) = Size(np[k])
      /\ \A i \in 1 .. Len(s) : np[k].msgid[s[i]] = acc[i]
      /\ Len(s) \in Nat /\ Len(t) \in Nat /\ Size(np[k]) \in Nat
      /\ acc \in Seq(MsgIds)
  BY <1>1, <1>2, <1>3, Sizes DEF Ordered
<1>5. Queue(np[k]) = s
  BY <1>1, <1>3, Walks
<1>6. Window(k) = acc
  <2>1. PICK w : w = [i \in DOMAIN s |-> np[k].msgid[s[i]]]
    OBVIOUS
  <2>2. DOMAIN s = 1 .. Len(s) /\ DOMAIN acc = 1 .. Len(s)
    BY <1>3, <1>4
  <2>3. acc = [i \in 1 .. Len(s) |-> acc[i]]
    BY <1>4, <2>2
  <2>4. w = acc
    BY <1>4, <2>1, <2>2, <2>3
  <2>. QED BY <1>1, <1>5, <2>1, <2>4 DEF Window
<1>7. np[k].msgidfree = Null <=> Len(t) = 0
  <2>1. LinkedAs(t, np[k].msgidfree, np[k].next, Null)
    BY <1>3 DEF TwoLists
  <2>2. Len(t) # 0 => t[1] # Null
    <3>1. Len(t) # 0 => 1 \in 1 .. Len(t)
      BY <1>4
    <3>2. Slots(np[k]) \subseteq Pool /\ Null \notin Pool
      BY <1>1, Sizes
    <3>. QED BY <1>3, <3>1, <3>2
  <2>. QED BY <2>1, <2>2 DEF LinkedAs
<1>8. Len(acc) <= Size(np[k]) /\ (Len(t) = 0 <=> Len(acc) = Size(np[k]))
  BY <1>4
<1>. QED BY <1>2, <1>6, <1>7, <1>8

KeptData ==
  /\ KeptWindows = [k \in Nccis |-> IF k \in Kept THEN accepted[k] ELSE <<>>]
  /\ KeptSizes = [k \in Nccis |-> IF k \in Kept THEN Size(np[k]) ELSE 0]

LEMMA KeptState == QueuesInv => KeptData
<1>. SUFFICES ASSUME QueuesInv PROVE KeptData
  OBVIOUS
<1>1. ASSUME NEW k \in Nccis
      PROVE  (IF k \in unordered THEN <<>> ELSE Window(k)) = IF k \in Kept THEN accepted[k] ELSE <<>>
  <2>1. CASE k \in Kept
    BY <2>1, KeptAccepted DEF Kept
  <2>2. CASE k \notin Kept
    BY <2>2 DEF Kept, Window
  <2>. QED BY <2>1, <2>2
<1>2. KeptWindows = [k \in Nccis |-> IF k \in Kept THEN accepted[k] ELSE <<>>]
  BY <1>1 DEF KeptWindows
<1>. QED BY <1>2 DEF KeptData, KeptSizes, Size

LEMMA InitImplements == Init => Data!Init
<1>. SUFFICES ASSUME Init PROVE Data!Init
  OBVIOUS
<1>. QED BY DEF Init, Data!Init, KeptSizes, KeptWindows, KeptAnswer, Kept, Window

(* A step of the pools is a step of the data window, or changes nothing     *)
(* that is seen of it.                                                      *)
dataVars == <<KeptSizes, KeptWindows, KeptAnswer>>

LEMMA NothingSeen ==
  ASSUME KeptSizes' = KeptSizes, KeptWindows' = KeptWindows, KeptAnswer' = <<>>,
         DOMAIN KeptSizes = Nccis, DOMAIN KeptWindows = Nccis,
         KeptSizes = [k \in Nccis |-> KeptSizes[k]],
         KeptWindows = [k \in Nccis |-> KeptWindows[k]]
  PROVE  Data!Close({})
<1>. QED BY DEF Data!Close

LEMMA Shapes ==
  /\ DOMAIN KeptSizes = Nccis /\ KeptSizes = [k \in Nccis |-> KeptSizes[k]]
  /\ DOMAIN KeptWindows = Nccis /\ KeptWindows = [k \in Nccis |-> KeptWindows[k]]
<1>. QED BY DEF KeptSizes, KeptWindows

LEMMA StepImplements ==
  QueuesInv /\ QueuesInv' /\ [Next]_vars => [Data!Next]_dataVars
<1>0. QueuesInv' => KeptData'
  BY KeptState, PTL
<1>. SUFFICES ASSUME QueuesInv, QueuesInv', [Next]_vars PROVE [Data!Next]_dataVars
  OBVIOUS
<1>1. /\ KeptWindows = [k \in Nccis |-> IF k \in Kept THEN accepted[k] ELSE <<>>]
      /\ KeptSizes = [k \in Nccis |-> IF k \in Kept THEN Size(np[k]) ELSE 0]
      /\ KeptWindows' = [k \in Nccis |-> IF k \in Kept' THEN accepted'[k] ELSE <<>>]
      /\ KeptSizes' = [k \in Nccis |-> IF k \in Kept' THEN Size(np'[k]) ELSE 0]
  BY <1>0, KeptState DEF KeptData
<1>2. /\ np \in [Nccis -> Block] /\ accepted \in [Nccis -> Seq(MsgIds)]
      /\ unordered \subseteq listed /\ listed \subseteq Nccis
      /\ \A k \in Nccis \ listed : accepted[k] = <<>>
  BY DEF QueuesInv, TypeOK
<1>3. /\ Kept = listed \ unordered /\ Kept' = listed' \ unordered'
      /\ Kept \subseteq Nccis
  BY <1>2 DEF Kept
<1>4. answer' = <<>> => KeptAnswer' = <<>>
  BY DEF KeptAnswer
<1>5. KeptSizes' = KeptSizes /\ KeptWindows' = KeptWindows /\ KeptAnswer' = <<>> => Data!Next
  BY NothingSeen, Shapes DEF Data!Next
<1>6. ASSUME NEW k \in Nccis, capilib_new_ncci(k) PROVE Data!Next
  <2>1. /\ k \notin listed /\ listed' = listed \cup {k} /\ answer' = <<>>
        /\ accepted' = accepted /\ unordered' = unordered
    BY <1>6 DEF capilib_new_ncci
  <2>2. PICK q : np' = [np EXCEPT ![k] = q]
    BY <1>6 DEF capilib_new_ncci
  <2>3. np'[k] \in Block /\ np'[k] = q /\ \A j \in Nccis : j # k => np'[j] = np[j]
    BY <1>2, <2>2 DEF QueuesInv, TypeOK
  <2>4. Size(q) \in 1 .. MaxWindow
    BY <2>3, Sizes
  <2>5. k \notin Kept /\ Kept' = Kept \cup {k}
    BY <1>2, <1>3, <2>1
  <2>6. KeptSizes[k] = 0 /\ KeptSizes' = [KeptSizes EXCEPT ![k] = Size(q)]
    BY <1>1, <2>3, <2>5
  <2>7. KeptWindows' = KeptWindows
    BY <1>1, <1>2, <2>1, <2>5
  <2>8. Data!Open(k)
    BY <1>4, <2>1, <2>4, <2>6, <2>7 DEF Data!Open
  <2>. QED BY <2>8 DEF Data!Next
<1>7. ASSUME NEW K \in SUBSET listed, Forget(K) PROVE Data!Next
  <2>1. /\ listed' = listed \ K /\ unordered' = unordered \ K /\ answer' = <<>>
        /\ np' = [k \in Nccis |-> IF k \in K THEN mq_init(0) ELSE np[k]]
        /\ accepted' = [k \in Nccis |-> IF k \in K THEN <<>> ELSE accepted[k]]
    BY <1>7 DEF Forget
  <2>2. Kept' = Kept \ K /\ K \in SUBSET Nccis
    BY <1>2, <1>3, <2>1
  <2>3. KeptSizes' = [k \in Nccis |-> IF k \in K THEN 0 ELSE KeptSizes[k]]
    BY <1>1, <2>1, <2>2
  <2>4. KeptWindows' = [k \in Nccis |-> IF k \in K THEN <<>> ELSE KeptWindows[k]]
    BY <1>1, <2>1, <2>2
  <2>5. Data!Close(K)
    BY <1>4, <2>1, <2>3, <2>4 DEF Data!Close
  <2>. QED BY <2>2, <2>5 DEF Data!Next
<1>8. ASSUME NEW k \in Nccis, NEW m \in MsgIds, capilib_data_b3_req(k, m) PROVE Data!Next
  <2>1. listed' = listed /\ unordered' = unordered /\ Kept' = Kept
    BY <1>3, <1>8 DEF capilib_data_b3_req
  <2>2. CASE /\ k \in listed /\ np[k].msgidfree # Null
             /\ np' = [np EXCEPT ![k] = mq_enqueue(@, m)]
             /\ accepted' = [accepted EXCEPT ![k] = Append(@, m)]
             /\ answer' = <<k, "NOERROR">>
    <3>1. np'[k].winsize = np[k].winsize
      BY <1>2, <2>2 DEF mq_enqueue, Block
    <3>2. \A j \in Nccis : j # k => np'[j] = np[j] /\ accepted'[j] = accepted[j]
      BY <1>2, <2>2
    <3>3. \A j \in Nccis : Size(np'[j]) = Size(np[j])
      BY <3>1, <3>2 DEF Size
    <3>4. KeptSizes' = KeptSizes
      BY <1>1, <2>1, <3>3
    <3>5. CASE k \in unordered
      <4>1. k \notin Kept
        BY <1>3, <3>5
      <4>2. KeptWindows' = KeptWindows
        BY <1>1, <2>1, <3>2, <4>1
      <4>3. KeptAnswer' = <<>>
        BY <2>1, <2>2, <3>5 DEF KeptAnswer
      <4>. QED BY <1>5, <3>4, <4>2, <4>3
    <3>6. CASE k \notin unordered
      <4>1. k \in Kept
        BY <1>3, <2>2, <3>6
      <4>2. Len(accepted[k]) <= Size(np[k]) /\ Len(accepted[k]) # Size(np[k])
        BY <2>2, <4>1, KeptAccepted
      <4>3. KeptWindows[k] = accepted[k] /\ KeptSizes[k] = Size(np[k])
        BY <1>1, <4>1
      <4>4. Len(KeptWindows[k]) < KeptSizes[k]
        <5>1. PICK w : w = KeptWindows[k]
          OBVIOUS
        <5>2. w \in Seq(MsgIds) /\ Size(np[k]) \in Nat
          BY <1>2, <4>3, <5>1, Sizes
        <5>3. Len(w) \in Nat /\ Len(w) <= Size(np[k]) /\ Len(w) # Size(np[k])
          BY <4>2, <4>3, <5>1, <5>2
        <5>4. Len(w) < Size(np[k])
          BY <5>2, <5>3
        <5>. QED BY <4>3, <5>1, <5>4
      <4>5. accepted'[k] = Append(accepted[k], m)
        BY <1>2, <2>2
      <4>6. KeptWindows' = [KeptWindows EXCEPT ![k] = Append(@, m)]
        BY <1>1, <2>1, <3>2, <4>1, <4>3, <4>5
      <4>7. KeptAnswer' = <<k, "NOERROR">>
        BY <2>1, <2>2, <3>6 DEF KeptAnswer
      <4>8. Data!Request(k, m)
        BY <3>4, <4>4, <4>6, <4>7 DEF Data!Request
      <4>. QED BY <4>8 DEF Data!Next
    <3>. QED BY <3>5, <3>6
  <2>3. CASE /\ k \in listed /\ np[k].msgidfree = Null
             /\ answer' = <<k, "SENDQUEUEFULL">>
             /\ UNCHANGED <<np, accepted>>
    <3>1. KeptSizes' = KeptSizes /\ KeptWindows' = KeptWindows
      BY <1>1, <2>1, <2>3
    <3>2. CASE k \in unordered
      <4>1. KeptAnswer' = <<>>
        BY <2>1, <2>3, <3>2 DEF KeptAnswer
      <4>. QED BY <1>5, <3>1, <4>1
    <3>3. CASE k \notin unordered
      <4>1. k \in Kept
        BY <1>3, <2>3, <3>3
      <4>2. Len(accepted[k]) = Size(np[k])
        BY <2>3, <4>1, KeptAccepted
      <4>3. KeptWindows[k] = accepted[k] /\ KeptSizes[k] = Size(np[k])
        BY <1>1, <4>1
      <4>4. Size(np[k]) > 0
        <5>1. Size(np[k]) \in 1 .. MaxWindow
          BY <1>2, Sizes
        <5>. QED BY <5>1, WindowAssumption
      <4>5. KeptAnswer' = <<k, "SENDQUEUEFULL">>
        BY <2>1, <2>3, <3>3 DEF KeptAnswer
      <4>6. KeptSizes[k] > 0 /\ Len(KeptWindows[k]) = KeptSizes[k]
        BY <4>2, <4>3, <4>4
      <4>7. Data!Request(k, m)
        BY <3>1, <4>5, <4>6 DEF Data!Request
      <4>. QED BY <4>7 DEF Data!Next
    <3>. QED BY <3>2, <3>3
  <2>4. CASE /\ k \notin listed
             /\ answer' = <<k, "NOERROR">>
             /\ UNCHANGED <<np, accepted>>
    <3>1. KeptSizes' = KeptSizes /\ KeptWindows' = KeptWindows
      BY <1>1, <2>1, <2>4
    <3>2. k \notin Kept /\ k \notin unordered
      BY <1>2, <1>3, <2>4
    <3>3. KeptSizes[k] = 0 /\ KeptAnswer' = <<k, "NOERROR">>
      BY <1>1, <2>1, <2>4, <3>2 DEF KeptAnswer
    <3>4. Data!Request(k, m)
      BY <3>1, <3>3 DEF Data!Request
    <3>. QED BY <3>4 DEF Data!Next
  <2>. QED BY <1>8, <2>2, <2>3, <2>4 DEF capilib_data_b3_req
<1>9. ASSUME NEW k \in Nccis, NEW m \in MsgIds, capilib_data_b3_conf(k, m) PROVE Data!Next
  <2>1. /\ listed' = listed /\ k \in listed /\ Contains(accepted[k], m) /\ answer' = <<>>
        /\ unordered' = IF m = Head(accepted[k]) THEN unordered ELSE unordered \cup {k}
        /\ accepted' = [accepted EXCEPT ![k] = RemoveFirst(@, m)]
        /\ np' = IF OnQueue(np[k], m) THEN [np EXCEPT ![k] = mq_dequeue(@, m)] ELSE np
    BY <1>9 DEF capilib_data_b3_conf
  <2>2. \A j \in Nccis : j # k => np'[j] = np[j] /\ accepted'[j] = accepted[j]
    BY <1>2, <2>1
  <2>3. np'[k].winsize = np[k].winsize
    <3>1. CASE OnQueue(np[k], m)
      <4>1. np'[k] = mq_dequeue(np[k], m)
        BY <1>2, <2>1, <3>1
      <4>. QED BY <1>2, <4>1 DEF mq_dequeue, Block
    <3>2. CASE ~ OnQueue(np[k], m)
      BY <2>1, <3>2
    <3>. QED BY <3>1, <3>2
  <2>4. \A j \in Nccis : Size(np'[j]) = Size(np[j])
    BY <2>2, <2>3 DEF Size
  <2>5. KeptAnswer' = <<>>
    BY <1>4, <2>1
  <2>6. CASE k \in unordered
    <3>1. Kept' = Kept /\ k \notin Kept
      BY <1>3, <2>1, <2>6
    <3>2. KeptSizes' = KeptSizes
      BY <1>1, <2>4, <3>1
    <3>3. KeptWindows' = KeptWindows
      BY <1>1, <2>2, <3>1
    <3>. QED BY <1>5, <2>5, <3>2, <3>3
  <2>7. CASE k \notin unordered /\ m # Head(accepted[k])
    <3>1. Kept' = Kept \ {k}
      BY <1>3, <2>1, <2>7
    <3>2. KeptSizes' = [j \in Nccis |-> IF j \in {k} THEN 0 ELSE KeptSizes[j]]
      BY <1>1, <2>4, <3>1
    <3>3. KeptWindows' = [j \in Nccis |-> IF j \in {k} THEN <<>> ELSE KeptWindows[j]]
      BY <1>1, <2>2, <3>1
    <3>4. Data!Close({k})
      BY <2>5, <3>2, <3>3 DEF Data!Close
    <3>. QED BY <3>4 DEF Data!Next
  <2>8. CASE k \notin unordered /\ m = Head(accepted[k])
    <3>1. Kept' = Kept /\ k \in Kept
      BY <1>3, <2>1, <2>8
    <3>2. KeptSizes' = KeptSizes
      BY <1>1, <2>4, <3>1
    <3>3. KeptWindows[k] = accepted[k] /\ accepted'[k] = RemoveFirst(accepted[k], m)
      BY <1>1, <1>2, <2>1, <3>1
    <3>4. KeptWindows' = [KeptWindows EXCEPT ![k] = RemoveFirst(@, m)]
      BY <1>1, <2>2, <3>1, <3>3
    <3>5. Contains(KeptWindows[k], m)
      BY <2>1, <3>3
    <3>6. Data!Confirm(k, m)
      BY <2>5, <3>2, <3>4, <3>5, SameWords DEF Data!Confirm
    <3>. QED BY <3>6 DEF Data!Next
  <2>. QED BY <2>6, <2>7, <2>8
<1>10. CASE UNCHANGED vars
  <2>1. Kept' = Kept /\ KeptAnswer' = KeptAnswer /\ np' = np /\ accepted' = accepted
    BY <1>10 DEF vars, Kept, KeptAnswer
  <2>2. KeptSizes' = KeptSizes /\ KeptWindows' = KeptWindows
    BY <1>1, <2>1
  <2>. QED BY <2>1, <2>2 DEF dataVars
<1>11. ASSUME NEW k \in Nccis, capilib_free_ncci(k) PROVE Data!Next
  BY <1>7, <1>11 DEF capilib_free_ncci
<1>12. ASSUME NEW a \in Applids, capilib_release_appl(a) PROVE Data!Next
  BY <1>7, <1>12 DEF capilib_release_appl
<1>13. CASE capilib_release
  BY <1>7, <1>13 DEF capilib_release
<1>. QED BY <1>6, <1>8, <1>9, <1>10, <1>11, <1>12, <1>13 DEF Next

(* capilib.c:29-78, 172-194: as long as the messages of an NCCI are         *)
(* confirmed in order, its pool is the data window: a request is refused    *)
(* exactly when the window is full, and a confirmation finds its message.   *)
THEOREM WindowImplemented == Spec => WindowKept
<1>1. QueuesInv /\ QueuesInv' /\ [Next]_vars => [Data!Next]_<<KeptSizes, KeptWindows, KeptAnswer>>
  BY StepImplements DEF dataVars
<1>. QED BY <1>1, InitImplements, QueuesInvAlways, PTL DEF Spec, WindowKept, Data!Spec
===============================================================================
