-------------------------- MODULE CapiDrvFlowProofs --------------------------
(***************************************************************************)
(* What isdn4linux is told of the channels, and the blocks of data on their *)
(* way: the driver implements IsdnChannels, and the ackqueue of a B3        *)
(* connection holds the blocks that the device has not confirmed.  For any  *)
(* channels, connections and numbers, and whatever is refused or lost.      *)
(*                                                                          *)
(* FlowInv relates the call and B3 states of a channel, what isdn4linux was *)
(* told of it, the state of the device's connection and the order of the    *)
(* messages that are still in its queue.  Every step keeps it, and is a     *)
(* step of IsdnChannels or changes nothing of what isdn4linux was told.     *)
(***************************************************************************)
EXTENDS CapiDrvProofs

-------------------------------------------------------------------------------
(* The order of the messages of a connection, and how the device extends it. *)

(* The messages that open, report and close a B3 connection.               *)
Opens(m) == m.cmd = "CONNECT_B3_IND" \/ (m.cmd = "CONNECT_B3_CONF" /\ m.ok)
Closes(m) == m.cmd = "DISCONNECT_B3_IND"
Flows(m) == Opens(m) \/ Closes(m) \/ m.cmd = "CONNECT_B3_ACTIVE_IND"
Confirmation(m) == m.cmd = "DATA_B3_CONF"
HasOpen(q) == \E i \in Entries(q) : Opens(q[i])
HasClose(q) == \E i \in Entries(q) : Closes(q[i])
HasFlow(q) == \E i \in Entries(q) : Flows(q[i])

BStates == {"none", "in", "alloc", "act", "clear", "gone"}

(* The queue q and the unconfirmed blocks D of a connection whose states,  *)
(* its own and that of its B3 connection, are d and b.                     *)
Fitting(q, d, b, D) ==
  /\ b \in BStates
  /\ b \notin {"none", "gone"} => d \in {"out_act", "in_act", "clear"}
  /\ d = "idle" => b = "none"
  /\ HasBegin(q) => b = "none" /\ d \notin {"in_acc", "in_act"}
  /\ b = "none" => D = <<>> /\ ~HasFlow(q)
  /\ HasOpen(q) => D = <<>>
  /\ HasClose(q) => b = "gone"
  /\ HasFlow(q) /\ b = "gone" => HasClose(q)
Ordered(q) ==
  \A i, j \in Entries(q) : i < j =>
     /\ Closes(q[i]) \/ Finishes(q[i]) => ~Flows(q[j])
     /\ Flows(q[i]) => ~Opens(q[j])
     /\ Opens(q[i]) => ~Confirmation(q[j])
Course(q, d, b, D) == IsSeq(q) /\ IsSeq(D) /\ Fitting(q, d, b, D) /\ Ordered(q)

LEMMA FlowsAppend ==
  ASSUME NEW q, NEW m, NEW r, Longer(q, m, r)
  PROVE  /\ HasOpen(r) <=> HasOpen(q) \/ Opens(m)
         /\ HasClose(r) <=> HasClose(q) \/ Closes(m)
         /\ HasFlow(r) <=> HasFlow(q) \/ Flows(m)
<1>1. Len(q) + 1 \in Entries(r)
  BY DEF Longer, Entries
<1>2. HasOpen(r) <=> HasOpen(q) \/ Opens(m)
  BY <1>1 DEF Longer, HasOpen
<1>3. HasClose(r) <=> HasClose(q) \/ Closes(m)
  BY <1>1 DEF Longer, HasClose
<1>4. HasFlow(r) <=> HasFlow(q) \/ Flows(m)
  BY <1>1 DEF Longer, HasFlow
<1>. QED BY <1>2, <1>3, <1>4

LEMMA FlowsTail ==
  ASSUME NEW q, NEW m, NEW r, Shorter(q, m, r)
  PROVE  /\ HasOpen(q) <=> HasOpen(r) \/ Opens(m)
         /\ HasClose(q) <=> HasClose(r) \/ Closes(m)
         /\ HasFlow(q) <=> HasFlow(r) \/ Flows(m)
<1>1. HasOpen(q) <=> HasOpen(r) \/ Opens(m)
  BY DEF Shorter, HasOpen
<1>2. HasClose(q) <=> HasClose(r) \/ Closes(m)
  BY DEF Shorter, HasClose
<1>3. HasFlow(q) <=> HasFlow(r) \/ Flows(m)
  BY DEF Shorter, HasFlow
<1>. QED BY <1>1, <1>2, <1>3

(* A message joins the queue.                                              *)
LEMMA OrderedAppend ==
  ASSUME NEW q, Ordered(q), NEW m, NEW r, Longer(q, m, r),
         Flows(m) => ~HasClose(q) /\ ~HasEnd(q),
         Opens(m) => ~HasFlow(q),
         Confirmation(m) => ~HasOpen(q)
  PROVE  Ordered(r)
<1>. SUFFICES ASSUME NEW i \in Entries(r), NEW j \in Entries(r), i < j
              PROVE  /\ Closes(r[i]) \/ Finishes(r[i]) => ~Flows(r[j])
                     /\ Flows(r[i]) => ~Opens(r[j])
                     /\ Opens(r[i]) => ~Confirmation(r[j])
  BY DEF Ordered
<1>1. i \in Entries(q) /\ r[i] = q[i]
  BY DEF Longer, Entries
<1>2. CASE j \in Entries(q)
  BY <1>1, <1>2 DEF Ordered, Longer
<1>3. CASE j = Len(q) + 1
  <2>1. r[j] = m
    BY <1>3 DEF Longer
  <2>. QED BY <1>1, <2>1 DEF HasClose, HasEnd, HasFlow, HasOpen
<1>. QED BY <1>2, <1>3 DEF Longer

LEMMA CourseAppend ==
  ASSUME NEW q, NEW d, NEW b, NEW D, Course(q, d, b, D), NEW m, NEW r, r = Append(q, m),
         Flows(m) => ~HasClose(q) /\ ~HasEnd(q),
         Opens(m) => ~HasFlow(q),
         Confirmation(m) => ~HasOpen(q),
         NEW e, NEW f, NEW E, IsSeq(E), Fitting(r, e, f, E)
  PROVE  Course(r, e, f, E)
<1>1. Longer(q, m, r)
  BY QueueAppend DEF Course
<1>2. Ordered(r)
  BY <1>1, OrderedAppend DEF Course
<1>. QED BY <1>1, <1>2 DEF Course, Longer

(* The states change, and a message that says nothing of the B3 connection *)
(* joins the queue.                                                        *)
LEMMA CourseMoves ==
  ASSUME NEW q, NEW d, NEW b, NEW D, Course(q, d, b, D), NEW e, NEW f,
         f \in BStates, f \notin {"none", "gone"} => e \in {"out_act", "in_act", "clear"},
         f = b \/ (b \notin {"none", "gone"} /\ f \notin {"none", "gone"}),
         e = "idle" => d = "idle", e \in {"in_acc", "in_act"} => ~HasBegin(q),
         NEW r, r = q \/ \E m : /\ r = Append(q, m)
                                /\ ~Begins(m) /\ ~Flows(m) /\ ~Confirmation(m)
  PROVE  Course(r, e, f, D)
<1>1. CASE r = q
  BY <1>1 DEF Course, Fitting
<1>2. CASE r # q
  <2>1. PICK m : r = Append(q, m) /\ ~Begins(m) /\ ~Flows(m) /\ ~Confirmation(m)
    BY <1>2
  <2>2. Longer(q, m, r)
    BY <2>1, QueueAppend DEF Course
  <2>3. /\ HasOpen(r) <=> HasOpen(q)
        /\ HasClose(r) <=> HasClose(q)
        /\ HasFlow(r) <=> HasFlow(q)
    BY <2>1, <2>2, FlowsAppend DEF Flows
  <2>4. HasBegin(r) <=> HasBegin(q)
    BY <2>1, <2>2, MarksAppend
  <2>5. Fitting(r, e, f, D)
    BY <2>3, <2>4 DEF Course, Fitting
  <2>6. ~Opens(m)
    BY <2>1 DEF Flows
  <2>. QED BY <2>1, <2>5, <2>6, CourseAppend DEF Course
<1>. QED BY <1>1, <1>2

(* The first message is taken off.                                         *)
LEMMA CourseTaken ==
  ASSUME NEW q, NEW d, NEW b, NEW D, Course(q, d, b, D), NEW m, NEW r, Shorter(q, m, r)
  PROVE  /\ Course(r, d, b, D)
         /\ Closes(m) => b = "gone" /\ ~HasFlow(r)
         /\ Finishes(m) => ~HasFlow(r)
         /\ Opens(m) => b # "none" /\ ~HasOpen(r) /\ D = <<>>
                        /\ \A i \in Entries(r) : ~Confirmation(r[i])
         /\ m.cmd = "CONNECT_B3_ACTIVE_IND" => b # "none"
<1>1. Shorter(q, m, r)
  OBVIOUS
<1>2. /\ HasOpen(q) <=> HasOpen(r) \/ Opens(m)
      /\ HasClose(q) <=> HasClose(r) \/ Closes(m)
      /\ HasFlow(q) <=> HasFlow(r) \/ Flows(m)
      /\ HasBegin(q) <=> HasBegin(r) \/ Begins(m)
  BY <1>1, FlowsTail, MarksTail
<1>3. ASSUME NEW i \in Entries(r)
      PROVE  /\ Closes(m) \/ Finishes(m) => ~Flows(r[i])
             /\ Flows(m) => ~Opens(r[i])
             /\ Opens(m) => ~Confirmation(r[i])
  <2>1. i + 1 \in Entries(q) /\ 1 \in Entries(q) /\ 1 < i + 1 /\ r[i] = q[i + 1] /\ m = q[1]
    BY <1>1 DEF Shorter, Entries
  <2>. QED BY <2>1 DEF Course, Ordered
<1>4. Ordered(r)
  <2>1. ASSUME NEW i \in Entries(r), NEW j \in Entries(r), i < j
        PROVE  /\ i + 1 \in Entries(q) /\ j + 1 \in Entries(q) /\ i + 1 < j + 1
               /\ r[i] = q[i + 1] /\ r[j] = q[j + 1]
    BY <1>1, <2>1 DEF Shorter, Entries
  <2>. QED BY <2>1 DEF Course, Ordered
<1>5. (Closes(m) \/ Finishes(m) => ~HasFlow(r)) /\ (Flows(m) => ~HasOpen(r))
  BY <1>3 DEF HasFlow, HasOpen
<1>6. Fitting(r, d, b, D)
  <2>1. HasFlow(r) /\ b = "gone" => HasClose(r)
    BY <1>2, <1>5 DEF Course, Fitting
  <2>. QED BY <1>2, <2>1 DEF Course, Fitting
<1>7. IsSeq(r)
  BY <1>1 DEF Shorter
<1>8. Course(r, d, b, D)
  BY <1>4, <1>6, <1>7 DEF Course
<1>9. Closes(m) => HasClose(q)
  BY <1>2
<1>10. Flows(m) => b # "none"
  BY <1>2 DEF Course, Fitting
<1>11. Opens(m) => D = <<>>
  BY <1>2 DEF Course, Fitting
<1>12. Closes(m) => b = "gone"
  BY <1>9 DEF Course, Fitting
<1>. QED BY <1>3, <1>5, <1>8, <1>10, <1>11, <1>12 DEF Flows

(* DISCONNECT_B3_RESP and DISCONNECT_RESP: the connection begins anew.     *)
LEMMA CourseReset ==
  ASSUME NEW q, NEW d, NEW b, NEW D, Course(q, d, b, D), ~HasFlow(q),
         NEW e, e \in {d, "idle"}, e = "idle" => ~HasBegin(q)
  PROVE  Course(q, e, "none", <<>>)
<1>1. IsSeq(<<>>)
  <2>1. <<>> \in Seq({})
    OBVIOUS
  <2>. QED BY <2>1, SeqIsSeq
<1>2. HasClose(q) => HasFlow(q)
  BY DEF HasClose, HasFlow, Flows
<1>3. HasOpen(q) => HasFlow(q)
  BY DEF HasOpen, HasFlow, Flows
<1>. QED BY <1>1, <1>2, <1>3 DEF Course, Fitting, BStates

Formed(l) ==
  /\ IsLine(l)
  /\ l.d = [p \in Plci |-> l.d[p]] /\ l.b = [p \in Plci |-> l.b[p]]
  /\ l.data = [p \in Plci |-> l.data[p]] /\ l.up = [p \in Plci \cup {0} |-> l.up[p]]
Lanes(l) == Formed(l) /\ \A p \in Plci : Course(l.up[p], l.d[p], l.b[p], l.data[p])

(* From l to n only the connection p changes.                              *)
Elsewhere(l, n, p) ==
  \A y \in Plci \cup {0} : y # p =>
    /\ n.up[y] = l.up[y]
    /\ y # 0 => n.d[y] = l.d[y] /\ n.b[y] = l.b[y] /\ n.data[y] = l.data[y]

(* Its B3 connection is neither opened anew nor given up for another, and  *)
(* no call is answered.                                                    *)
Extended(q, r) == r = q \/ \E m : r = Append(q, m) /\ ~Opens(m) /\ ~Confirmation(m)
Firm(l, n, p) ==
  /\ Extended(l.up[p], n.up[p]) /\ n.data[p] = l.data[p]
  /\ l.b[p] # "none" => n.b[p] # "none"
  /\ n.b[p] = "gone" => l.b[p] = "gone" \/ HasClose(n.up[p])
Unanswered(l, n, p) == n.d[p] \in {"in_acc", "in_act"} => l.d[p] \in {"in_acc", "in_act"}
Steady(l, n, p) == Firm(l, n, p) /\ Unanswered(l, n, p)

LEMMA LanesSet ==
  ASSUME NEW l, Lanes(l), NEW p \in Plci, NEW n, Formed(n), Elsewhere(l, n, p),
         Course(n.up[p], n.d[p], n.b[p], n.data[p])
  PROVE  Lanes(n)
<1>1. ASSUME NEW y \in Plci PROVE Course(n.up[y], n.d[y], n.b[y], n.data[y])
  <2>1. CASE y = p
    BY <2>1
  <2>2. CASE y # p
    <3>1. Course(l.up[y], l.d[y], l.b[y], l.data[y])
      BY DEF Lanes
    <3>2. n.up[y] = l.up[y] /\ n.d[y] = l.d[y] /\ n.b[y] = l.b[y] /\ n.data[y] = l.data[y]
      BY <2>2, DrvAssumption DEF Elsewhere
    <3>. QED BY <3>1, <3>2
  <2>. QED BY <2>1, <2>2
<1>. QED BY <1>1 DEF Lanes

LEMMA LanesSame ==
  ASSUME NEW l, Lanes(l), NEW p, NEW n, IsLine(n),
         n.d = l.d, n.b = l.b, n.data = l.data, n.up = l.up
  PROVE  Lanes(n) /\ Elsewhere(l, n, p) /\ Steady(l, n, p)
  BY DEF Lanes, Formed, Elsewhere, Steady, Firm, Unanswered, Extended

LEMMA ElsewhereTwice ==
  ASSUME NEW l, NEW k, NEW n, NEW p, Elsewhere(l, k, p), Elsewhere(k, n, p)
  PROVE  Elsewhere(l, n, p)
  BY DEF Elsewhere

(* What a message and a new state change.                                  *)
LEMMA MessageSet ==
  ASSUME NEW l, Formed(l), NEW p \in Plci \cup {0}, NEW m, NEW n, n = Up(l, p, m)
  PROVE  /\ Formed(n) /\ Elsewhere(l, n, p) /\ n.up[p] = Append(l.up[p], m)
         /\ n.d = l.d /\ n.b = l.b /\ n.data = l.data
  BY DEF Formed, Up, IsLine, Elsewhere

LEMMA StateSet ==
  ASSUME NEW l, Formed(l), NEW p \in Plci, NEW d, NEW n, n = [l EXCEPT !.d[p] = d]
  PROVE  /\ Formed(n) /\ Elsewhere(l, n, p) /\ n.d[p] = d
         /\ n.up = l.up /\ n.b = l.b /\ n.data = l.data
  BY DEF Formed, IsLine, Elsewhere

LEMMA B3StateSet ==
  ASSUME NEW l, Formed(l), NEW p \in Plci, NEW b, NEW n, n = [l EXCEPT !.b[p] = b]
  PROVE  /\ Formed(n) /\ Elsewhere(l, n, p) /\ n.b[p] = b
         /\ n.up = l.up /\ n.d = l.d /\ n.data = l.data
  BY DEF Formed, IsLine, Elsewhere

LEMMA DataSet ==
  ASSUME NEW l, Formed(l), NEW p \in Plci, NEW D, NEW n, n = [l EXCEPT !.data[p] = D]
  PROVE  /\ Formed(n) /\ Elsewhere(l, n, p) /\ n.data[p] = D
         /\ n.up = l.up /\ n.d = l.d /\ n.b = l.b
  BY DEF Formed, IsLine, Elsewhere

(* The states change, and a message may be sent that opens and confirms    *)
(* nothing.                                                                *)
LEMMA LanesMove ==
  ASSUME NEW l, Lanes(l), NEW p \in Plci, NEW n, Formed(n), Elsewhere(l, n, p),
         n.data[p] = l.data[p],
         n.b[p] \in BStates, n.b[p] \notin {"none", "gone"} => n.d[p] \in {"out_act", "in_act", "clear"},
         n.b[p] = l.b[p] \/ (l.b[p] \notin {"none", "gone"} /\ n.b[p] \notin {"none", "gone"}),
         n.d[p] = "idle" => l.d[p] = "idle",
         n.d[p] \in {"in_acc", "in_act"} => ~HasBegin(l.up[p]),
         n.up[p] = l.up[p] \/ \E m : /\ n.up[p] = Append(l.up[p], m)
                                     /\ ~Begins(m) /\ ~Flows(m) /\ ~Confirmation(m)
  PROVE  Lanes(n) /\ Firm(l, n, p)
<1>1. Course(l.up[p], l.d[p], l.b[p], l.data[p])
  BY DEF Lanes
<1>2. Course(n.up[p], n.d[p], n.b[p], n.data[p])
  BY <1>1, CourseMoves
<1>3. Lanes(n)
  BY <1>2, LanesSet
<1>4. Extended(l.up[p], n.up[p])
  BY DEF Extended, Flows
<1>. QED BY <1>3, <1>4 DEF Firm

(* What the device takes. *)
LEMMA NeutralConfs ==
  ASSUME NEW cmd, NEW ok, NEW id, NEW m, m = Msg(cmd, ok, id)
  PROVE  /\ cmd \in {"DISCONNECT_CONF", "DISCONNECT_B3_CONF"} \/ (cmd = "CONNECT_B3_CONF" /\ ok = FALSE) =>
              ~Begins(m) /\ ~Flows(m) /\ ~Confirmation(m)
         /\ cmd = "CONNECT_B3_CONF" /\ ok = TRUE => Opens(m) /\ Flows(m) /\ ~Begins(m) /\ ~Confirmation(m)
                                                    /\ ~Closes(m) /\ m.cmd # "CONNECT_B3_IND"
  BY DEF Msg, Begins, Flows, Opens, Closes, Confirmation

(* CONNECT_B3_REQ: the connection that it opens.                           *)
LEMMA LanesOpen ==
  ASSUME NEW l, Lanes(l), NEW p \in Plci, NEW n, Formed(n), Elsewhere(l, n, p),
         NEW m, Opens(m), ~Begins(m), ~Confirmation(m), ~Closes(m), ~HasBegin(l.up[p]), ~HasEnd(l.up[p]),
         n.up[p] = Append(l.up[p], m), l.b[p] = "none",
         n.b[p] \in {"in", "alloc"}, n.d[p] = l.d[p], n.d[p] \in {"out_act", "in_act"},
         n.data[p] = l.data[p]
  PROVE  Lanes(n)
<1>1. Course(l.up[p], l.d[p], l.b[p], l.data[p])
  BY DEF Lanes
<1>2. l.data[p] = <<>> /\ ~HasFlow(l.up[p]) /\ IsSeq(l.up[p]) /\ IsSeq(l.data[p])
  BY <1>1 DEF Course, Fitting
<1>3. ~HasOpen(l.up[p]) /\ ~HasClose(l.up[p])
  BY <1>2 DEF HasFlow, HasOpen, HasClose, Flows
<1>4. Longer(l.up[p], m, n.up[p])
  BY <1>2, QueueAppend
<1>5. Flows(m)
  BY DEF Flows
<1>6. ~HasBegin(n.up[p]) /\ ~HasClose(n.up[p])
  BY <1>3, <1>4, MarksAppend, FlowsAppend
<1>7. Fitting(n.up[p], n.d[p], n.b[p], n.data[p])
  BY <1>2, <1>6 DEF Fitting, BStates
<1>8. Course(n.up[p], n.d[p], n.b[p], n.data[p])
  BY <1>1, <1>2, <1>3, <1>7, CourseAppend
<1>. QED BY <1>8, LanesSet

LEMMA LanesReset ==
  ASSUME NEW l, Lanes(l), NEW p \in Plci, NEW n, Formed(n), Elsewhere(l, n, p),
         ~HasFlow(l.up[p]), n.d[p] \in {l.d[p], "idle"}, n.d[p] = "idle" => ~HasBegin(l.up[p]),
         n.b[p] = "none", n.data[p] = <<>>, n.up[p] = l.up[p]
  PROVE  Lanes(n)
<1>1. Course(l.up[p], l.d[p], l.b[p], l.data[p])
  BY DEF Lanes
<1>2. Course(n.up[p], n.d[p], n.b[p], n.data[p])
  BY <1>1, CourseReset
<1>. QED BY <1>2, LanesSet

LEMMA SetFields ==
  ASSUME NEW l, Lanes(l), NEW p \in Plci
  PROVE  /\ Course(l.up[p], l.d[p], l.b[p], l.data[p])
         /\ l.b[p] \in BStates
         /\ l.b[p] \notin {"none", "gone"} => l.d[p] \in {"out_act", "in_act", "clear"}
         /\ Formed(l)
  BY DEF Lanes, Course, Fitting

(* Requests that only change the states, and their confirmations.          *)
LEMMA AnswerLanes ==
  ASSUME NEW l, Lanes(l), NEW p \in Plci, NEW k, Formed(k), Elsewhere(l, k, p),
         k.up[p] = l.up[p], k.data[p] = l.data[p],
         k.b[p] \in BStates, k.b[p] \notin {"none", "gone"} => k.d[p] \in {"out_act", "in_act", "clear"},
         k.b[p] = l.b[p] \/ (l.b[p] \notin {"none", "gone"} /\ k.b[p] \notin {"none", "gone"}),
         k.d[p] = "idle" => l.d[p] = "idle",
         k.d[p] \in {"in_acc", "in_act"} => ~HasBegin(l.up[p]),
         NEW m, ~Begins(m), ~Flows(m), ~Confirmation(m), NEW n, n = k \/ n = Up(k, p, m)
  PROVE  Lanes(n) /\ Elsewhere(l, n, p) /\ Firm(l, n, p) /\ n.d[p] = k.d[p]
<1>1. /\ Formed(n) /\ Elsewhere(k, n, p) /\ n.d[p] = k.d[p] /\ n.b[p] = k.b[p] /\ n.data[p] = k.data[p]
      /\ n.up[p] = l.up[p] \/ n.up[p] = Append(l.up[p], m)
  <2>1. CASE n = k
    BY <2>1 DEF Elsewhere
  <2>2. CASE n # k
    BY <2>2, MessageSet
  <2>. QED BY <2>1, <2>2
<1>2. Elsewhere(l, n, p)
  BY <1>1, ElsewhereTwice
<1>3. Lanes(n) /\ Firm(l, n, p)
  BY <1>1, <1>2, LanesMove
<1>. QED BY <1>1, <1>2, <1>3

LEMMA RequestLanes ==
  ASSUME NEW l, Lanes(l), NEW p \in Plci, NEW id, NEW cmd \in Requests,
         NEW n \in Take(l, cmd, p, id),
         cmd \in {"CONNECT_RESP", "CONNECT_B3_REQ"} => ~HasBegin(l.up[p]),
         cmd = "CONNECT_B3_REQ" /\ l.d[p] = "out_act" => ~HasEnd(l.up[p]),
         cmd = "DISCONNECT_B3_RESP" => ~HasFlow(l.up[p])
  PROVE  /\ Lanes(n) /\ Elsewhere(l, n, p)
         /\ cmd # "CONNECT_RESP" => Unanswered(l, n, p)
         /\ cmd \notin {"CONNECT_B3_REQ", "DISCONNECT_B3_RESP"} => Firm(l, n, p)
<1>0. p # 0
  BY DrvAssumption
<1>. DEFINE Good == /\ Lanes(n) /\ Elsewhere(l, n, p)
                    /\ cmd # "CONNECT_RESP" => Unanswered(l, n, p)
                    /\ cmd \notin {"CONNECT_B3_REQ", "DISCONNECT_B3_RESP"} => Firm(l, n, p)
<1>1. Lanes(l) /\ Elsewhere(l, l, p) /\ Steady(l, l, p)
  BY LanesSame DEF Lanes, Formed
<1>2. Course(l.up[p], l.d[p], l.b[p], l.data[p]) /\ Formed(l)
  BY SetFields
<1>3. /\ l.b[p] \in BStates
      /\ l.b[p] \notin {"none", "gone"} => l.d[p] \in {"out_act", "in_act", "clear"}
  BY SetFields
<1>4. CASE n = l
  BY <1>1, <1>4 DEF Steady
<1>5. ASSUME NEW e, NEW m, n = [l EXCEPT !.d[p] = e] \/ n = Up([l EXCEPT !.d[p] = e], p, m),
             ~Begins(m), ~Flows(m), ~Confirmation(m),
             e = "clear" \/ (e = "in_acc" /\ l.d[p] = "in" /\ cmd = "CONNECT_RESP")
      PROVE  Good
  <2>1. PICK k : k = [l EXCEPT !.d[p] = e]
    OBVIOUS
  <2>2. /\ Formed(k) /\ Elsewhere(l, k, p) /\ k.d[p] = e
        /\ k.up = l.up /\ k.b = l.b /\ k.data = l.data
    BY <1>2, <2>1, StateSet
  <2>3. k.up[p] = l.up[p] /\ k.data[p] = l.data[p] /\ k.b[p] = l.b[p]
    BY <2>2
  <2>4. ~Begins(m) /\ ~Flows(m) /\ ~Confirmation(m) /\ (n = k \/ n = Up(k, p, m))
    BY <1>5, <2>1
  <2>6. /\ k.b[p] \notin {"none", "gone"} => k.d[p] \in {"out_act", "in_act", "clear"}
        /\ k.d[p] # "idle" /\ (k.d[p] \in {"in_acc", "in_act"} => ~HasBegin(l.up[p]))
    BY <1>3, <1>5, <2>2
  <2>7. Lanes(n) /\ Elsewhere(l, n, p) /\ Firm(l, n, p) /\ n.d[p] = k.d[p]
    BY <1>3, <2>2, <2>3, <2>4, <2>6, AnswerLanes
  <2>5. cmd # "CONNECT_RESP" => Unanswered(l, n, p)
    BY <1>5, <2>2, <2>7 DEF Unanswered
  <2>. QED BY <2>5, <2>7
<1>6. ASSUME NEW m, n = Up(l, p, m), ~Begins(m), ~Flows(m), ~Confirmation(m)
      PROVE  Good
  <2>1. Lanes(n) /\ Elsewhere(l, n, p) /\ Firm(l, n, p) /\ n.d[p] = l.d[p]
    BY <1>1, <1>2, <1>3, <1>6, AnswerLanes DEF Course, Fitting
  <2>. QED BY <2>1 DEF Unanswered
<1>7. ASSUME NEW b, NEW m, n = [l EXCEPT !.b[p] = b] \/ n = Up([l EXCEPT !.b[p] = b], p, m),
             ~Begins(m), ~Flows(m), ~Confirmation(m),
             b \in {"alloc", "clear"}, l.b[p] \in {"in", "alloc", "act"}
      PROVE  Good
  <2>1. PICK k : k = [l EXCEPT !.b[p] = b]
    OBVIOUS
  <2>2. /\ Formed(k) /\ Elsewhere(l, k, p) /\ k.b[p] = b
        /\ k.up = l.up /\ k.d = l.d /\ k.data = l.data
    BY <1>2, <2>1, B3StateSet
  <2>3. k.b[p] \in BStates /\ k.b[p] \notin {"none", "gone"} /\ l.b[p] \notin {"none", "gone"}
    BY <1>7, <2>2 DEF BStates
  <2>4. k.d[p] \in {"out_act", "in_act", "clear"}
    BY <1>3, <2>2, <2>3
  <2>5. k.d[p] \in {"in_acc", "in_act"} => ~HasBegin(l.up[p])
    BY <1>2, <2>3 DEF Course, Fitting
  <2>6. ~Begins(m) /\ ~Flows(m) /\ ~Confirmation(m) /\ (n = k \/ n = Up(k, p, m))
    BY <1>7, <2>1
  <2>7. k.up[p] = l.up[p] /\ k.data[p] = l.data[p] /\ k.d[p] = l.d[p]
    BY <2>2
  <2>8. Lanes(n) /\ Elsewhere(l, n, p) /\ Firm(l, n, p) /\ n.d[p] = k.d[p]
    BY <2>2, <2>3, <2>4, <2>5, <2>6, <2>7, AnswerLanes
  <2>. QED BY <2>7, <2>8 DEF Unanswered
<1>8. PICK none : none = Msg("DISCONNECT_CONF", FALSE, 0)
  OBVIOUS
<1>9. ~Begins(none) /\ ~Flows(none) /\ ~Confirmation(none)
  BY <1>8, NeutralConfs
<1>10. CASE cmd \in {"CONNECT_RESP", "CONNECT_REJECT"}
  <2>1. n = l \/ \E e : /\ n = [l EXCEPT !.d[p] = e]
                        /\ e = "clear" \/ (e = "in_acc" /\ l.d[p] = "in" /\ cmd = "CONNECT_RESP")
    BY <1>10 DEF Take
  <2>. QED BY <1>4, <1>5, <1>9, <2>1
<1>11. CASE cmd = "ALERT_REQ"
  BY <1>4, <1>11 DEF Take
<1>12. CASE cmd = "DISCONNECT_REQ"
  <2>1. PICK m : /\ m = Msg("DISCONNECT_CONF", TRUE, 0) \/ m = Msg("DISCONNECT_CONF", FALSE, 0)
                 /\ n = Up([l EXCEPT !.d[p] = "clear"], p, m) \/ n = Up(l, p, m)
    BY <1>12 DEF Take, Conf
  <2>2. ~Begins(m) /\ ~Flows(m) /\ ~Confirmation(m)
    BY <2>1, NeutralConfs
  <2>. QED BY <1>5, <1>6, <2>1, <2>2
<1>13. CASE cmd \in {"CONNECT_B3_RESP", "CONNECT_B3_REJECT"}
  <2>1. n = l \/ \E b : /\ n = [l EXCEPT !.b[p] = b]
                        /\ b \in {"alloc", "clear"} /\ l.b[p] \in {"in", "alloc", "act"}
    BY <1>13 DEF Take
  <2>. QED BY <1>4, <1>7, <1>9, <2>1
<1>14. CASE cmd = "DISCONNECT_B3_REQ"
  <2>1. PICK m : /\ m = Msg("DISCONNECT_B3_CONF", TRUE, 0) \/ m = Msg("DISCONNECT_B3_CONF", FALSE, 0)
                 /\ \/ n = Up([l EXCEPT !.b[p] = "clear"], p, m) /\ l.b[p] \in {"in", "alloc", "act"}
                    \/ n = Up(l, p, m)
    BY <1>0, <1>14 DEF Take, Conf
  <2>2. ~Begins(m) /\ ~Flows(m) /\ ~Confirmation(m)
    BY <2>1, NeutralConfs
  <2>. QED BY <1>6, <1>7, <2>1, <2>2
<1>15. CASE cmd = "CONNECT_B3_REQ"
  <2>1. PICK m : \/ m = Msg("CONNECT_B3_CONF", FALSE, 0) /\ n = Up(l, p, m)
                 \/ /\ m = Msg("CONNECT_B3_CONF", TRUE, 0) /\ n = Up([l EXCEPT !.b[p] = "alloc"], p, m)
                    /\ l.d[p] = "out_act" /\ l.b[p] = "none"
    BY <1>15 DEF Take, Conf
  <2>2. CASE n = Up(l, p, m) /\ m = Msg("CONNECT_B3_CONF", FALSE, 0)
    <3>1. ~Begins(m) /\ ~Flows(m) /\ ~Confirmation(m)
      BY <2>2, NeutralConfs
    <3>. QED BY <1>6, <2>2, <3>1
  <2>3. CASE /\ m = Msg("CONNECT_B3_CONF", TRUE, 0) /\ n = Up([l EXCEPT !.b[p] = "alloc"], p, m)
             /\ l.d[p] = "out_act" /\ l.b[p] = "none"
    <3>1. Opens(m) /\ ~Begins(m) /\ ~Confirmation(m) /\ ~Closes(m)
      BY <2>3, NeutralConfs
    <3>2. PICK z, k : z = "alloc" /\ k = [l EXCEPT !.b[p] = z]
      OBVIOUS
    <3>3. /\ Formed(k) /\ Elsewhere(l, k, p) /\ k.b[p] = z
          /\ k.up = l.up /\ k.d = l.d /\ k.data = l.data
      BY <1>2, <3>2, B3StateSet
    <3>7. n = Up(k, p, m)
      BY <2>3, <3>2
    <3>4. /\ Formed(n) /\ Elsewhere(k, n, p) /\ n.up[p] = Append(k.up[p], m)
          /\ n.d = k.d /\ n.b = k.b /\ n.data = k.data
      BY <3>3, <3>7, MessageSet
    <3>5. Elsewhere(l, n, p)
      BY <3>3, <3>4, ElsewhereTwice
    <3>6. Lanes(n)
      BY <1>15, <2>3, <3>1, <3>2, <3>3, <3>4, <3>5, LanesOpen
    <3>. QED BY <1>15, <3>3, <3>4, <3>5, <3>6 DEF Unanswered
  <2>. QED BY <2>1, <2>2, <2>3
<1>16. CASE cmd = "DISCONNECT_B3_RESP"
  <2>1. CASE n # l
    <3>1. PICK z, e, k : z = "none" /\ e = <<>> /\ k = [l EXCEPT !.b[p] = z]
      OBVIOUS
    <3>2. n = [k EXCEPT !.data[p] = e]
      BY <1>16, <2>1, <3>1 DEF Take
    <3>8. /\ Formed(k) /\ Elsewhere(l, k, p) /\ k.b[p] = z
          /\ k.up = l.up /\ k.d = l.d /\ k.data = l.data
      BY <1>2, <3>1 DEF Formed, IsLine, Elsewhere
    <3>9. /\ Formed(n) /\ Elsewhere(k, n, p) /\ n.data[p] = e
          /\ n.up = k.up /\ n.d = k.d /\ n.b = k.b
      BY <3>2, <3>8 DEF Formed, IsLine, Elsewhere
    <3>3. k.b[p] = "none"
      BY <3>1, <3>8
    <3>4. n.data[p] = <<>>
      BY <3>1, <3>9
    <3>5. Elsewhere(l, n, p)
      BY <3>8, <3>9, ElsewhereTwice
    <3>6. n.d[p] = "idle" => ~HasBegin(l.up[p])
      <4>1. l.d[p] = "idle" => l.b[p] = "none"
        BY <1>2 DEF Course, Fitting
      <4>2. l.b[p] = "gone"
        BY <1>16, <2>1 DEF Take
      <4>. QED BY <3>8, <3>9, <4>1, <4>2
    <3>7. Lanes(n)
      BY <1>16, <3>3, <3>4, <3>5, <3>6, <3>8, <3>9, LanesReset
    <3>. QED BY <1>16, <3>5, <3>7, <3>8, <3>9 DEF Unanswered
  <2>. QED BY <1>4, <2>1
<1>. QED BY <1>10, <1>11, <1>12, <1>13, <1>14, <1>15, <1>16 DEF Requests

(* No CONNECT_B3_IND comes in from l to n.                                 *)
NoRing(l, n) ==
  \A y \in Plci \cup {0} : Has(n.up[y], "CONNECT_B3_IND") => Has(l.up[y], "CONNECT_B3_IND")
Sent(l, n) ==
  /\ IsLine(n)
  /\ n.up = l.up \/ \E y, m : /\ m.cmd # "CONNECT_B3_IND"
                              /\ n.up = [l.up EXCEPT ![y] = Append(l.up[y], m)]

LEMMA SentNoRing ==
  ASSUME NEW l, l.up = [y \in Plci \cup {0} |-> l.up[y]], \A y \in Plci \cup {0} : IsSeq(l.up[y]),
         NEW n, Sent(l, n)
  PROVE  NoRing(l, n)
<1>. SUFFICES ASSUME NEW y \in Plci \cup {0}, Has(n.up[y], "CONNECT_B3_IND")
              PROVE  Has(l.up[y], "CONNECT_B3_IND")
  BY DEF NoRing
<1>1. CASE n.up = l.up
  BY <1>1
<1>2. ASSUME NEW q, NEW m, m.cmd # "CONNECT_B3_IND",
             n.up = [l.up EXCEPT ![q] = Append(l.up[q], m)]
      PROVE  Has(l.up[y], "CONNECT_B3_IND")
  <2>1. CASE q = y
    <3>1. n.up[y] = Append(l.up[y], m)
      BY <1>2, <2>1
    <3>2. Longer(l.up[y], m, n.up[y])
      BY <3>1, QueueAppend
    <3>. QED BY <1>2, <3>2, HasAppend
  <2>2. CASE q # y
    BY <1>2, <2>2
  <2>. QED BY <2>1, <2>2
<1>. QED BY <1>1, <1>2 DEF Sent

LEMMA ConfSends ==
  ASSUME NEW l, NEW k, IsLine(k), k.up = l.up, NEW cmd, cmd # "CONNECT_B3_IND", NEW q, NEW ok, NEW id,
         NEW n, n = Conf(k, q, cmd, ok, id)
  PROVE  Sent(l, n)
  BY DEF Conf, Up, Msg, IsLine, Sent

LEMMA TakeSends ==
  ASSUME NEW l, IsLine(l), NEW cmd, NEW p, NEW id, NEW n \in Take(l, cmd, p, id)
  PROVE  Sent(l, n)
<1>. DEFINE C(k) == \E q, a, ok, i : a # "CONNECT_B3_IND" /\ n = Conf(k, q, a, ok, i)
<1>1. ASSUME NEW k, IsLine(k), k.up = l.up, C(k) PROVE Sent(l, n)
  BY <1>1, ConfSends
<1>2. C(l) => Sent(l, n)
  BY <1>1
<1>3. CASE cmd = "LISTEN_REQ"
  <2>1. PICK k : k = [l EXCEPT !.listening = TRUE]
    OBVIOUS
  <2>2. IsLine(k) /\ k.up = l.up
    BY <2>1 DEF IsLine
  <2>3. C(k) \/ C(l)
    BY <1>3, <2>1 DEF Take
  <2>. QED BY <1>1, <1>2, <2>2, <2>3
<1>4. CASE cmd = "CONNECT_REQ"
  <2>1. C(l) \/ \E q \in Plci : C([l EXCEPT !.d[q] = "out"])
    BY <1>4 DEF Take
  <2>2. ASSUME NEW q \in Plci, C([l EXCEPT !.d[q] = "out"]) PROVE Sent(l, n)
    <3>1. PICK k : k = [l EXCEPT !.d[q] = "out"]
      OBVIOUS
    <3>2. IsLine(k) /\ k.up = l.up
      BY <3>1 DEF IsLine
    <3>. QED BY <1>1, <2>2, <3>1, <3>2
  <2>. QED BY <1>2, <2>1, <2>2
<1>5. CASE cmd = "DISCONNECT_REQ"
  <2>1. PICK k : k = [l EXCEPT !.d[p] = "clear"]
    OBVIOUS
  <2>2. IsLine(k) /\ k.up = l.up
    BY <2>1 DEF IsLine
  <2>3. C(k) \/ C(l)
    BY <1>5, <2>1 DEF Take
  <2>. QED BY <1>1, <1>2, <2>2, <2>3
<1>6. CASE cmd = "CONNECT_B3_REQ"
  <2>1. PICK k : k = [l EXCEPT !.b[p] = "alloc"]
    OBVIOUS
  <2>2. IsLine(k) /\ k.up = l.up
    BY <2>1 DEF IsLine
  <2>3. C(k) \/ C(l)
    BY <1>6, <2>1 DEF Take
  <2>. QED BY <1>1, <1>2, <2>2, <2>3
<1>7. CASE cmd = "DISCONNECT_B3_REQ"
  <2>1. PICK k : k = [l EXCEPT !.b[p] = "clear"]
    OBVIOUS
  <2>2. IsLine(k) /\ k.up = l.up
    BY <2>1 DEF IsLine
  <2>3. C(k) \/ C(l) \/ n = l
    BY <1>7, <2>1 DEF Take
  <2>4. n = l => Sent(l, n)
    BY DEF Sent
  <2>. QED BY <1>1, <1>2, <2>2, <2>3, <2>4
<1>8. CASE cmd \notin {"LISTEN_REQ", "CONNECT_REQ", "DISCONNECT_REQ", "CONNECT_B3_REQ", "DISCONNECT_B3_REQ"}
  <2>1. n.up = l.up /\ IsLine(n)
    BY <1>8 DEF Take, IsLine
  <2>. QED BY <2>1 DEF Sent
<1>. QED BY <1>3, <1>4, <1>5, <1>6, <1>7, <1>8

(* A request is sent: the device takes it, or it is lost.                  *)
Lost(l, n) == IsLine(n) /\ n.d = l.d /\ n.b = l.b /\ n.data = l.data /\ n.up = l.up
LEMMA SendSplit ==
  ASSUME NEW s, Shape(s), NEW cmd, NEW p, NEW id, NEW u \in send_message(s, cmd, p, id)
  PROVE  /\ u.k = s.k /\ u = [k |-> u.k, l |-> u.l]
         /\ Lost(s.l, u.l) \/ (pc = "up" /\ u.l \in Take(s.l, cmd, p, id))
         /\ Sent(s.l, u.l) /\ (pc # "up" => u.l.up = s.l.up)
<1>1. PICK n \in Accepted(s.l, cmd, p, id) \cup Refused(s.l) : u = [s EXCEPT !.l = n]
  BY DEF send_message
<1>2. u.k = s.k /\ u.l = n /\ u = [k |-> u.k, l |-> u.l]
  BY <1>1 DEF Shape
<1>3. CASE n \in Refused(s.l)
  <2>1. Lost(s.l, n)
    BY <1>3 DEF Refused, Lost, Shape, IsLine
  <2>. QED BY <1>2, <2>1 DEF Lost, Sent
<1>4. CASE n \in Accepted(s.l, cmd, p, id)
  <2>1. pc = "up" /\ n \in Take(s.l, cmd, p, id)
    BY <1>4 DEF Accepted
  <2>. QED BY <1>2, <2>1, TakeSends DEF Shape
<1>. QED BY <1>1, <1>3, <1>4

LEMMA LostLanes ==
  ASSUME NEW l, Lanes(l), NEW n, Lost(l, n), NEW p
  PROVE  Lanes(n) /\ Elsewhere(l, n, p) /\ Steady(l, n, p)
  BY LanesSame DEF Lost

LEMMA SendLanes ==
  ASSUME NEW s, Shape(s), Lanes(s.l), NEW p \in Plci, NEW id, NEW cmd \in Requests,
         NEW u \in send_message(s, cmd, p, id),
         cmd \in {"CONNECT_RESP", "CONNECT_B3_REQ"} => ~HasBegin(s.l.up[p]),
         cmd = "CONNECT_B3_REQ" /\ s.l.d[p] = "out_act" => ~HasEnd(s.l.up[p]),
         cmd = "DISCONNECT_B3_RESP" => ~HasFlow(s.l.up[p])
  PROVE  /\ Lanes(u.l) /\ Elsewhere(s.l, u.l, p)
         /\ cmd # "CONNECT_RESP" => Unanswered(s.l, u.l, p)
         /\ cmd \notin {"CONNECT_B3_REQ", "DISCONNECT_B3_RESP"} => Firm(s.l, u.l, p)
<1>1. CASE Lost(s.l, u.l)
  BY <1>1, LostLanes DEF Steady
<1>2. CASE u.l \in Take(s.l, cmd, p, id)
  BY <1>2, RequestLanes
<1>. QED BY <1>1, <1>2, SendSplit

(* DISCONNECT_RESP.                                                        *)
LEMMA SendResetLanes ==
  ASSUME NEW s, Shape(s), Lanes(s.l), NEW p \in Plci, NEW u \in send_message(s, "DISCONNECT_RESP", p, 0),
         ~HasFlow(s.l.up[p]), ~HasBegin(s.l.up[p])
  PROVE  Lanes(u.l) /\ Elsewhere(s.l, u.l, p)
<1>1. CASE Lost(s.l, u.l)
  BY <1>1, LostLanes
<1>9. CASE u.l = s.l
  BY <1>9 DEF Elsewhere
<1>2. CASE u.l \in Take(s.l, "DISCONNECT_RESP", p, 0) /\ u.l # s.l
  <2>1. u.l = [s.l EXCEPT !.d[p] = "idle", !.b[p] = "none", !.data[p] = <<>>]
    BY <1>2 DEF Take
  <2>2. Formed(s.l)
    BY DEF Lanes
  <2>3. /\ Formed(u.l) /\ Elsewhere(s.l, u.l, p) /\ u.l.d[p] = "idle" /\ u.l.b[p] = "none"
        /\ u.l.data[p] = <<>> /\ u.l.up[p] = s.l.up[p]
    <3>1. /\ IsLine(u.l) /\ u.l.up = s.l.up /\ u.l.d = [s.l.d EXCEPT ![p] = "idle"]
          /\ u.l.b = [s.l.b EXCEPT ![p] = "none"] /\ u.l.data = [s.l.data EXCEPT ![p] = <<>>]
      BY <2>1, <2>2 DEF Formed, IsLine
    <3>. QED BY <2>2, <3>1 DEF Formed, Elsewhere
  <2>4. Lanes(u.l)
    BY <2>3, LanesReset
  <2>. QED BY <2>3, <2>4
<1>. QED BY <1>1, <1>2, <1>9, SendSplit

(* Messages of queue 0.                                                    *)
LEMMA LanesZero ==
  ASSUME NEW l, Lanes(l), NEW n, Formed(n), Elsewhere(l, n, 0)
  PROVE  Lanes(n)
<1>1. ASSUME NEW y \in Plci PROVE Course(n.up[y], n.d[y], n.b[y], n.data[y])
  <2>1. Course(l.up[y], l.d[y], l.b[y], l.data[y])
    BY DEF Lanes
  <2>2. n.up[y] = l.up[y] /\ n.d[y] = l.d[y] /\ n.b[y] = l.b[y] /\ n.data[y] = l.data[y]
    BY DrvAssumption DEF Elsewhere
  <2>. QED BY <2>1, <2>2
<1>. QED BY <1>1 DEF Lanes

LEMMA ZeroConf ==
  ASSUME NEW l, Formed(l), NEW cmd, NEW ok, NEW id, NEW n, n = Conf(l, 0, cmd, ok, id)
  PROVE  Formed(n) /\ Elsewhere(l, n, 0)
<1>1. PICK m : m = Msg(cmd, ok, id)
  OBVIOUS
<1>2. n = Up(l, 0, m)
  BY <1>1 DEF Conf
<1>. QED BY <1>2, MessageSet

LEMMA SendZeroLanes ==
  ASSUME NEW s, Shape(s), Lanes(s.l), NEW cmd, NEW p,
         cmd = "LISTEN_REQ" \/ (cmd = "DISCONNECT_B3_REQ" /\ p = 0),
         NEW u \in send_message(s, cmd, p, 0)
  PROVE  Lanes(u.l) /\ Elsewhere(s.l, u.l, 0)
<1>1. CASE Lost(s.l, u.l)
  BY <1>1, LostLanes
<1>9. CASE u.l = s.l
  BY <1>9 DEF Elsewhere
<1>2. Formed(s.l)
  BY DEF Lanes
<1>3. CASE u.l \in Take(s.l, cmd, p, 0) /\ u.l # s.l
  <2>1. PICK k : k = [s.l EXCEPT !.listening = TRUE]
    OBVIOUS
  <2>2. Formed(k) /\ Elsewhere(s.l, k, 0)
    BY <1>2, <2>1 DEF Formed, IsLine, Elsewhere
  <2>3. \/ u.l = Conf(k, 0, "LISTEN_CONF", TRUE, 0)
        \/ u.l = Conf(s.l, 0, "LISTEN_CONF", FALSE, 0)
    BY <1>3, <2>1 DEF Take
  <2>4. Formed(u.l) /\ (Elsewhere(k, u.l, 0) \/ Elsewhere(s.l, u.l, 0))
    BY <1>2, <2>2, <2>3, ZeroConf
  <2>5. Elsewhere(s.l, u.l, 0)
    BY <2>2, <2>4, ElsewhereTwice
  <2>. QED BY <2>4, <2>5, LanesZero
<1>. QED BY <1>1, <1>3, <1>9, SendSplit

(* CONNECT_REQ: a connection that is not in use gets a call.               *)
LEMMA SendConnectLanes ==
  ASSUME NEW s, Shape(s), Lanes(s.l), NEW id, NEW u \in send_message(s, "CONNECT_REQ", 0, id)
  PROVE  /\ Lanes(u.l)
         /\ \E q \in Plci \cup {0} : Elsewhere(s.l, u.l, q) /\ (q # 0 => s.l.d[q] = "idle")
<1>. DEFINE Good == /\ Lanes(u.l)
                    /\ \E q \in Plci \cup {0} : Elsewhere(s.l, u.l, q) /\ (q # 0 => s.l.d[q] = "idle")
<1>1. CASE Lost(s.l, u.l)
  BY <1>1, LostLanes
<1>2. Formed(s.l)
  BY DEF Lanes
<1>3. CASE u.l = Conf(s.l, 0, "CONNECT_CONF", FALSE, id)
  BY <1>2, <1>3, ZeroConf, LanesZero
<1>4. ASSUME NEW q \in Plci, s.l.d[q] = "idle",
             u.l = Conf([s.l EXCEPT !.d[q] = "out"], q, "CONNECT_CONF", TRUE, id)
      PROVE  Good
  <2>1. PICK z, k, m : /\ z = "out" /\ k = [s.l EXCEPT !.d[q] = z]
                       /\ m = Msg("CONNECT_CONF", TRUE, id) /\ u.l = Up(k, q, m)
    BY <1>4 DEF Conf
  <2>2. /\ Formed(k) /\ Elsewhere(s.l, k, q) /\ k.d[q] = z
        /\ k.up = s.l.up /\ k.b = s.l.b /\ k.data = s.l.data
    BY <1>2, <2>1, StateSet
  <2>3. /\ Formed(u.l) /\ Elsewhere(k, u.l, q) /\ u.l.up[q] = Append(k.up[q], m)
        /\ u.l.d = k.d /\ u.l.b = k.b /\ u.l.data = k.data
    <3>1. q \in Plci \cup {0} /\ Formed(k) /\ u.l = Up(k, q, m)
      BY <2>1, <2>2
    <3>. QED BY <3>1, MessageSet
  <2>4. Elsewhere(s.l, u.l, q)
    BY <2>2, <2>3, ElsewhereTwice
  <2>5. Course(s.l.up[q], s.l.d[q], s.l.b[q], s.l.data[q])
    BY DEF Lanes
  <2>6. /\ IsSeq(s.l.up[q]) /\ s.l.b[q] = "none" /\ s.l.data[q] = <<>> /\ ~HasFlow(s.l.up[q])
        /\ IsSeq(s.l.data[q])
    <3>1. s.l.d[q] = "idle"
      BY <1>4
    <3>. QED BY <2>5, <3>1 DEF Course, Fitting
  <2>7. ~Flows(m) /\ ~Opens(m) /\ ~Confirmation(m) /\ ~Closes(m)
    BY <2>1 DEF Msg, Flows, Opens, Closes, Confirmation
  <2>8. Longer(s.l.up[q], m, u.l.up[q])
    BY <2>2, <2>3, <2>6, QueueAppend
  <2>9. ~HasFlow(u.l.up[q]) /\ ~HasOpen(u.l.up[q]) /\ ~HasClose(u.l.up[q])
    <3>1. ~HasOpen(s.l.up[q]) /\ ~HasClose(s.l.up[q])
      BY <2>6 DEF HasFlow, HasOpen, HasClose, Flows
    <3>. QED BY <2>6, <2>7, <2>8, <3>1, FlowsAppend
  <2>10. Fitting(u.l.up[q], u.l.d[q], u.l.b[q], u.l.data[q])
    BY <2>1, <2>2, <2>3, <2>6, <2>9 DEF Fitting, BStates
  <2>11. IsSeq(u.l.data[q]) /\ u.l.up[q] = Append(s.l.up[q], m)
    BY <2>2, <2>3, <2>6
  <2>12. Course(u.l.up[q], u.l.d[q], u.l.b[q], u.l.data[q])
    BY <2>5, <2>7, <2>10, <2>11, CourseAppend
  <2>. QED BY <1>4, <2>3, <2>4, <2>12, LanesSet
<1>5. u.l \in Take(s.l, "CONNECT_REQ", 0, id) =>
        \/ u.l = Conf(s.l, 0, "CONNECT_CONF", FALSE, id)
        \/ \E q \in Plci : /\ s.l.d[q] = "idle"
                           /\ u.l = Conf([s.l EXCEPT !.d[q] = "out"], q, "CONNECT_CONF", TRUE, id)
  BY DEF Take
<1>. QED BY <1>1, <1>3, <1>4, <1>5, SendSplit

-------------------------------------------------------------------------------
(* The blocks of data: handles, the ackqueue and the window.               *)

(* Without takes the first entry off a list that has it once.              *)
LEMMA WithoutFirst ==
  ASSUME NEW S, NEW A \in Seq(S), Len(A) > 0, Distinct(A), NEW M, M = Without(A, {A[1]})
  PROVE  M \in Seq(S) /\ Len(M) = Len(A) - 1 /\ \A i \in 1 .. Len(M) : M[i] = A[i + 1]
<1>1. M \in Seq(S) /\ Len(M) \in Nat /\ Len(A) \in Nat /\ ToSet(M) = ToSet(A) \ {A[1]}
  BY WithoutEntries
<1>12. \E place \in [1 .. Len(M) -> 1 .. Len(A)] :
         /\ \A j \in 1 .. Len(M) : M[j] = A[place[j]]
         /\ \A j, k \in 1 .. Len(M) : j <= k => place[j] + (k - j) <= place[k]
  <2> DEFINE N == Without(A, {A[1]})
  <2>1. \E place \in [1 .. Len(N) -> 1 .. Len(A)] :
          /\ \A j \in 1 .. Len(N) : N[j] = A[place[j]]
          /\ \A j, k \in 1 .. Len(N) : j <= k => place[j] + (k - j) <= place[k]
    BY WithoutEntries
  <2>2. M = N
    OBVIOUS
  <2>. HIDE DEF N
  <2>. QED BY <2>1, <2>2
<1>2. PICK place : /\ place \in [1 .. Len(M) -> 1 .. Len(A)]
                   /\ \A j \in 1 .. Len(M) : M[j] = A[place[j]]
                   /\ \A j, k \in 1 .. Len(M) : j <= k => place[j] + (k - j) <= place[k]
  BY <1>12
<1>3. \A s \in Seq(S) : \A y : y \in ToSet(s) <=> \E i \in 1 .. Len(s) : s[i] = y
  BY DEF ToSet
<1>4. ASSUME NEW j \in 1 .. Len(M) PROVE place[j] \in 2 .. Len(A) /\ place[j] >= j + 1
  <2>1. ASSUME NEW i \in 1 .. Len(M) PROVE place[i] \in 2 .. Len(A)
    <3>1. M[i] # A[1]
      BY <1>1, <1>3
    <3>2. place[i] \in 1 .. Len(A) /\ place[i] # 1
      BY <1>2, <3>1
    <3>. QED BY <1>1, <3>2
  <2>2. 1 \in 1 .. Len(M) /\ 1 <= j
    BY <1>1
  <2>3. place[1] + (j - 1) <= place[j]
    BY <1>2, <2>2
  <2>4. place[1] \in 2 .. Len(A) /\ place[j] \in 2 .. Len(A)
    BY <2>1, <2>2
  <2>. QED BY <1>1, <2>3, <2>4
<1>5. ASSUME NEW k \in 2 .. Len(A) PROVE \E j \in 1 .. Len(M) : place[j] = k
  <2>1. k \in 1 .. Len(A) /\ 1 \in 1 .. Len(A) /\ k # 1
    BY <1>1
  <2>2. A[k] # A[1]
    BY <2>1 DEF Distinct
  <2>3. PICK j \in 1 .. Len(M) : M[j] = A[k]
    BY <1>1, <1>3, <2>1, <2>2
  <2>4. place[j] \in 1 .. Len(A) /\ A[place[j]] = A[k]
    BY <1>2, <2>3
  <2>. QED BY <2>1, <2>4 DEF Distinct
<1>6. PICK n \in Nat : n = Len(A) - 1
  BY <1>1
<1>. DEFINE P == {i \in 0 .. n : i = 0 \/ (i \in 1 .. Len(M) /\ place[i] = i + 1)}
<1>7. ASSUME NEW i \in 0 .. n - 1, i \in P PROVE i + 1 \in P
  <2>1. i + 2 \in 2 .. Len(A)
    BY <1>1, <1>6, <1>7
  <2>2. PICK j \in 1 .. Len(M) : place[j] = i + 2
    BY <1>5, <2>1
  <2>3. j > i
    <3>1. CASE i = 0
      BY <3>1
    <3>2. CASE i # 0
      <4>1. i \in 1 .. Len(M) /\ place[i] = i + 1
        BY <1>7, <3>2
      <4>2. j <= i => place[j] + (i - j) <= place[i]
        BY <1>2, <4>1
      <4>. QED BY <1>1, <2>2, <4>1, <4>2
    <3>. QED BY <3>1, <3>2
  <2>4. i + 1 \in 1 .. Len(M) /\ i + 1 <= j
    BY <1>1, <2>3
  <2>5. place[i + 1] + (j - (i + 1)) <= place[j]
    BY <1>2, <2>4
  <2>6. place[i + 1] \in 2 .. Len(A) /\ place[i + 1] >= (i + 1) + 1
    BY <1>4, <2>4
  <2>7. place[i + 1] = (i + 1) + 1
    BY <1>1, <2>2, <2>4, <2>5, <2>6
  <2>. QED BY <1>6, <2>4, <2>7
<1>8. \A i \in 0 .. n : i \in P
  <2>1. 0 \in P
    OBVIOUS
  <2>. HIDE DEF P
  <2>. QED BY <1>7, <2>1, UpTo
<1>9. Len(M) <= n
  <2>1. CASE Len(M) = 0
    BY <1>6, <2>1
  <2>2. CASE Len(M) # 0
    <3>1. Len(M) \in 1 .. Len(M)
      BY <1>1, <2>2
    <3>2. place[Len(M)] \in 2 .. Len(A) /\ place[Len(M)] >= Len(M) + 1
      BY <1>4, <3>1
    <3>. QED BY <1>1, <1>6, <3>2
  <2>. QED BY <2>1, <2>2
<1>10. n <= Len(M)
  <2>1. n \in 0 .. n
    OBVIOUS
  <2>2. n = 0 \/ n \in 1 .. Len(M)
    BY <1>8, <2>1
  <2>. QED BY <1>1, <2>2
<1>11. \A i \in 1 .. Len(M) : place[i] = i + 1
  <2>1. ASSUME NEW i \in 1 .. Len(M) PROVE place[i] = i + 1
    <3>1. i \in 0 .. n /\ i # 0
      BY <1>1, <1>9
    <3>. QED BY <1>8, <3>1
  <2>. QED BY <2>1
<1>13. Len(M) = Len(A) - 1
  BY <1>1, <1>6, <1>9, <1>10
<1>14. \A i \in 1 .. Len(M) : M[i] = A[i + 1]
  BY <1>2, <1>11
<1>. QED BY <1>1, <1>13, <1>14

-------------------------------------------------------------------------------
(* How many blocks ago x was the handle of a block, when h is the next.    *)
DataHandles == 0 .. MaxData
Age(h, x) == IF x < h THEN h - x ELSE h - x + MaxData + 1

LEMMA AgeOne ==
  ASSUME NEW h \in DataHandles
  PROVE  /\ \A x \in DataHandles : Age(h, x) \in 1 .. MaxData + 1
         /\ \A x, y \in DataHandles : Age(h, x) = Age(h, y) => x = y
         /\ \A x \in DataHandles : Age(h, x) = MaxData + 1 <=> x = h
  BY DrvAssumption DEF DataHandles, Age

LEMMA AgeNext ==
  ASSUME NEW h \in DataHandles, NEW k, k = (h + 1) % (MaxData + 1)
  PROVE  /\ k \in DataHandles /\ Age(k, h) = 1
         /\ \A x \in DataHandles : x # h => Age(k, x) = Age(h, x) + 1
<1>1. CASE h = MaxData
  <2>1. k = 0
    BY <1>1, DrvAssumption DEF DataHandles
  <2>. QED BY <1>1, <2>1, DrvAssumption DEF DataHandles, Age
<1>2. CASE h # MaxData
  <2>1. k = h + 1 /\ k \in DataHandles
    BY <1>2, DrvAssumption DEF DataHandles
  <2>. QED BY <1>2, <2>1, DrvAssumption DEF DataHandles, Age
<1>. QED BY <1>1, <1>2

(* The handles A that an NCCI keeps, youngest last: those of the blocks D  *)
(* behind those of the confirmations in q.                                 *)
Aged(h, A) == A \in Seq(DataHandles) /\ \A i \in 1 .. Len(A) : Age(h, A[i]) = Len(A) + 1 - i
Confirming(h, n, N, q) ==
  /\ \A i \in Entries(q) : Confirmation(q[i]) =>
       q[i].id \in DataHandles /\ Age(h, q[i].id) \in n + 1 .. N
  /\ \A i, j \in Entries(q) : i < j /\ Confirmation(q[i]) /\ Confirmation(q[j]) =>
       Age(h, q[j].id) < Age(h, q[i].id)
  /\ \A a \in n + 1 .. N : \E i \in Entries(q) : Confirmation(q[i]) /\ Age(h, q[i].id) = a
Ledger(h, A, q, D) ==
  /\ h \in DataHandles /\ Aged(h, A) /\ Aged(h, D) /\ Len(D) <= Len(A) /\ Len(A) <= MaxData
  /\ Confirming(h, Len(D), Len(A), q)

LEMMA AgedTail ==
  ASSUME NEW h, NEW A, Aged(h, A), NEW M, M \in Seq(DataHandles), Len(M) = Len(A) - 1,
         \A i \in 1 .. Len(M) : M[i] = A[i + 1]
  PROVE  Aged(h, M)
<1>1. ASSUME NEW i \in 1 .. Len(M) PROVE Age(h, M[i]) = Len(M) + 1 - i
  <2>1. i + 1 \in 1 .. Len(A) /\ Len(A) \in Nat /\ Len(M) \in Nat /\ i \in Nat
    BY DEF Aged
  <2>2. Age(h, A[i + 1]) = Len(A) + 1 - (i + 1)
    BY <2>1 DEF Aged
  <2>3. Len(A) + 1 - (i + 1) = Len(M) + 1 - i
    <3>1. \A a, b, x \in Nat : b = a - 1 => a + 1 - (x + 1) = b + 1 - x
      OBVIOUS
    <3>. QED BY <2>1, <3>1
  <2>. QED BY <2>2, <2>3
<1>. QED BY <1>1 DEF Aged

LEMMA AgedDistinct ==
  ASSUME NEW h, NEW A, Aged(h, A)
  PROVE  Distinct(A)
<1>1. ASSUME NEW i \in 1 .. Len(A), NEW j \in 1 .. Len(A), A[i] = A[j] PROVE i = j
  <2>1. Len(A) + 1 - i = Len(A) + 1 - j
    BY <1>1 DEF Aged
  <2>. QED BY <2>1 DEF Aged
<1>. QED BY <1>1 DEF Distinct

(* A block is sent with the handle h.                                      *)
LEMMA AgedGrows ==
  ASSUME NEW h \in DataHandles, NEW A, Aged(h, A), Len(A) <= MaxData,
         NEW k, k = (h + 1) % (MaxData + 1), NEW B, B = Append(A, h)
  PROVE  Aged(k, B) /\ Len(B) = Len(A) + 1
<1>1. B \in Seq(DataHandles) /\ Len(B) = Len(A) + 1 /\ Len(A) \in Nat
  BY DEF Aged
<1>2. ASSUME NEW i \in 1 .. Len(B) PROVE Age(k, B[i]) = Len(B) + 1 - i
  <2>1. CASE i = Len(B)
    <3>1. B[i] = h
      BY <1>1, <2>1
    <3>. QED BY <1>1, <2>1, <3>1, AgeNext
  <2>2. CASE i # Len(B)
    <3>1. i \in 1 .. Len(A) /\ B[i] = A[i] /\ A[i] \in DataHandles
      BY <1>1, <2>2 DEF Aged
    <3>2. Age(h, A[i]) = Len(A) + 1 - i
      BY <3>1 DEF Aged
    <3>3. A[i] # h
      <4>1. Age(h, h) = MaxData + 1
        BY AgeOne
      <4>2. Len(A) + 1 - i # MaxData + 1
        BY <1>1, <3>1, DrvAssumption
      <4>. QED BY <3>2, <4>1, <4>2
    <3>4. Age(k, A[i]) = Age(h, A[i]) + 1
      BY <3>1, <3>3, AgeNext
    <3>. QED BY <1>1, <3>1, <3>2, <3>4
  <2>. QED BY <2>1, <2>2
<1>. QED BY <1>1, <1>2 DEF Aged

LEMMA LedgerSends ==
  ASSUME NEW h, NEW A, NEW q, NEW D, Ledger(h, A, q, D), Len(A) < MaxData,
         NEW k, k = (h + 1) % (MaxData + 1)
  PROVE  Ledger(k, Append(A, h), q, Append(D, h))
<1>1. PICK B, E : B = Append(A, h) /\ E = Append(D, h)
  OBVIOUS
<1>2. Len(A) \in Nat /\ Len(D) \in Nat /\ h \in DataHandles
  BY DEF Ledger, Aged
<1>3. Len(D) <= MaxData /\ Len(A) <= MaxData /\ Len(D) <= Len(A)
  BY <1>2, DrvAssumption DEF Ledger
<1>4. k \in DataHandles /\ Aged(k, B) /\ Aged(k, E) /\ Len(B) = Len(A) + 1 /\ Len(E) = Len(D) + 1
  BY <1>1, <1>2, <1>3, AgedGrows, AgeNext DEF Ledger
<1>5. ASSUME NEW i \in Entries(q), Confirmation(q[i])
      PROVE  /\ q[i].id \in DataHandles /\ Age(h, q[i].id) \in Len(D) + 1 .. Len(A)
             /\ Age(k, q[i].id) = Age(h, q[i].id) + 1
  <2>1. q[i].id \in DataHandles /\ Age(h, q[i].id) \in Len(D) + 1 .. Len(A)
    BY <1>5 DEF Ledger, Confirming
  <2>2. Age(h, q[i].id) # MaxData + 1
    BY <1>2, <2>1, DrvAssumption
  <2>3. q[i].id # h
    BY <1>2, <2>2, AgeOne
  <2>. QED BY <1>2, <2>1, <2>3, AgeNext
<1>6. ASSUME NEW i \in Entries(q), Confirmation(q[i])
      PROVE  q[i].id \in DataHandles /\ Age(k, q[i].id) \in Len(E) + 1 .. Len(B)
  BY <1>2, <1>4, <1>5, <1>6
<1>7. ASSUME NEW i \in Entries(q), NEW j \in Entries(q), i < j, Confirmation(q[i]), Confirmation(q[j])
      PROVE  Age(k, q[j].id) < Age(k, q[i].id)
  <2>1. Age(h, q[j].id) < Age(h, q[i].id)
    BY <1>7 DEF Ledger, Confirming
  <2>2. PICK a \in Nat, b \in Nat : a = Age(h, q[i].id) /\ b = Age(h, q[j].id)
    BY <1>2, <1>5, <1>7
  <2>. QED BY <1>5, <1>7, <2>1, <2>2
<1>8. ASSUME NEW a \in Len(E) + 1 .. Len(B)
      PROVE  \E i \in Entries(q) : Confirmation(q[i]) /\ Age(k, q[i].id) = a
  <2>1. a - 1 \in Len(D) + 1 .. Len(A) /\ (a - 1) + 1 = a
    BY <1>2, <1>4
  <2>2. PICK i \in Entries(q) : Confirmation(q[i]) /\ Age(h, q[i].id) = a - 1
    BY <2>1 DEF Ledger, Confirming
  <2>. QED BY <1>5, <2>1, <2>2
<1>9. Confirming(k, Len(E), Len(B), q)
  BY <1>6, <1>7, <1>8 DEF Confirming
<1>10. Len(E) <= Len(B) /\ Len(B) <= MaxData
  BY <1>2, <1>3, <1>4, DrvAssumption
<1>. QED BY <1>1, <1>4, <1>9, <1>10 DEF Ledger

(* DATA_B3_CONF is sent for the oldest block.                              *)
LEMMA LedgerConfirms ==
  ASSUME NEW h, NEW A, NEW q, NEW D, Ledger(h, A, q, D), D # <<>>,
         NEW m, Confirmation(m), m.id = Head(D), NEW r, Longer(q, m, r), NEW E, E = Tail(D)
  PROVE  Ledger(h, A, r, E)
<1>1. Len(D) \in Nat /\ Len(A) \in Nat /\ Len(D) > 0 /\ D \in Seq(DataHandles) /\ h \in DataHandles
  BY DEF Ledger, Aged
<1>2. E \in Seq(DataHandles) /\ Len(E) = Len(D) - 1 /\ \A i \in 1 .. Len(E) : E[i] = D[i + 1]
  BY <1>1
<1>3. Aged(h, E)
  BY <1>2, AgedTail DEF Ledger
<1>4. m.id \in DataHandles /\ Age(h, m.id) = Len(D)
  <2>1. m.id = D[1] /\ 1 \in 1 .. Len(D)
    BY <1>1
  <2>. QED BY <1>1, <2>1 DEF Ledger, Aged
<1>5. Len(D) <= Len(A)
  BY DEF Ledger
<1>6. ASSUME NEW i \in Entries(r), Confirmation(r[i])
      PROVE  r[i].id \in DataHandles /\ Age(h, r[i].id) \in Len(E) + 1 .. Len(A)
  <2>1. CASE i \in Entries(q)
    <3>1. r[i] = q[i]
      BY <2>1 DEF Longer
    <3>2. r[i].id \in DataHandles /\ Age(h, r[i].id) \in Len(D) + 1 .. Len(A)
      BY <1>6, <2>1, <3>1 DEF Ledger, Confirming
    <3>. QED BY <1>1, <1>2, <3>2
  <2>2. CASE i = Len(q) + 1
    <3>1. r[i] = m
      BY <2>2 DEF Longer
    <3>. QED BY <1>1, <1>2, <1>4, <1>5, <3>1
  <2>. QED BY <2>1, <2>2 DEF Longer
<1>7. ASSUME NEW i \in Entries(r), NEW j \in Entries(r), i < j, Confirmation(r[i]), Confirmation(r[j])
      PROVE  Age(h, r[j].id) < Age(h, r[i].id)
  <2>1. i \in Entries(q) /\ r[i] = q[i]
    BY <1>7 DEF Longer, Entries
  <2>2. CASE j \in Entries(q)
    <3>1. r[j] = q[j]
      BY <2>2 DEF Longer
    <3>. QED BY <1>7, <2>1, <2>2, <3>1 DEF Ledger, Confirming
  <2>3. CASE j = Len(q) + 1
    <3>1. r[j] = m
      BY <2>3 DEF Longer
    <3>2. Age(h, q[i].id) \in Len(D) + 1 .. Len(A)
      BY <1>7, <2>1 DEF Ledger, Confirming
    <3>. QED BY <1>1, <1>4, <2>1, <3>1, <3>2
  <2>. QED BY <2>2, <2>3 DEF Longer
<1>8. ASSUME NEW a \in Len(E) + 1 .. Len(A)
      PROVE  \E i \in Entries(r) : Confirmation(r[i]) /\ Age(h, r[i].id) = a
  <2>1. CASE a = Len(D)
    <3>1. Len(q) + 1 \in Entries(r) /\ r[Len(q) + 1] = m
      BY DEF Longer, Entries
    <3>. QED BY <1>4, <2>1, <3>1
  <2>2. CASE a # Len(D)
    <3>1. a \in Len(D) + 1 .. Len(A)
      <4>1. a \in Int /\ Len(D) <= a /\ a <= Len(A)
        BY <1>1, <1>2
      <4>. QED BY <1>1, <2>2, <4>1
    <3>2. PICK i \in Entries(q) : Confirmation(q[i]) /\ Age(h, q[i].id) = a
      BY <3>1 DEF Ledger, Confirming
    <3>. QED BY <3>2 DEF Longer
  <2>. QED BY <2>1, <2>2
<1>9. Confirming(h, Len(E), Len(A), r)
  BY <1>6, <1>7, <1>8 DEF Confirming
<1>. QED BY <1>1, <1>2, <1>3, <1>9 DEF Ledger

(* Messages that confirm nothing come and go.                              *)
LEMMA LedgerGrows ==
  ASSUME NEW h, NEW A, NEW q, NEW D, Ledger(h, A, q, D), NEW m, ~Confirmation(m), NEW r, Longer(q, m, r)
  PROVE  Ledger(h, A, r, D)
<1>1. ASSUME NEW i \in Entries(r), Confirmation(r[i]) PROVE i \in Entries(q) /\ r[i] = q[i]
  BY <1>1 DEF Longer
<1>2. ASSUME NEW i \in Entries(q) PROVE i \in Entries(r) /\ r[i] = q[i]
  BY DEF Longer
<1>3. Confirming(h, Len(D), Len(A), r)
  BY <1>1, <1>2 DEF Ledger, Confirming
<1>. QED BY <1>3 DEF Ledger

LEMMA LedgerPasses ==
  ASSUME NEW h, NEW A, NEW q, NEW D, Ledger(h, A, q, D), NEW m, ~Confirmation(m), NEW r, Shorter(q, m, r)
  PROVE  Ledger(h, A, r, D)
<1>1. ASSUME NEW i \in Entries(r) PROVE i + 1 \in Entries(q) /\ r[i] = q[i + 1]
  BY DEF Shorter
<1>2. ASSUME NEW i \in Entries(q), Confirmation(q[i]) PROVE i - 1 \in Entries(r) /\ r[i - 1] = q[i]
  BY <1>2 DEF Shorter
<1>3. \A i, j \in Entries(r) : i < j => i + 1 < j + 1
  BY DEF Entries, Shorter
<1>4. Confirming(h, Len(D), Len(A), r)
  <2>1. ASSUME NEW i \in Entries(r), Confirmation(r[i])
        PROVE  r[i].id \in DataHandles /\ Age(h, r[i].id) \in Len(D) + 1 .. Len(A)
    BY <1>1, <2>1 DEF Ledger, Confirming
  <2>2. ASSUME NEW i \in Entries(r), NEW j \in Entries(r), i < j, Confirmation(r[i]), Confirmation(r[j])
        PROVE  Age(h, r[j].id) < Age(h, r[i].id)
    BY <1>1, <1>3, <2>2 DEF Ledger, Confirming
  <2>3. ASSUME NEW a \in Len(D) + 1 .. Len(A)
        PROVE  \E i \in Entries(r) : Confirmation(r[i]) /\ Age(h, r[i].id) = a
    <3>1. PICK i \in Entries(q) : Confirmation(q[i]) /\ Age(h, q[i].id) = a
      BY <2>3 DEF Ledger, Confirming
    <3>. QED BY <1>2, <3>1
  <2>. QED BY <2>1, <2>2, <2>3 DEF Confirming
<1>. QED BY <1>4 DEF Ledger

(* DATA_B3_CONF is handled: it is of the oldest handle.                    *)
LEMMA LedgerTaken ==
  ASSUME NEW h, NEW A, NEW q, NEW D, Ledger(h, A, q, D), NEW m, Confirmation(m), NEW r, Shorter(q, m, r),
         NEW B, B = Without(A, {m.id})
  PROVE  Ledger(h, B, r, D)
<1>1. Len(D) \in Nat /\ Len(A) \in Nat /\ A \in Seq(DataHandles) /\ h \in DataHandles
  BY DEF Ledger, Aged
<1>2. 1 \in Entries(q) /\ q[1] = m
  BY DEF Shorter
<1>3. m.id \in DataHandles /\ Age(h, m.id) \in Len(D) + 1 .. Len(A)
  BY <1>2 DEF Ledger, Confirming
<1>4. Age(h, m.id) = Len(A)
  <2>1. Len(A) \in Len(D) + 1 .. Len(A)
    BY <1>1, <1>3
  <2>2. PICK i \in Entries(q) : Confirmation(q[i]) /\ Age(h, q[i].id) = Len(A)
    BY <2>1 DEF Ledger, Confirming
  <2>3. CASE i = 1
    BY <1>2, <2>2, <2>3
  <2>4. CASE i # 1
    <3>1. 1 < i
      BY <2>4 DEF Entries, Shorter
    <3>2. Age(h, q[i].id) < Age(h, m.id)
      BY <1>2, <2>2, <3>1 DEF Ledger, Confirming
    <3>. QED BY <1>1, <1>3, <2>2, <3>2
  <2>. QED BY <2>3, <2>4
<1>5. Len(A) > 0 /\ 1 \in 1 .. Len(A)
  BY <1>1, <1>3
<1>6. m.id = A[1]
  <2>1. A[1] \in DataHandles /\ Age(h, A[1]) = Len(A)
    BY <1>1, <1>5 DEF Ledger, Aged
  <2>. QED BY <1>1, <1>3, <1>4, <2>1, AgeOne
<1>7. B \in Seq(DataHandles) /\ Len(B) = Len(A) - 1 /\ \A i \in 1 .. Len(B) : B[i] = A[i + 1]
  <2>1. Distinct(A)
    BY AgedDistinct DEF Ledger
  <2>. QED BY <1>1, <1>5, <1>6, <2>1, WithoutFirst
<1>8. Aged(h, B)
  BY <1>7, AgedTail DEF Ledger
<1>9. ASSUME NEW i \in Entries(r) PROVE i + 1 \in Entries(q) /\ 1 < i + 1 /\ r[i] = q[i + 1]
  BY DEF Shorter, Entries
<1>10. \A i, j \in Entries(r) : i < j => i + 1 < j + 1
  BY DEF Entries, Shorter
<1>11. ASSUME NEW i \in Entries(r), Confirmation(r[i])
       PROVE  r[i].id \in DataHandles /\ Age(h, r[i].id) \in Len(D) + 1 .. Len(B)
  <2>1. r[i].id \in DataHandles /\ Age(h, r[i].id) \in Len(D) + 1 .. Len(A)
    BY <1>9, <1>11 DEF Ledger, Confirming
  <2>2. Age(h, r[i].id) < Age(h, m.id)
    BY <1>2, <1>9, <1>11 DEF Ledger, Confirming
  <2>. QED BY <1>1, <1>4, <1>7, <2>1, <2>2
<1>12. ASSUME NEW i \in Entries(r), NEW j \in Entries(r), i < j, Confirmation(r[i]), Confirmation(r[j])
       PROVE  Age(h, r[j].id) < Age(h, r[i].id)
  BY <1>9, <1>10, <1>12 DEF Ledger, Confirming
<1>13. ASSUME NEW a \in Len(D) + 1 .. Len(B)
       PROVE  \E i \in Entries(r) : Confirmation(r[i]) /\ Age(h, r[i].id) = a
  <2>1. a \in Len(D) + 1 .. Len(A) /\ a # Len(A)
    BY <1>1, <1>7
  <2>2. PICK i \in Entries(q) : Confirmation(q[i]) /\ Age(h, q[i].id) = a
    BY <2>1 DEF Ledger, Confirming
  <2>3. i # 1
    BY <1>2, <1>4, <2>1, <2>2
  <2>. QED BY <2>2, <2>3 DEF Shorter
<1>14. Confirming(h, Len(D), Len(B), r)
  BY <1>11, <1>12, <1>13 DEF Confirming
<1>15. Len(D) <= Len(B) /\ Len(B) <= MaxData
  BY <1>1, <1>3, <1>7, DrvAssumption DEF Ledger
<1>. QED BY <1>1, <1>8, <1>14, <1>15 DEF Ledger

LEMMA LedgerEmpty ==
  ASSUME NEW q, \A i \in Entries(q) : ~Confirmation(q[i])
  PROVE  Ledger(0, <<>>, q, <<>>)
<1>1. <<>> \in Seq(DataHandles) /\ Len(<<>>) = 0 /\ 0 \in DataHandles /\ 0 <= MaxData
  BY DrvAssumption DEF DataHandles
<1>2. Aged(0, <<>>)
  BY <1>1 DEF Aged
<1>3. Confirming(0, 0, 0, q)
  BY DEF Confirming
<1>. QED BY <1>1, <1>2, <1>3 DEF Ledger

(* The NCCI n of a channel with the PLCI x, of which isdn4linux was told t. *)
Linkable == {"ALLOCATED", "ACTIVE"}
Ready(l, p) ==
  /\ l.b[p] # "none" /\ ~HasOpen(l.up[p])
  /\ l.b[p] = "gone" => HasClose(l.up[p])
Numbered(x, n, l) ==
  /\ n.ncci \in Plci /\ x # Null /\ x.plci = n.ncci /\ n.live = TRUE
  /\ n.state \in Linkable \/ (n.state = "DISCONNECTING" /\ n.oldstate \in Linkable)
  /\ Ready(l, n.ncci)
  /\ Ledger(n.handle, n.acks, l.up[n.ncci], l.data[n.ncci])
Unnumbered(n) ==
  n.ncci = 0 /\ n.state = "OUTGOING" /\ n.acks = <<>> /\ n.handle = 0

Answering == {"connected", "up", "discarded"}
Carries(x, n, l) == n # Null => Unnumbered(n) \/ Numbered(x, n, l)
Connection(x, n, t, l) ==
  /\ Carries(x, n, l)
  /\ t = "up" => n # Null /\ n.ncci # 0
  /\ x # Null /\ x.state = "OUTGOING" => t \in {"dialing", "discarded"}
  /\ \A p \in Plci : x # Null /\ x.plci = p /\ l.d[p] \in {"in_acc", "in_act"} => t \in Answering

LEMMA FirmNumbered ==
  ASSUME NEW l, Lanes(l), NEW x, NEW n, Numbered(x, n, l), NEW k, Firm(l, k, n.ncci)
  PROVE  Numbered(x, n, k)
<1>1. PICK p \in Plci : p = n.ncci
  BY DEF Numbered
<1>2. IsSeq(l.up[p])
  BY DEF Lanes, Course
<1>3. k.data[p] = l.data[p] /\ k.b[p] # "none" /\ (k.b[p] = "gone" => l.b[p] = "gone" \/ HasClose(k.up[p]))
  BY <1>1 DEF Firm, Numbered, Ready
<1>4. CASE k.up[p] = l.up[p]
  BY <1>1, <1>3, <1>4 DEF Numbered, Ready
<1>5. CASE k.up[p] # l.up[p]
  <2>1. PICK m : k.up[p] = Append(l.up[p], m) /\ ~Opens(m) /\ ~Confirmation(m)
    BY <1>1, <1>5 DEF Firm, Extended
  <2>2. Longer(l.up[p], m, k.up[p])
    BY <1>2, <2>1, QueueAppend
  <2>3. ~HasOpen(k.up[p]) /\ (HasClose(l.up[p]) => HasClose(k.up[p]))
    BY <1>1, <2>1, <2>2, FlowsAppend DEF Numbered, Ready
  <2>4. Ledger(n.handle, n.acks, k.up[p], k.data[p])
    BY <1>1, <1>3, <2>1, <2>2, LedgerGrows DEF Numbered
  <2>. QED BY <1>1, <1>3, <2>3, <2>4 DEF Numbered, Ready
<1>. QED BY <1>4, <1>5

LEMMA ElseNumbered ==
  ASSUME NEW l, NEW x, NEW n, Numbered(x, n, l), NEW p, NEW k, Elsewhere(l, k, p), x.plci # p
  PROVE  Numbered(x, n, k)
<1>1. PICK y \in Plci : y = n.ncci /\ y # p /\ y # 0
  BY DrvAssumption DEF Numbered
<1>2. k.up[y] = l.up[y] /\ k.b[y] = l.b[y] /\ k.data[y] = l.data[y]
  BY <1>1 DEF Elsewhere
<1>. QED BY <1>1, <1>2 DEF Numbered, Ready

LEMMA ConnElse ==
  ASSUME NEW l, NEW x, NEW n, NEW t, Connection(x, n, t, l), NEW p, NEW k, Elsewhere(l, k, p),
         x # Null => x.plci # p \/ p = 0
  PROVE  Connection(x, n, t, k)
<1>1. ASSUME n # Null, Numbered(x, n, l) PROVE Numbered(x, n, k)
  <2>1. x # Null /\ x.plci # 0
    BY <1>1, DrvAssumption DEF Numbered
  <2>. QED BY <1>1, <2>1, ElseNumbered
<1>2. ASSUME NEW q \in Plci, x # Null, x.plci = q, k.d[q] \in {"in_acc", "in_act"} PROVE t \in Answering
  <2>1. q # p /\ q # 0
    BY <1>2, DrvAssumption
  <2>2. k.d[q] = l.d[q]
    BY <2>1 DEF Elsewhere
  <2>. QED BY <1>2, <2>2 DEF Connection
<1>. QED BY <1>1, <1>2 DEF Connection, Carries

LEMMA ConnSteady ==
  ASSUME NEW l, Lanes(l), NEW x, NEW n, NEW t, Connection(x, n, t, l),
         NEW p \in Plci, NEW k, Elsewhere(l, k, p), Steady(l, k, p)
  PROVE  Connection(x, n, t, k)
<1>1. CASE x = Null \/ x.plci # p
  BY <1>1, ConnElse
<1>2. CASE x # Null /\ x.plci = p
  <2>1. ASSUME n # Null, Numbered(x, n, l) PROVE Numbered(x, n, k)
    <3>1. n.ncci = p
      BY <1>2, <2>1 DEF Numbered
    <3>. QED BY <2>1, <3>1, FirmNumbered DEF Steady
  <2>2. k.d[p] \in {"in_acc", "in_act"} => t \in Answering
    BY <1>2 DEF Steady, Unanswered, Connection
  <2>. QED BY <1>2, <2>1, <2>2 DEF Connection, Carries
<1>. QED BY <1>1, <1>2

(* The PLCI changes its state.                                             *)
LEMMA ConnState ==
  ASSUME NEW l, NEW x, NEW n, NEW t, Connection(x, n, t, l), x # Null,
         NEW y, y # Null, y.plci = x.plci, y.state = "OUTGOING" => x.state = "OUTGOING"
  PROVE  Connection(y, n, t, l)
<1>1. n # Null /\ Numbered(x, n, l) => Numbered(y, n, l)
  BY DEF Numbered
<1>. QED BY <1>1 DEF Connection, Carries

(* The first message is taken: of a connection that has a number, it       *)
(* neither closes nor confirms anything.                                   *)
Popping(l, k, p, m) ==
  /\ l.up[p] # <<>> /\ m = Head(l.up[p]) /\ Formed(k) /\ Elsewhere(l, k, p)
  /\ k.up[p] = Tail(l.up[p])
  /\ k.d = l.d /\ k.b = l.b /\ k.data = l.data

Leaves(r, m, d, b, D) ==
  /\ Course(r, d, b, D)
  /\ Closes(m) => b = "gone" /\ ~HasFlow(r)
  /\ Finishes(m) => ~HasFlow(r)
  /\ Opens(m) => b # "none" /\ ~HasOpen(r) /\ D = <<>>
                 /\ \A i \in Entries(r) : ~Confirmation(r[i])
  /\ m.cmd = "CONNECT_B3_ACTIVE_IND" => b # "none"

LEMMA CourseLeaves ==
  ASSUME NEW q, NEW d, NEW b, NEW D, Course(q, d, b, D), NEW m, NEW r, Shorter(q, m, r)
  PROVE  Leaves(r, m, d, b, D)
  BY CourseTaken DEF Leaves

LEMMA PopLanes ==
  ASSUME NEW l, Lanes(l), NEW p \in Plci, NEW m, NEW k, Popping(l, k, p, m)
  PROVE  /\ Lanes(k)
         /\ Closes(m) => k.b[p] = "gone" /\ ~HasFlow(k.up[p])
         /\ Finishes(m) => ~HasFlow(k.up[p])
         /\ Opens(m) => /\ Ready(k, p)
                        /\ k.data[p] = <<>> /\ \A i \in Entries(k.up[p]) : ~Confirmation(k.up[p][i])
         /\ m.cmd = "CONNECT_B3_ACTIVE_IND" => k.b[p] # "none"
<1>1. Course(l.up[p], l.d[p], l.b[p], l.data[p])
  BY DEF Lanes
<1>2. PICK q, r, d, b, D : q = l.up[p] /\ r = k.up[p] /\ d = l.d[p] /\ b = l.b[p] /\ D = l.data[p]
  OBVIOUS
<1>0. q # <<>> /\ m = Head(q) /\ r = Tail(q)
  BY <1>2 DEF Popping
<1>3. Course(q, d, b, D)
  BY <1>1, <1>2
<1>8. Shorter(q, m, r)
  BY <1>0, <1>3, QueueTail DEF Course
<1>4. Leaves(r, m, d, b, D)
  BY <1>3, <1>8, CourseLeaves
<1>5. k.d[p] = d /\ k.b[p] = b /\ k.data[p] = D
  BY <1>2 DEF Popping
<1>6. Lanes(k)
  <2>1. k.up[p] = r
    BY <1>2
  <2>2. Course(r, d, b, D)
    BY <1>4 DEF Leaves
  <2>3. Course(k.up[p], k.d[p], k.b[p], k.data[p])
    BY <1>5, <2>1, <2>2
  <2>4. Formed(k) /\ Elsewhere(l, k, p)
    BY DEF Popping
  <2>. QED BY <2>3, <2>4, LanesSet
<1>7. Opens(m) /\ b = "gone" => HasClose(r)
  <2>1. Shorter(q, m, r)
    BY <1>0, <1>3, QueueTail DEF Course
  <2>2. Opens(m) => HasFlow(q) /\ ~Closes(m)
    BY <2>1, FlowsTail DEF Flows, Opens, Closes
  <2>3. Opens(m) /\ b = "gone" => HasClose(q)
    BY <1>3, <2>2 DEF Course, Fitting
  <2>. QED BY <2>1, <2>2, <2>3, FlowsTail
<1>. QED BY <1>2, <1>4, <1>5, <1>6, <1>7 DEF Ready, Leaves

LEMMA PopNumbered ==
  ASSUME NEW l, Lanes(l), NEW p \in Plci, NEW m, NEW k, Popping(l, k, p, m),
         NEW x, NEW n, Numbered(x, n, l), n.ncci = p
  PROVE  /\ ~Opens(m)
         /\ ~Closes(m) => Ready(k, p)
         /\ ~Closes(m) /\ ~Confirmation(m) => Numbered(x, n, k)
         /\ Confirmation(m) => Ledger(n.handle, Without(n.acks, {m.id}), k.up[p], k.data[p])
<1>1. IsSeq(l.up[p])
  BY DEF Lanes, Course
<1>2. Shorter(l.up[p], m, k.up[p])
  BY <1>1, QueueTail DEF Popping
<1>3. ~Opens(m) /\ ~HasOpen(k.up[p]) /\ (HasClose(l.up[p]) <=> HasClose(k.up[p]) \/ Closes(m))
  BY <1>2, FlowsTail DEF Numbered, Ready
<1>4. k.b[p] = l.b[p] /\ k.data[p] = l.data[p]
  BY DEF Popping
<1>5. ~Closes(m) => Ready(k, p)
  BY <1>3, <1>4 DEF Numbered, Ready
<1>6. Ledger(n.handle, n.acks, l.up[p], l.data[p])
  BY DEF Numbered
<1>7. ~Confirmation(m) => Ledger(n.handle, n.acks, k.up[p], k.data[p])
  BY <1>2, <1>4, <1>6, LedgerPasses
<1>8. Confirmation(m) => Ledger(n.handle, Without(n.acks, {m.id}), k.up[p], k.data[p])
  BY <1>2, <1>4, <1>6, LedgerTaken
<1>. QED BY <1>3, <1>5, <1>7, <1>8 DEF Numbered

(* A new B3 connection.                                                    *)
LEMMA NewNumbered ==
  ASSUME NEW l, NEW p \in Plci, Ready(l, p), l.data[p] = <<>>,
         \A i \in Entries(l.up[p]) : ~Confirmation(l.up[p][i]),
         NEW x, x # Null, x.plci = p, NEW n, n.ncci = p, n.live = TRUE, n.state = "ALLOCATED",
         n.handle = 0, n.acks = <<>>
  PROVE  Numbered(x, n, l)
<1>1. Ledger(0, <<>>, l.up[p], <<>>)
  BY LedgerEmpty
<1>. QED BY <1>1 DEF Numbered, Linkable

-------------------------------------------------------------------------------
(* What isdn4linux was told of a channel, and what may follow.             *)

(* The structures of the channels, and what isdn4linux was told of them.   *)
Tolds == {"free", "dialing", "ringing", "rejected", "connected", "up", "discarded"}
Nccis == [ncci : Plci \cup {0}, live : BOOLEAN, state : NcciStates, oldstate : NcciStates,
          handle : 0 .. MaxData, acks : Seq(0 .. MaxData)]
Queues(l) ==
  l.up = [y \in Plci \cup {0} |-> l.up[y]] /\ \A y \in Plci \cup {0} : IsSeq(l.up[y])
Plain(s) ==
  /\ Shape(s) /\ s.k.plcip \in [Chan -> Records \cup {Null}]
  /\ s.k.nccip \in [Chan -> Nccis \cup {Null}] /\ s.k.told \in [Chan -> Tolds]
  /\ Queues(s.l)

(* From s to u only the channel c changes, ... *)
Frame(s, u, c) ==
  /\ Plain(u)
  /\ \A y \in Chan : y # c => /\ u.k.plcip[y] = s.k.plcip[y] /\ u.k.nccip[y] = s.k.nccip[y]
                              /\ u.k.told[y] = s.k.told[y]
                              /\ y \in u.k.incoming <=> y \in s.k.incoming
(* ... which has the PLCI x and the NCCI n, and isdn4linux was told t.     *)
Becomes(s, u, c, x, n, t) ==
  /\ Frame(s, u, c)
  /\ u.k.plcip[c] = x /\ u.k.nccip[c] = n /\ u.k.told[c] = t
  /\ c \in s.k.incoming => c \in u.k.incoming \/ x = Null

Heard(t, what) == IF t = "discarded" THEN t ELSE what

LEMMA FrameTwice ==
  ASSUME NEW s, NEW w, NEW u, NEW c, Frame(s, w, c), Frame(w, u, c)
  PROVE  Frame(s, u, c)
  BY DEF Frame

LEMMA Same ==
  ASSUME NEW s, Plain(s), NEW c \in Chan
  PROVE  \A x, n, t : x = s.k.plcip[c] /\ n = s.k.nccip[c] /\ t = s.k.told[c] => Becomes(s, s, c, x, n, t)
  BY DEF Becomes, Frame

LEMMA NullIsNone ==
  /\ \A x \in Records : x # Null
  /\ \A n \in Nccis : n # Null
  BY DrvAssumption DEF Records, Nccis

(* The structures of the channel, one at a time.                           *)
LEMMA PutPlci ==
  ASSUME NEW s, NEW w, NEW c \in Chan, NEW x, NEW n, NEW t, Becomes(s, w, c, x, n, t), x # Null,
         NEW y \in Records \cup {Null}, NEW u, u = [w EXCEPT !.k.plcip[c] = y]
  PROVE  Becomes(s, u, c, y, n, t) /\ u.l = w.l
<1>1. PICK P : P = [w.k.plcip EXCEPT ![c] = y]
  OBVIOUS
<1>2. u = [w EXCEPT !.k.plcip = P]
  BY <1>1
<1>3. Plain(w)
  BY DEF Becomes, Frame
<1>4. /\ Shape(u) /\ u.l = w.l /\ u.k.plcip = P /\ u.k.nccip = w.k.nccip
      /\ u.k.incoming = w.k.incoming /\ u.k.told = w.k.told
  BY <1>2, <1>3 DEF Plain, Shape, IsCard
<1>5. /\ P \in [Chan -> Records \cup {Null}] /\ P[c] = y
      /\ \A z \in Chan : z # c => P[z] = w.k.plcip[z]
  BY <1>1, <1>3 DEF Plain
<1>6. Plain(u)
  BY <1>3, <1>4, <1>5 DEF Plain
<1>. QED BY <1>4, <1>5, <1>6 DEF Becomes, Frame

LEMMA PutNcci ==
  ASSUME NEW s, NEW w, NEW c \in Chan, NEW x, NEW n, NEW t, Becomes(s, w, c, x, n, t),
         NEW m \in Nccis \cup {Null}, NEW u, u = [w EXCEPT !.k.nccip[c] = m]
  PROVE  Becomes(s, u, c, x, m, t) /\ u.l = w.l
<1>1. PICK N : N = [w.k.nccip EXCEPT ![c] = m]
  OBVIOUS
<1>2. u = [w EXCEPT !.k.nccip = N]
  BY <1>1
<1>3. Plain(w)
  BY DEF Becomes, Frame
<1>4. /\ Shape(u) /\ u.l = w.l /\ u.k.plcip = w.k.plcip /\ u.k.nccip = N
      /\ u.k.incoming = w.k.incoming /\ u.k.told = w.k.told
  BY <1>2, <1>3 DEF Plain, Shape, IsCard
<1>5. /\ N \in [Chan -> Nccis \cup {Null}] /\ N[c] = m
      /\ \A z \in Chan : z # c => N[z] = w.k.nccip[z]
  BY <1>1, <1>3 DEF Plain
<1>6. Plain(u)
  BY <1>3, <1>4, <1>5 DEF Plain
<1>. QED BY <1>4, <1>5, <1>6 DEF Becomes, Frame

LEMMA PutTold ==
  ASSUME NEW s, NEW w, NEW c \in Chan, NEW x, NEW n, NEW t, Becomes(s, w, c, x, n, t),
         NEW what \in Tolds, NEW u, u = Tell(w, c, what)
  PROVE  Becomes(s, u, c, x, n, Heard(t, what)) /\ u.l = w.l
<1>1. PICK T : T = [w.k.told EXCEPT ![c] = IF @ = "discarded" THEN @ ELSE what]
  OBVIOUS
<1>2. u = [w EXCEPT !.k.told = T]
  BY <1>1 DEF Tell
<1>3. Plain(w)
  BY DEF Becomes, Frame
<1>4. /\ Shape(u) /\ u.l = w.l /\ u.k.plcip = w.k.plcip /\ u.k.nccip = w.k.nccip
      /\ u.k.incoming = w.k.incoming /\ u.k.told = T
  BY <1>2, <1>3 DEF Plain, Shape, IsCard
<1>5. /\ T \in [Chan -> Tolds] /\ T[c] = Heard(t, what)
      /\ \A z \in Chan : z # c => T[z] = w.k.told[z]
  BY <1>1, <1>3 DEF Plain, Heard, Becomes
<1>6. Plain(u)
  BY <1>3, <1>4, <1>5 DEF Plain
<1>. QED BY <1>4, <1>5, <1>6 DEF Becomes, Frame

(* Fields that are not of one channel alone.                               *)
LEMMA PutDisconnecting ==
  ASSUME NEW s, NEW w, NEW c, NEW x, NEW n, NEW t, Becomes(s, w, c, x, n, t),
         NEW u, u = Disconnecting(w, c) \/ \E k : u = [w EXCEPT !.k.state = k]
  PROVE  Becomes(s, u, c, x, n, t) /\ u.l = w.l
<1>1. Plain(w)
  BY DEF Becomes, Frame
<1>2. /\ Shape(u) /\ u.l = w.l /\ u.k.plcip = w.k.plcip /\ u.k.nccip = w.k.nccip
      /\ u.k.incoming = w.k.incoming /\ u.k.told = w.k.told
  BY <1>1 DEF Plain, Shape, IsCard, Disconnecting
<1>3. Plain(u)
  BY <1>1, <1>2 DEF Plain
<1>. QED BY <1>2, <1>3 DEF Becomes, Frame

LEMMA PutFree ==
  ASSUME NEW s, NEW w, NEW c \in Chan, NEW x, NEW n, NEW t, Becomes(s, w, c, x, n, t),
         NEW u, u = free_plci(w, c)
  PROVE  Becomes(s, u, c, Null, Orphaned(n), t) /\ u.l = w.l
<1>1. PICK P, N, J : /\ P = [w.k.plcip EXCEPT ![c] = Null]
                     /\ N = [w.k.nccip EXCEPT ![c] = Orphaned(@)] /\ J = w.k.incoming \ {c}
  OBVIOUS
<1>2. Plain(w) /\ Shape(w)
  BY DEF Becomes, Frame, Plain
<1>3. Shape(u) /\ u.l = w.l /\ u.k.plcip = P /\ u.k.incoming = J /\ u.k.told = w.k.told
  <2>1. Freed(w, u, c)
    BY <1>2, FreeEffect
  <2>. QED BY <1>1, <2>1 DEF Freed
<1>4. u.k.nccip = N
  BY <1>1, <1>2 DEF Shape, IsCard, free_plci
<1>5. P \in [Chan -> Records \cup {Null}] /\ P[c] = Null /\ \A y \in Chan : y # c => P[y] = w.k.plcip[y]
  BY <1>1, <1>2 DEF Plain
<1>6. n \in Nccis \cup {Null} /\ w.k.nccip[c] = n
  BY <1>2 DEF Plain, Becomes
<1>7. Orphaned(n) \in Nccis \cup {Null}
  BY <1>6 DEF Orphaned, Nccis
<1>8. /\ N \in [Chan -> Nccis \cup {Null}] /\ N[c] = Orphaned(n)
      /\ \A y \in Chan : y # c => N[y] = w.k.nccip[y]
  BY <1>1, <1>2, <1>6, <1>7 DEF Plain
<1>9. \A y \in Chan : y # c => (y \in J <=> y \in w.k.incoming)
  BY <1>1
<1>10. Plain(u)
  BY <1>2, <1>3, <1>4, <1>5, <1>8 DEF Plain
<1>. QED BY <1>3, <1>4, <1>5, <1>8, <1>9, <1>10 DEF Becomes, Frame

(* A message is sent. *)
LEMMA SentQueues ==
  ASSUME NEW l, Queues(l), NEW n, Sent(l, n)
  PROVE  Queues(n)
<1>1. CASE n.up = l.up
  BY <1>1 DEF Queues
<1>2. CASE n.up # l.up
  <2>1. PICK y, m : n.up = [l.up EXCEPT ![y] = Append(l.up[y], m)]
    BY <1>2 DEF Sent
  <2>2. y \in Plci \cup {0} => IsSeq(Append(l.up[y], m))
    <3>1. y \in Plci \cup {0} => Longer(l.up[y], m, Append(l.up[y], m))
      BY QueueAppend DEF Queues
    <3>. QED BY <3>1 DEF Longer
  <2>. QED BY <2>1, <2>2 DEF Queues
<1>. QED BY <1>1, <1>2

LEMMA PutMessage ==
  ASSUME NEW s, NEW w, NEW c \in Chan, NEW x, NEW n, NEW t, Becomes(s, w, c, x, n, t),
         NEW cmd, NEW p, NEW id, NEW u \in send_message(w, cmd, p, id)
  PROVE  Becomes(s, u, c, x, n, t) /\ NoRing(w.l, u.l) /\ u.k = w.k /\ Plain(u)
<1>1. Plain(w)
  BY DEF Becomes, Frame
<1>2. u.k = w.k /\ u = [k |-> u.k, l |-> u.l] /\ Sent(w.l, u.l)
  BY <1>1, SendSplit DEF Plain
<1>3. IsLine(u.l)
  BY <1>2 DEF Sent
<1>4. Queues(u.l) /\ NoRing(w.l, u.l)
  BY <1>1, <1>2, SentQueues, SentNoRing DEF Plain, Queues
<1>5. Plain(u)
  BY <1>1, <1>2, <1>3, <1>4 DEF Plain, Shape
<1>. QED BY <1>2, <1>4, <1>5 DEF Becomes, Frame

LEMMA Parts ==
  ASSUME NEW s, NEW w, NEW c \in Chan, NEW x, NEW n, NEW t, Becomes(s, w, c, x, n, t)
  PROVE  /\ Plain(w) /\ Shape(w) /\ x \in Records \cup {Null} /\ n \in Nccis \cup {Null} /\ t \in Tolds
         /\ w.k.plcip[c] = x /\ w.k.nccip[c] = n /\ w.k.told[c] = t
         /\ x # Null => x \in Records
         /\ n # Null => n \in Nccis
  BY DEF Becomes, Frame, Plain

(* One field of a structure changes. *)
WithState(w, c, z) == [w EXCEPT !.k.plcip[c].state = z]
LEMMA PutState ==
  ASSUME NEW s, NEW w, NEW c \in Chan, NEW x, NEW n, NEW t, Becomes(s, w, c, x, n, t), x # Null,
         NEW z \in PlciStates, NEW u, u = WithState(w, c, z)
  PROVE  \E y \in Records : Becomes(s, u, c, y, n, t) /\ u.l = w.l /\ y.plci = x.plci /\ y.state = z
<1>1. x \in Records /\ w.k.plcip[c] = x
  BY Parts
<1>2. PICK y : y = [x EXCEPT !.state = z]
  OBVIOUS
<1>3. y \in Records /\ y.plci = x.plci /\ y.state = z
  BY <1>1, <1>2 DEF Records
<1>4. PICK v : v = [w EXCEPT !.k.plcip[c] = y]
  OBVIOUS
<1>5. u = v
  BY <1>1, <1>2, <1>4 DEF WithState
<1>6. Becomes(s, v, c, y, n, t) /\ v.l = w.l
  BY <1>3, <1>4, PutPlci
<1>. QED BY <1>3, <1>5, <1>6

WithAddress(w, c, z) == [w EXCEPT !.k.plcip[c].plci = z]
LEMMA PutAddress ==
  ASSUME NEW s, NEW w, NEW c \in Chan, NEW x, NEW n, NEW t, Becomes(s, w, c, x, n, t), x # Null,
         NEW z \in Plci \cup {0}, NEW u, u = WithAddress(w, c, z)
  PROVE  \E y \in Records : Becomes(s, u, c, y, n, t) /\ u.l = w.l /\ y.plci = z /\ y.state = x.state
<1>1. x \in Records /\ w.k.plcip[c] = x
  BY Parts
<1>2. PICK y : y = [x EXCEPT !.plci = z]
  OBVIOUS
<1>3. y \in Records /\ y.plci = z /\ y.state = x.state
  BY <1>1, <1>2 DEF Records
<1>4. PICK v : v = [w EXCEPT !.k.plcip[c] = y]
  OBVIOUS
<1>5. u = v
  BY <1>1, <1>2, <1>4 DEF WithAddress
<1>6. Becomes(s, v, c, y, n, t) /\ v.l = w.l
  BY <1>3, <1>4, PutPlci
<1>. QED BY <1>3, <1>5, <1>6

WithMsgid(w, c, z) == [w EXCEPT !.k.plcip[c].msgid = z]
LEMMA PutMsgid ==
  ASSUME NEW s, NEW w, NEW c \in Chan, NEW x, NEW n, NEW t, Becomes(s, w, c, x, n, t), x # Null,
         NEW z \in Msgids \cup {0}, NEW u, u = WithMsgid(w, c, z)
  PROVE  \E y \in Records : Becomes(s, u, c, y, n, t) /\ u.l = w.l
                            /\ y.plci = x.plci /\ y.state = x.state
<1>1. x \in Records /\ w.k.plcip[c] = x
  BY Parts
<1>2. PICK y : y = [x EXCEPT !.msgid = z]
  OBVIOUS
<1>3. y \in Records /\ y.plci = x.plci /\ y.state = x.state
  BY <1>1, <1>2 DEF Records
<1>4. PICK v : v = [w EXCEPT !.k.plcip[c] = y]
  OBVIOUS
<1>5. u = v
  BY <1>1, <1>2, <1>4 DEF WithMsgid
<1>6. Becomes(s, v, c, y, n, t) /\ v.l = w.l
  BY <1>3, <1>4, PutPlci
<1>. QED BY <1>3, <1>5, <1>6

(* The NCCI takes a state, its number, and a confirmation.                 *)
Enters(n, m, z) ==
  /\ m \in Nccis /\ m.ncci = n.ncci /\ m.live = n.live /\ m.handle = n.handle /\ m.acks = n.acks
  /\ m.state = z /\ m.oldstate = n.state

WithB3State(w, c, z, o) == [w EXCEPT !.k.nccip[c].state = z, !.k.nccip[c].oldstate = o]
LEMMA PutEntered ==
  ASSUME NEW s, NEW w, NEW c \in Chan, NEW x, NEW n, NEW t, Becomes(s, w, c, x, n, t), n # Null,
         NEW z \in NcciStates,
         NEW u, u = WithB3State(w, c, z, n.state)
  PROVE  \E m : Becomes(s, u, c, x, m, t) /\ u.l = w.l /\ Enters(n, m, z)
<1>1. n \in Nccis /\ w.k.nccip[c] = n
  BY Parts
<1>2. PICK o, a, m : o = n.state /\ a = [n EXCEPT !.state = z] /\ m = [a EXCEPT !.oldstate = o]
  OBVIOUS
<1>3. a \in Nccis /\ Enters(n, m, z)
  BY <1>1, <1>2 DEF Nccis, Enters
<1>4. PICK b, v : b = [w EXCEPT !.k.nccip[c].state = z] /\ v = [b EXCEPT !.k.nccip[c].oldstate = o]
  OBVIOUS
<1>5. u = v
  BY <1>2, <1>4 DEF WithB3State
<1>6. Becomes(s, b, c, x, a, t) /\ b.l = w.l
  <2>1. PICK d : d = [w EXCEPT !.k.nccip[c] = a]
    OBVIOUS
  <2>2. b = d
    BY <1>1, <1>2, <1>4, <2>1
  <2>3. Becomes(s, d, c, x, a, t) /\ d.l = w.l
    BY <1>3, <2>1, PutNcci
  <2>. QED BY <2>2, <2>3
<1>7. Becomes(s, v, c, x, m, t) /\ v.l = b.l
  <2>1. PICK d : d = [b EXCEPT !.k.nccip[c] = m]
    OBVIOUS
  <2>2. b.k.nccip[c] = a
    BY <1>6, Parts
  <2>3. v = d
    BY <1>2, <1>4, <2>1, <2>2
  <2>4. Becomes(s, d, c, x, m, t) /\ d.l = b.l
    BY <1>3, <1>6, <2>1, PutNcci DEF Enters
  <2>. QED BY <2>3, <2>4
<1>. QED BY <1>3, <1>5, <1>6, <1>7

NewNcci(p) ==
  [ncci |-> p, live |-> TRUE, state |-> "NONE", oldstate |-> "NONE", handle |-> 0, acks |-> <<>>]

LEMMA PutNew ==
  ASSUME NEW s, NEW w, NEW c \in Chan, NEW x, NEW n, NEW t, Becomes(s, w, c, x, n, t),
         NEW p \in Plci \cup {0}, NEW u, u = new_ncci(w, c, p)
  PROVE  Becomes(s, u, c, x, NewNcci(p), t) /\ u.l = w.l /\ NewNcci(p) # Null
<1>1. PICK m : m = NewNcci(p)
  OBVIOUS
<1>2. m \in Nccis
  <2>1. 0 \in 0 .. MaxData /\ <<>> \in Seq(0 .. MaxData)
    BY DrvAssumption
  <2>. QED BY <1>1, <2>1 DEF NewNcci, Nccis, NcciStates
<1>3. u = [w EXCEPT !.k.nccip[c] = m]
  BY <1>1 DEF new_ncci, NewNcci
<1>4. Becomes(s, u, c, x, m, t) /\ u.l = w.l
  BY <1>2, <1>3, PutNcci
<1>. QED BY <1>1, <1>2, <1>4, NullIsNone

LEMMA PutNone ==
  ASSUME NEW s, NEW w, NEW c \in Chan, NEW x, NEW n, NEW t, Becomes(s, w, c, x, n, t),
         NEW u, u = free_ncci(w, c)
  PROVE  Becomes(s, u, c, x, Null, t) /\ u.l = w.l
<1>1. PICK m : m = Null
  OBVIOUS
<1>2. u = [w EXCEPT !.k.nccip[c] = m]
  BY <1>1 DEF free_ncci
<1>. QED BY <1>1, <1>2, PutNcci

(* A call ends. *)
LEMMA PutEnd ==
  ASSUME NEW s, NEW w, NEW c \in Chan, NEW x, NEW n, NEW t, Becomes(s, w, c, x, n, t),
         NEW u, u = p0(w, c)
  PROVE  Becomes(s, u, c, Null, Orphaned(n), Heard(t, "free")) /\ u.l = w.l
<1>1. PICK v : v = Tell(w, c, "free")
  OBVIOUS
<1>2. Becomes(s, v, c, x, n, Heard(t, "free")) /\ v.l = w.l
  BY <1>1, PutTold DEF Tolds
<1>3. u = free_plci(v, c)
  BY <1>1 DEF p0
<1>. QED BY <1>2, <1>3, PutFree

(* The tables. *)
Row(T, a, e, z) == \E r \in T : r[1] = a /\ r[2] = e /\ r[3] = z
NoRow(T, a, e) == \A r \in T : ~(r[1] = a /\ r[2] = e)

LEMMA PlciRows ==
  ASSUME NEW a, NEW e, NEW z, Row(plcitable, a, e, z)
  PROVE  /\ z \in PlciStates
         /\ z = "NONE" => \/ a = "OUTGOING" /\ e = "CONNECT_CONF_ERROR"
                          \/ a = "DISCONNECTED" /\ e = "DISCONNECT_RESP"
         /\ z = "INCOMING" => e = "CONNECT_IND" /\ a = "NONE"
         /\ z = "OUTGOING" => e = "CONNECT_REQ" /\ a = "NONE"
         /\ e = "CONNECT_CONF_OK" => z = "ALLOCATED"
         /\ e = "CONNECT_CONF_ERROR" => z = "NONE"
         /\ a = "OUTGOING" => e \in {"CONNECT_CONF_OK", "CONNECT_CONF_ERROR"}
  BY DEF Row, plcitable, PlciStates, InCall

LEMMA PlciMoves ==
  /\ ~NoRow(plcitable, "INCOMING", "CONNECT_RESP")
  /\ ~NoRow(plcitable, "INCOMING", "CONNECT_REJECT")
  /\ ~NoRow(plcitable, "OUTGOING", "CONNECT_CONF_OK")
  /\ ~NoRow(plcitable, "OUTGOING", "CONNECT_CONF_ERROR")
  /\ ~NoRow(plcitable, "NONE", "CONNECT_REQ")
  /\ ~NoRow(plcitable, "NONE", "CONNECT_IND")
<1>1. <<"INCOMING", "CONNECT_RESP", "ACCEPTING">> \in plcitable
  BY DEF plcitable
<1>2. <<"INCOMING", "CONNECT_REJECT", "DISCONNECTING">> \in plcitable
  BY DEF plcitable
<1>3. <<"OUTGOING", "CONNECT_CONF_OK", "ALLOCATED">> \in plcitable
  BY DEF plcitable
<1>4. <<"OUTGOING", "CONNECT_CONF_ERROR", "NONE">> \in plcitable
  BY DEF plcitable
<1>5. <<"NONE", "CONNECT_REQ", "OUTGOING">> \in plcitable
  BY DEF plcitable
<1>6. <<"NONE", "CONNECT_IND", "INCOMING">> \in plcitable
  BY DEF plcitable
<1>. QED BY <1>1, <1>2, <1>3, <1>4, <1>5, <1>6 DEF NoRow

LEMMA NcciRows ==
  ASSUME NEW a, NEW e, NEW z, Row(nccitable, a, e, z)
  PROVE  /\ z \in NcciStates \cup {"PREVIOUS"}
         /\ z = "NONE" => \/ a = "OUTGOING" /\ e = "CONNECT_B3_CONF_ERROR"
                          \/ a = "DISCONNECTED" /\ e = "DISCONNECT_B3_RESP"
         /\ z = "PREVIOUS" => a = "DISCONNECTING" /\ e = "DISCONNECT_B3_CONF_ERROR"
         /\ a = "NONE" /\ e = "CONNECT_B3_REQ" => z = "OUTGOING"
         /\ a = "NONE" /\ e = "CONNECT_B3_IND" => z = "INCOMING"
         /\ a = "INCOMING" /\ e = "CONNECT_B3_RESP" => z = "ALLOCATED"
         /\ a = "OUTGOING" /\ e = "CONNECT_B3_CONF_OK" => z = "ALLOCATED"
         /\ e = "CONNECT_B3_CONF_ERROR" => a = "OUTGOING" /\ z = "NONE"
         /\ e = "CONNECT_B3_ACTIVE_IND" => a = "ALLOCATED" /\ z = "ACTIVE"
         /\ e = "DISCONNECT_B3_IND" => z = "DISCONNECTED"
         /\ e = "DISCONNECT_B3_REQ" => a \in Linked /\ z = "DISCONNECTING"
         /\ e = "DISCONNECT_B3_CONF_ERROR" => z = "PREVIOUS"
         /\ e = "DISCONNECT_B3_RESP" => z = "NONE"
  BY DEF Row, nccitable, NcciStates, Linked

LEMMA NcciMoves ==
  /\ ~NoRow(nccitable, "NONE", "CONNECT_B3_REQ")
  /\ ~NoRow(nccitable, "NONE", "CONNECT_B3_IND")
  /\ ~NoRow(nccitable, "INCOMING", "CONNECT_B3_RESP")
  /\ ~NoRow(nccitable, "OUTGOING", "CONNECT_B3_CONF_OK")
  /\ ~NoRow(nccitable, "OUTGOING", "CONNECT_B3_CONF_ERROR")
  /\ ~NoRow(nccitable, "DISCONNECTED", "DISCONNECT_B3_RESP")
  /\ \A a \in {"ALLOCATED", "ACTIVE", "DISCONNECTING"} : ~NoRow(nccitable, a, "DISCONNECT_B3_IND")
  /\ ~NoRow(nccitable, "DISCONNECTING", "DISCONNECT_B3_CONF_ERROR")
<1>1. <<"NONE", "CONNECT_B3_REQ", "OUTGOING">> \in nccitable
  BY DEF nccitable
<1>2. <<"NONE", "CONNECT_B3_IND", "INCOMING">> \in nccitable
  BY DEF nccitable
<1>3. <<"INCOMING", "CONNECT_B3_RESP", "ALLOCATED">> \in nccitable
  BY DEF nccitable
<1>4. <<"OUTGOING", "CONNECT_B3_CONF_OK", "ALLOCATED">> \in nccitable
  BY DEF nccitable
<1>5. <<"OUTGOING", "CONNECT_B3_CONF_ERROR", "NONE">> \in nccitable
  BY DEF nccitable
<1>6. <<"DISCONNECTED", "DISCONNECT_B3_RESP", "NONE">> \in nccitable
  BY DEF nccitable
<1>7. \A a \in {"ALLOCATED", "ACTIVE", "DISCONNECTING"} :
        <<a, "DISCONNECT_B3_IND", "DISCONNECTED">> \in nccitable
  BY DEF nccitable, Linked
<1>8. <<"DISCONNECTING", "DISCONNECT_B3_CONF_ERROR", "PREVIOUS">> \in nccitable
  BY DEF nccitable
<1>. QED BY <1>1, <1>2, <1>3, <1>4, <1>5, <1>6, <1>7, <1>8 DEF NoRow

(* The state of a call changes. *)
Reacts(s, w, u, c, x, n, t, event) ==
  /\ u.l = w.l
  /\ \/ u = w /\ NoRow(plcitable, x.state, event)
     \/ /\ Row(plcitable, x.state, event, "NONE")
        /\ Becomes(s, u, c, Null, Orphaned(n), Heard(t, "free"))
     \/ \E y \in Records : /\ Row(plcitable, x.state, event, y.state) /\ y.state # "NONE"
                           /\ Becomes(s, u, c, y, n, t) /\ y.plci = x.plci
LEMMA PlciEvent ==
  ASSUME NEW s, NEW w, NEW c \in Chan, NEW x, NEW n, NEW t, Becomes(s, w, c, x, n, t), x # Null,
         NEW event, NEW u, u = plci_change_state(w, c, event)
  PROVE  Reacts(s, w, u, c, x, n, t, event)
<1>0. PICK a : a = x.state /\ a = w.k.plcip[c].state
  BY Parts
<1>1. PICK next : next = {r[3] : r \in {r \in plcitable : r[1] = a /\ r[2] = event}}
  OBVIOUS
<1>2. CASE next = {}
  <2>1. u = w
    BY <1>0, <1>1, <1>2 DEF plci_change_state
  <2>2. NoRow(plcitable, a, event)
    BY <1>1, <1>2 DEF NoRow
  <2>. QED BY <1>0, <2>1, <2>2 DEF Reacts
<1>3. CASE "NONE" \in next
  <2>1. u = p0(w, c)
    BY <1>0, <1>1, <1>3 DEF plci_change_state
  <2>2. Row(plcitable, a, event, "NONE")
    BY <1>1, <1>3 DEF Row
  <2>3. Becomes(s, u, c, Null, Orphaned(n), Heard(t, "free")) /\ u.l = w.l
    BY <2>1, PutEnd
  <2>. QED BY <1>0, <2>2, <2>3 DEF Reacts
<1>4. CASE next # {} /\ "NONE" \notin next
  <2>1. PICK z : z = CHOOSE k \in next : TRUE
    OBVIOUS
  <2>2. z \in next
    BY <1>4, <2>1
  <2>3. u = WithState(w, c, z)
    BY <1>0, <1>1, <1>4, <2>1 DEF plci_change_state, WithState
  <2>4. Row(plcitable, a, event, z)
    BY <1>1, <2>2 DEF Row
  <2>5. z \in PlciStates
    BY <2>4, PlciRows
  <2>6. PICK y \in Records : Becomes(s, u, c, y, n, t) /\ u.l = w.l /\ y.plci = x.plci /\ y.state = z
    BY <2>3, <2>5, PutState
  <2>. QED BY <1>0, <1>4, <2>2, <2>4, <2>6 DEF Reacts
<1>. QED BY <1>2, <1>3, <1>4

(* A B3 connection ends, or is not made. *)
Kin(x, y) == y.plci = x.plci /\ (y.state = x.state \/ y.state \notin {"OUTGOING", "INCOMING"})
LEMMA B3Ends ==
  ASSUME NEW s, NEW w, NEW c \in Chan, NEW x, NEW n, NEW t, Becomes(s, w, c, x, n, t), x # Null,
         NEW u \in n0(w, c)
  PROVE  /\ \E v \in send_message(w, "DISCONNECT_REQ", x.plci, 0) : u.l = v.l
         /\ NoRing(w.l, u.l)
         /\ \E y \in Records : /\ Becomes(s, u, c, y, Null, Heard(t, "connected"))
                               /\ Kin(x, y)
<1>0. w.k.plcip[c] = x
  BY Parts
<1>1. PICK v \in send_message(w, "DISCONNECT_REQ", x.plci, 0) :
        u = free_ncci(Tell(plci_change_state(v, c, "DISCONNECT_REQ"), c, "connected"), c)
  BY <1>0 DEF n0
<1>2. PICK a, b : a = plci_change_state(v, c, "DISCONNECT_REQ") /\ b = Tell(a, c, "connected")
  OBVIOUS
<1>3. Becomes(s, v, c, x, n, t) /\ NoRing(w.l, v.l)
  BY PutMessage
<1>4. /\ a.l = v.l
      /\ \E y \in Records : /\ Becomes(s, a, c, y, n, t)
                            /\ Kin(x, y)
  <2>1. x \in Records
    BY Parts
  <2>2. \A y : Row(plcitable, x.state, "DISCONNECT_REQ", y) => y \notin {"OUTGOING", "INCOMING", "NONE"}
    BY PlciRows
  <2>3. a.l = v.l /\ \/ a = v
                     \/ Row(plcitable, x.state, "DISCONNECT_REQ", "NONE")
                     \/ \E y \in Records : /\ Row(plcitable, x.state, "DISCONNECT_REQ", y.state)
                                           /\ Becomes(s, a, c, y, n, t) /\ y.plci = x.plci
    <3>1. Reacts(s, v, a, c, x, n, t, "DISCONNECT_REQ")
      BY <1>2, <1>3, PlciEvent
    <3>. QED BY <3>1 DEF Reacts
  <2>. QED BY <1>3, <2>1, <2>2, <2>3 DEF Kin
<1>5. PICK y \in Records : /\ Becomes(s, a, c, y, n, t) /\ Kin(x, y)
  BY <1>4
<1>6. Becomes(s, b, c, y, n, Heard(t, "connected")) /\ b.l = a.l
  BY <1>2, <1>5, PutTold DEF Tolds
<1>7. u = free_ncci(b, c)
  BY <1>1, <1>2
<1>8. Becomes(s, u, c, y, Null, Heard(t, "connected")) /\ u.l = b.l
  BY <1>6, <1>7, PutNone
<1>. QED BY <1>3, <1>4, <1>5, <1>6, <1>8

(* Its state changes. *)
LEMMA NcciEvent ==
  ASSUME NEW s, NEW w, NEW c \in Chan, NEW x, NEW n, NEW t, Becomes(s, w, c, x, n, t), n # Null,
         NEW event, NEW u \in ncci_change_state(w, c, event)
  PROVE  \/ u = w /\ NoRow(nccitable, n.state, event)
         \/ Row(nccitable, n.state, event, "NONE") /\ u \in n0(w, c)
         \/ \E m, z : /\ Row(nccitable, n.state, event, z) /\ z # "NONE"
                      /\ Becomes(s, u, c, x, m, t) /\ u.l = w.l
                      /\ Enters(n, m, IF z = "PREVIOUS" THEN n.oldstate ELSE z)
<1>0. PICK a, o : n \in Nccis /\ a = n.state /\ o = n.oldstate
                  /\ w.k.nccip[c] = n /\ a = w.k.nccip[c].state /\ o = w.k.nccip[c].oldstate
  BY Parts
<1>1. PICK next : next = {r[3] : r \in {r \in nccitable : r[1] = a /\ r[2] = event}}
  OBVIOUS
<1>2. \/ u = w /\ next = {}
      \/ "NONE" \in next /\ u \in n0(w, c)
      \/ "PREVIOUS" \in next /\ u = WithB3State(w, c, o, a)
      \/ next # {} /\ "NONE" \notin next /\ "PREVIOUS" \notin next
         /\ u = WithB3State(w, c, CHOOSE z \in next : TRUE, a)
  BY <1>0, <1>1 DEF ncci_change_state, WithB3State
<1>3. \A z \in next : Row(nccitable, a, event, z)
  BY <1>1 DEF Row
<1>4. next = {} => NoRow(nccitable, a, event)
  BY <1>1 DEF NoRow
<1>5. ASSUME NEW z \in next, z # "NONE", NEW y, y = (IF z = "PREVIOUS" THEN o ELSE z),
             u = WithB3State(w, c, y, a)
      PROVE  \E m : /\ Row(nccitable, a, event, z) /\ Becomes(s, u, c, x, m, t) /\ u.l = w.l
                    /\ Enters(n, m, y)
  <2>1. y \in NcciStates
    BY <1>0, <1>3, <1>5, NcciRows DEF Nccis
  <2>2. u = WithB3State(w, c, y, n.state)
    BY <1>0, <1>5
  <2>3. PICK m : Becomes(s, u, c, x, m, t) /\ u.l = w.l /\ Enters(n, m, y)
    BY <2>1, <2>2, PutEntered
  <2>. QED BY <1>3, <2>3
<1>6. CASE "PREVIOUS" \in next /\ u = WithB3State(w, c, o, a)
  <2>1. PICK z : z = "PREVIOUS"
    OBVIOUS
  <2>. QED BY <1>0, <1>5, <1>6, <2>1
<1>7. CASE next # {} /\ "NONE" \notin next /\ "PREVIOUS" \notin next
           /\ u = WithB3State(w, c, CHOOSE z \in next : TRUE, a)
  <2>1. PICK z : z = CHOOSE k \in next : TRUE
    OBVIOUS
  <2>2. z \in next /\ z # "NONE" /\ z # "PREVIOUS" /\ u = WithB3State(w, c, z, a)
    BY <1>7, <2>1
  <2>. QED BY <1>0, <1>5, <2>2
<1>. QED BY <1>0, <1>2, <1>3, <1>4, <1>6, <1>7

(* The callbacks of one channel that IsdnChannels allows.                  *)
Turn(a, b) ==
  \/ b = a
  \/ a = "free" /\ b \in {"dialing", "ringing"}
  \/ a = "ringing" /\ b = "rejected"
  \/ a \in {"dialing", "ringing"} /\ b = "connected"
  \/ a = "connected" /\ b = "up"
  \/ a \in {"connected", "up"} /\ b = "connected"
  \/ a \in {"dialing", "ringing", "rejected", "connected"} /\ b = "free"
  \/ ~Running /\ a = "up" /\ b = "free"

(* What isdn4linux was told suits the structures of the channel.           *)
Report(x, n, t, U) ==
  /\ x = Null => t \in {"free", "discarded"}
  /\ x # Null => t # "free"
  /\ n # Null /\ n.live => x # Null /\ t \in Answering
  /\ x # Null /\ x.state = "INCOMING" => t \in {"ringing", "discarded"}
  /\ \A p \in Plci \cup {0} : x # Null /\ x.plci = p /\ Has(U[p], "CONNECT_B3_IND") => t \in Answering
Faithful(s, c) ==
  /\ Report(s.k.plcip[c], s.k.nccip[c], s.k.told[c], s.l.up)
  /\ s.k.told[c] \in {"ringing", "rejected"} => c \in s.k.incoming
Link(s, c) == Connection(s.k.plcip[c], s.k.nccip[c], s.k.told[c], s.l)

Goes(s, u, c) ==
  /\ Frame(s, u, c) /\ NoRing(s.l, u.l)
  /\ c \in Chan => Turn(s.k.told[c], u.k.told[c]) /\ Faithful(u, c)
Regular(u) == Lanes(u.l) /\ \A c \in Chan : Link(u, c)

LEMMA NoRingTwice ==
  ASSUME NEW l, NEW k, NEW n, NoRing(l, k), NoRing(k, n)
  PROVE  NoRing(l, n)
  BY DEF NoRing

LEMMA NoRingSame == \A l : NoRing(l, l)
  BY DEF NoRing

LEMMA GoesAt ==
  ASSUME NEW s, NEW u, NEW c \in Chan, NEW y, NEW m, NEW v, Becomes(s, u, c, y, m, v),
         NoRing(s.l, u.l), Turn(s.k.told[c], v), Report(y, m, v, u.l.up),
         v \in {"ringing", "rejected"} => c \in s.k.incoming /\ y # Null
  PROVE  Goes(s, u, c)
<1>1. u.k.plcip[c] = y /\ u.k.nccip[c] = m /\ u.k.told[c] = v /\ Frame(s, u, c)
  BY DEF Becomes
<1>2. v \in {"ringing", "rejected"} => c \in u.k.incoming
  BY DEF Becomes
<1>3. Report(u.k.plcip[c], u.k.nccip[c], u.k.told[c], u.l.up)
  BY <1>1
<1>4. Faithful(u, c)
  BY <1>1, <1>2, <1>3 DEF Faithful
<1>5. Turn(s.k.told[c], u.k.told[c])
  BY <1>1
<1>. QED BY <1>1, <1>4, <1>5 DEF Goes

(* The structure changes its state, and nothing is told.                   *)
LEMMA ReportSteady ==
  ASSUME NEW l, NEW k, NoRing(l, k), NEW x, NEW n, NEW t, Report(x, n, t, l.up),
         NEW y, (y = Null) <=> (x = Null),
         y # Null => Kin(x, y),
         NEW m, m # Null /\ m.live => (n # Null /\ n.live) \/ (y # Null /\ t \in Answering)
  PROVE  Report(y, m, t, k.up)
<1>1. ASSUME NEW p \in Plci \cup {0}, y # Null, y.plci = p, Has(k.up[p], "CONNECT_B3_IND")
      PROVE  t \in Answering
  <2>1. Has(l.up[p], "CONNECT_B3_IND")
    BY <1>1 DEF NoRing
  <2>. QED BY <1>1, <2>1 DEF Report, Kin
<1>. QED BY <1>1 DEF Report, Kin

LEMMA ReportConnected ==
  ASSUME NEW x, NEW n, NEW t, NEW U, Report(x, n, t, U), x # Null,
         t # "ringing", NEW y, y # Null, Kin(x, y), NEW m, NEW v, v = Heard(t, "connected")
  PROVE  \A V : Report(y, m, v, V)
<1>1. v \in Answering
  BY DEF Heard, Answering
<1>2. y.state = "INCOMING" => v = "discarded"
  BY DEF Report, Kin, Heard
<1>3. v # "free"
  BY DEF Heard
<1>. QED BY <1>1, <1>2, <1>3 DEF Report

LEMMA ReportFreed ==
  ASSUME NEW t, NEW n \in Nccis \cup {Null}, NEW U
  PROVE  Report(Null, Orphaned(n), Heard(t, "free"), U)
<1>1. Orphaned(n) # Null => Orphaned(n).live = FALSE
  BY DEF Orphaned, Nccis
<1>. QED BY <1>1 DEF Report, Heard

LEMMA KinSame == \A x : Kin(x, x)
  BY DEF Kin

LEMMA KinTwice ==
  ASSUME NEW x, NEW y, NEW z, Kin(x, y), Kin(y, z)
  PROVE  Kin(x, z)
  BY DEF Kin

LEMMA TurnFree ==
  ASSUME NEW t \in Tolds, t # "free", Running => t # "up", NEW v, v = Heard(t, "free")
  PROVE  Turn(t, v) /\ v \in {"free", "discarded"}
  BY DEF Turn, Heard, Tolds

LEMMA TurnConnected ==
  ASSUME NEW t \in {"dialing", "ringing", "connected", "up", "discarded"}, NEW v, v = Heard(t, "connected")
  PROVE  Turn(t, v) /\ v \in {"connected", "discarded"}
  BY DEF Turn, Heard

(* The other channels, of which none has the connection p.                 *)
Strange(s, c, p) ==
  \A y \in Chan : y # c => s.k.plcip[y] = Null \/ s.k.plcip[y].plci # p \/ p = 0

LEMMA OthersLinked ==
  ASSUME NEW s, NEW u, NEW c, NEW p, Frame(s, u, c), Elsewhere(s.l, u.l, p), Strange(s, c, p),
         \A y \in Chan : y # c => Link(s, y)
  PROVE  \A y \in Chan : y # c => Link(u, y)
<1>. SUFFICES ASSUME NEW y \in Chan, y # c PROVE Link(u, y)
  OBVIOUS
<1>1. PICK x, n, t : x = s.k.plcip[y] /\ n = s.k.nccip[y] /\ t = s.k.told[y]
  OBVIOUS
<1>2. u.k.plcip[y] = x /\ u.k.nccip[y] = n /\ u.k.told[y] = t
  BY <1>1 DEF Frame
<1>3. Connection(x, n, t, s.l) /\ (x # Null => x.plci # p \/ p = 0)
  BY <1>1 DEF Link, Strange
<1>4. Connection(x, n, t, u.l)
  BY <1>3, ConnElse
<1>. QED BY <1>2, <1>4 DEF Link

LEMMA LinkedAt ==
  ASSUME NEW s, NEW u, NEW c \in Chan, NEW y, NEW m, NEW v, Becomes(s, u, c, y, m, v),
         Connection(y, m, v, u.l), \A z \in Chan : z # c => Link(u, z), Lanes(u.l)
  PROVE  Regular(u)
  BY DEF Becomes, Link, Regular

(* The line stays as it is. *)
LEMMA SameLine == \A l, p : Elsewhere(l, l, p)
  BY DEF Elsewhere

(* What is known of a message that has been taken off a connection's queue. *)
Taking(s, t, p, m) ==
  /\ TakenOff(s, t, p, m) /\ Regular(s) /\ p \in Plci
  /\ Popping(s.l, t.l, p, m)

LEMMA TakingOwners ==
  ASSUME NEW s, NEW t, NEW p, NEW m, Taking(s, t, p, m), NEW c, c = find_plci_by_plci(t.k, p)
  PROVE  /\ t.k = s.k
         /\ \/ c = Null /\ \A y \in Chan : s.k.plcip[y] = Null \/ s.k.plcip[y].plci # p
            \/ /\ c \in Chan /\ c # Null /\ Owns(s.k.plcip, c, p) /\ s.k.plcip[c] # Null /\ s.k.plcip[c].plci = p
               /\ s.k.plcip[c].state # "OUTGOING" /\ s.k.plcip[c].state \in CallStates
         /\ Strange(s, c, p)
<1>1. Sound(s) /\ p \in Plci /\ p # 0
  BY DrvAssumption DEF Taking, TakenOff
<1>2. t.k = s.k
  BY TakenShape DEF Taking
<1>3. (c = Null /\ \A y : ~Owns(s.k.plcip, y, p)) \/ (c # Null /\ Owns(s.k.plcip, c, p))
  BY <1>1, <1>2, FoundByPlci
<1>4. Structures(s.k.plcip, s.k.plci_list, s.k.incoming, s.k.told) /\ Owners(s.k.plcip, s.k.incoming, s.l.d, s.l.up)
  BY <1>1 DEF Sound, Agree
<1>5. CASE c = Null /\ \A y : ~Owns(s.k.plcip, y, p)
  <2>1. \A y \in Chan : s.k.plcip[y] = Null \/ s.k.plcip[y].plci # p
    BY <1>1, <1>5 DEF Owns
  <2>. QED BY <1>2, <1>5, <2>1 DEF Strange
<1>6. CASE c # Null /\ Owns(s.k.plcip, c, p)
  <2>1. c \in Chan /\ s.k.plcip[c] # Null /\ s.k.plcip[c].plci = p
    BY <1>6 DEF Owns
  <2>2. s.k.plcip[c].state # "OUTGOING" /\ s.k.plcip[c].state \in CallStates
    BY <1>1, <1>4, <2>1 DEF Structures, Plcis
  <2>3. \A y \in Chan : Owns(s.k.plcip, y, p) => y = c
    BY <1>1, <1>4, <1>6, <2>1 DEF Owners
  <2>4. Strange(s, c, p)
    BY <1>1, <2>3 DEF Owns, Strange
  <2>. QED BY <1>2, <1>6, <2>1, <2>2, <2>4
<1>. QED BY <1>3, <1>5, <1>6

-------------------------------------------------------------------------------
(* The handlers of the messages of a connection, case by case.             *)

(* A message m of the connection p is handled, from t. *)
Handling(s, t, p, m) ==
  /\ Plain(t) /\ Typed(t) /\ p \in Plci
  /\ \A c \in Chan : Faithful(t, c)
  /\ m.cmd = "CONNECT_B3_IND" =>
       \A c \in Chan : t.k.plcip[c] # Null /\ t.k.plcip[c].plci = p => t.k.told[c] \in Answering
  /\ Running => Taking(s, t, p, m)
Handles(t, u) == (\E c : Goes(t, u, c)) /\ (Running => Regular(u))

(* The channel c of the connection p, with its structures, at first.       *)
At(t, c, p, x, n, v) ==
  /\ c \in Chan /\ Becomes(t, t, c, x, n, v)
  /\ x \in Records /\ x # Null /\ x.plci = p
  /\ Report(x, n, v, t.l.up)
  /\ v \in {"ringing", "rejected"} => c \in t.k.incoming

LEMMA OwnerAt ==
  ASSUME NEW s, NEW t, NEW p, NEW m, Handling(s, t, p, m), NEW c, c = find_plci_by_plci(t.k, p), c # Null
  PROVE  \E x, n, v : At(t, c, p, x, n, v) /\ (Running => x.state \in CallStates \ {"OUTGOING"})
<1>1. c \in Chan /\ t.k.plcip[c] # Null /\ t.k.plcip[c].plci = p
  BY FindsPlci DEF Handling
<1>2. PICK x, n, v : x = t.k.plcip[c] /\ n = t.k.nccip[c] /\ v = t.k.told[c]
  OBVIOUS
<1>3. Becomes(t, t, c, x, n, v)
  BY <1>1, <1>2, Same DEF Handling
<1>4. x \in Records
  BY <1>1, <1>2 DEF Handling, Plain
<1>5. Report(x, n, v, t.l.up) /\ (v \in {"ringing", "rejected"} => c \in t.k.incoming)
  BY <1>1, <1>2 DEF Handling, Faithful
<1>6. ASSUME Running PROVE x.state \in CallStates \ {"OUTGOING"}
  <2>1. Taking(s, t, p, m)
    BY <1>6 DEF Handling
  <2>2. t.k = s.k /\ s.k.plcip[c].state # "OUTGOING" /\ s.k.plcip[c].state \in CallStates
    BY <2>1, TakingOwners
  <2>. QED BY <1>2, <2>2
<1>. QED BY <1>1, <1>2, <1>3, <1>4, <1>5, <1>6 DEF At

(* The handler is done: the channel c has y and n, and was told v.         *)
LEMMA HandledAt ==
  ASSUME NEW s, NEW t, NEW p, NEW m, Handling(s, t, p, m), NEW c \in Chan, c = find_plci_by_plci(t.k, p), c # Null,
         NEW u, NEW y, NEW n, NEW v, Becomes(t, u, c, y, n, v), NoRing(t.l, u.l),
         Turn(t.k.told[c], v), Report(y, n, v, u.l.up),
         v \in {"ringing", "rejected"} => c \in t.k.incoming /\ y # Null,
         Running => Lanes(u.l) /\ Elsewhere(t.l, u.l, p) /\ Connection(y, n, v, u.l)
  PROVE  Handles(t, u)
<1>1. Goes(t, u, c)
  BY GoesAt
<1>2. ASSUME Running PROVE Regular(u)
  <2>1. Taking(s, t, p, m)
    BY <1>2 DEF Handling
  <2>2. t.k = s.k /\ Strange(s, c, p)
    BY <2>1, TakingOwners
  <2>3. Frame(s, u, c)
    BY <2>2 DEF Becomes, Frame
  <2>4. Elsewhere(s.l, t.l, p) /\ Elsewhere(t.l, u.l, p)
    BY <1>2, <2>1 DEF Taking, Popping
  <2>5. Elsewhere(s.l, u.l, p)
    BY <2>4, ElsewhereTwice
  <2>6. \A z \in Chan : z # c => Link(s, z)
    BY <2>1 DEF Taking, Regular
  <2>7. \A z \in Chan : z # c => Link(u, z)
    BY <2>2, <2>3, <2>5, <2>6, OthersLinked
  <2>8. Connection(y, n, v, u.l) /\ Lanes(u.l)
    BY <1>2
  <2>. QED BY <2>7, <2>8, LinkedAt
<1>. QED BY <1>1, <1>2 DEF Handles

(* No channel has the connection. *)
LEMMA HandledNone ==
  ASSUME NEW s, NEW t, NEW p, NEW m, Handling(s, t, p, m), find_plci_by_plci(t.k, p) = Null,
         NEW u, u.k = t.k, Plain(u), NoRing(t.l, u.l), Running => Lanes(u.l) /\ Elsewhere(t.l, u.l, p)
  PROVE  Handles(t, u)
<1>. Null \notin Chan
  BY DrvAssumption
<1>1. Goes(t, u, Null)
  BY DEF Goes, Frame
<1>2. ASSUME Running PROVE Regular(u)
  <2>1. Taking(s, t, p, m)
    BY <1>2 DEF Handling
  <2>2. t.k = s.k /\ Strange(s, Null, p)
    BY <2>1, TakingOwners
  <2>3. Frame(s, u, Null)
    BY <2>2 DEF Frame
  <2>4. Elsewhere(s.l, t.l, p) /\ Elsewhere(t.l, u.l, p)
    BY <1>2, <2>1 DEF Taking, Popping
  <2>5. Elsewhere(s.l, u.l, p)
    BY <2>4, ElsewhereTwice
  <2>6. \A z \in Chan : z # Null => Link(s, z)
    BY <2>1 DEF Taking, Regular
  <2>7. \A z \in Chan : z # Null => Link(u, z)
    BY <2>2, <2>3, <2>5, <2>6, OthersLinked
  <2>. QED BY <1>2, <2>7 DEF Regular
<1>. QED BY <1>1, <1>2 DEF Handles

(* The connection of the channel, with the message taken off. *)
LEMMA TakenConn ==
  ASSUME NEW s, NEW t, NEW p, NEW m, Taking(s, t, p, m), NEW x, NEW n, NEW v,
         Connection(x, n, v, s.l), x # Null, x.plci = p
  PROVE  /\ n = Null \/ Unnumbered(n) => Connection(x, n, v, t.l)
         /\ ~Closes(m) /\ ~Confirmation(m) => Connection(x, n, v, t.l)
         /\ Opens(m) => n = Null \/ Unnumbered(n)
<1>1. p \in Plci /\ Lanes(s.l) /\ Popping(s.l, t.l, p, m)
  BY DEF Taking, Regular
<1>2. t.l.d = s.l.d
  BY <1>1 DEF Popping
<1>3. ASSUME Carries(x, n, t.l) PROVE Connection(x, n, v, t.l)
  BY <1>2, <1>3 DEF Connection
<1>4. CASE n = Null \/ Unnumbered(n)
  <2>1. Carries(x, n, t.l)
    BY <1>4 DEF Carries
  <2>. QED BY <1>3, <1>4, <2>1
<1>5. CASE ~(n = Null \/ Unnumbered(n))
  <2>1. Numbered(x, n, s.l)
    BY <1>5 DEF Connection, Carries
  <2>2. n.ncci = p
    BY <2>1 DEF Numbered
  <2>3. ~Opens(m) /\ (~Closes(m) /\ ~Confirmation(m) => Numbered(x, n, t.l))
    BY <1>1, <2>1, <2>2, PopNumbered
  <2>4. ~Closes(m) /\ ~Confirmation(m) => Carries(x, n, t.l)
    BY <2>3 DEF Carries
  <2>. QED BY <1>3, <1>5, <2>3, <2>4
<1>. QED BY <1>4, <1>5

LEMMA TakenAt ==
  ASSUME NEW s, NEW t, NEW p, NEW m, Handling(s, t, p, m), Running, NEW c, NEW x, NEW n, NEW v,
         At(t, c, p, x, n, v)
  PROVE  /\ Taking(s, t, p, m) /\ Connection(x, n, v, s.l) /\ x # Null /\ x.plci = p
         /\ Lanes(t.l) /\ Elsewhere(t.l, t.l, p)
<1>1. Taking(s, t, p, m)
  BY DEF Handling
<1>2. t.k = s.k /\ p \in Plci /\ Lanes(s.l) /\ Popping(s.l, t.l, p, m) /\ Link(s, c)
  BY <1>1, TakenShape DEF Taking, Regular, At
<1>3. Lanes(t.l)
  BY <1>2, PopLanes
<1>4. Connection(x, n, v, s.l)
  BY <1>2 DEF At, Becomes, Link
<1>. QED BY <1>1, <1>3, <1>4, SameLine DEF At

(* The handler does nothing. *)
LEMMA HandledSame ==
  ASSUME NEW s, NEW t, NEW p, NEW m, Handling(s, t, p, m), ~Closes(m), ~Confirmation(m)
  PROVE  Handles(t, t)
<1>1. PICK c : c = find_plci_by_plci(t.k, p)
  OBVIOUS
<1>2. CASE c = Null
  <2>1. Running => Lanes(t.l) /\ Elsewhere(t.l, t.l, p)
    <3>1. SUFFICES ASSUME Running PROVE Lanes(t.l)
      BY SameLine
    <3>. QED BY <3>1, PopLanes DEF Handling, Taking, Regular
  <2>. QED BY <1>1, <1>2, <2>1, HandledNone, NoRingSame DEF Handling
<1>3. CASE c # Null
  <2>1. PICK x, n, v : At(t, c, p, x, n, v)
    BY <1>1, <1>3, OwnerAt
  <2>2. c \in Chan /\ Becomes(t, t, c, x, n, v) /\ Report(x, n, v, t.l.up) /\ x # Null /\ t.k.told[c] = v
        /\ (v \in {"ringing", "rejected"} => c \in t.k.incoming)
    BY <2>1 DEF At, Becomes
  <2>3. ASSUME Running PROVE Lanes(t.l) /\ Elsewhere(t.l, t.l, p) /\ Connection(x, n, v, t.l)
    <3>1. /\ Taking(s, t, p, m) /\ Connection(x, n, v, s.l) /\ x # Null /\ x.plci = p
          /\ Lanes(t.l) /\ Elsewhere(t.l, t.l, p)
      BY <2>1, <2>3, TakenAt
    <3>2. Connection(x, n, v, t.l)
      BY <3>1, TakenConn
    <3>. QED BY <3>1, <3>2
  <2>4. Turn(t.k.told[c], v) /\ NoRing(t.l, t.l)
    BY <2>2, NoRingSame DEF Turn
  <2>. QED BY <1>1, <1>3, <2>2, <2>3, <2>4, HandledAt
<1>. QED BY <1>2, <1>3

LEMMA GoDisconnectConf ==
  ASSUME NEW s, NEW t, NEW p, NEW m, Handling(s, t, p, m), m.cmd = "DISCONNECT_CONF",
         NEW u \in handle_disconnect_conf(t, p)
  PROVE  Handles(t, u)
<1>0. ~Closes(m) /\ ~Confirmation(m)
  BY DEF Closes, Confirmation
<1>1. PICK c : c = find_plci_by_plci(t.k, p)
  OBVIOUS
<1>2. u = IF c = Null THEN t ELSE Disconnecting(t, c)
  BY <1>1 DEF handle_disconnect_conf
<1>3. CASE c = Null
  BY <1>0, <1>2, <1>3, HandledSame
<1>4. CASE c # Null
  <2>1. PICK x, n, v : At(t, c, p, x, n, v)
    BY <1>1, <1>4, OwnerAt
  <2>2. c \in Chan /\ Becomes(t, t, c, x, n, v) /\ Report(x, n, v, t.l.up) /\ x # Null /\ t.k.told[c] = v
        /\ (v \in {"ringing", "rejected"} => c \in t.k.incoming)
    BY <2>1 DEF At, Becomes
  <2>3. Becomes(t, u, c, x, n, v) /\ u.l = t.l
    BY <1>2, <1>4, <2>2, PutDisconnecting
  <2>4. ASSUME Running PROVE Lanes(u.l) /\ Elsewhere(t.l, u.l, p) /\ Connection(x, n, v, u.l)
    <3>1. /\ Taking(s, t, p, m) /\ Connection(x, n, v, s.l) /\ x # Null /\ x.plci = p
          /\ Lanes(t.l) /\ Elsewhere(t.l, t.l, p)
      BY <2>1, <2>4, TakenAt
    <3>2. Connection(x, n, v, t.l)
      BY <1>0, <3>1, TakenConn
    <3>. QED BY <2>3, <3>1, <3>2
  <2>5. Turn(t.k.told[c], v) /\ NoRing(t.l, u.l) /\ Report(x, n, v, u.l.up)
    BY <2>2, <2>3, NoRingSame DEF Turn
  <2>. QED BY <1>1, <1>4, <2>2, <2>3, <2>4, <2>5, HandledAt
<1>. QED BY <1>3, <1>4

LEMMA HasAny ==
  ASSUME NEW t, NEW c, NEW p, NEW x, NEW n, NEW v, At(t, c, p, x, n, v)
  PROVE  /\ c \in Chan /\ Becomes(t, t, c, x, n, v) /\ Report(x, n, v, t.l.up) /\ x # Null
         /\ t.k.told[c] = v /\ x.plci = p /\ x \in Records /\ v \in Tolds
         /\ v \in {"ringing", "rejected"} => c \in t.k.incoming
BY DEF At, Becomes, Frame, Plain

(* The queue of a call that has been taken from. *)
LEMMA TakenQuiet ==
  ASSUME NEW s, NEW t, NEW p, NEW m, Taking(s, t, p, m), NEW c, c = find_plci_by_plci(t.k, p), c # Null
  PROVE  /\ ~HasBegin(t.l.up[p])
         /\ t.l.d[p] # "gone" => ~HasEnd(t.l.up[p])
         /\ t.l.d[p] # "idle" /\ t.l.d = s.l.d
<1>1. Sound(s) /\ p \in Plci /\ Popping(s.l, t.l, p, m)
  BY DEF Taking, TakenOff
<1>2. Agree(s.k.plcip, s.k.plci_list, s.k.incoming, s.k.told, s.l.d, s.l.up)
  BY <1>1 DEF Sound
<1>3. Owns(s.k.plcip, c, p)
  BY TakingOwners
<1>4. ~HasBegin(s.l.up[p]) /\ s.l.d[p] # "idle"
  BY <1>1, <1>2, <1>3, OwnerKnown
<1>5. Queue(s.l.up[p], s.l.d[p]) /\ IsSeq(s.l.up[p])
  BY <1>1, <1>2, LineKnown
<1>6. HasEnd(s.l.up[p]) => s.l.d[p] = "gone"
  BY <1>5 DEF Queue
<1>7. s.l.up[p] # <<>> /\ t.l.up[p] = Tail(s.l.up[p]) /\ m = Head(s.l.up[p]) /\ t.l.d = s.l.d
  BY <1>1 DEF Popping
<1>8. Shorter(s.l.up[p], m, t.l.up[p])
  BY <1>5, <1>7, QueueTail
<1>9. ~HasBegin(t.l.up[p]) /\ (HasEnd(t.l.up[p]) => HasEnd(s.l.up[p]))
  BY <1>4, <1>8, MarksTail
<1>. QED BY <1>4, <1>6, <1>7, <1>9

(* CONNECT_ACTIVE_IND of a call that came in.                              *)
LEMMA GoAnswered ==
  ASSUME NEW s, NEW t, NEW p, NEW m, Handling(s, t, p, m), ~Closes(m), ~Confirmation(m),
         NEW c, c = find_plci_by_plci(t.k, p), c # Null,
         NEW u, u = plci_change_state(t, c, "CONNECT_ACTIVE_IND")
  PROVE  Handles(t, u)
<1>1. PICK x, n, v : At(t, c, p, x, n, v)
  BY OwnerAt
<1>2. /\ c \in Chan /\ Becomes(t, t, c, x, n, v) /\ Report(x, n, v, t.l.up) /\ x # Null
      /\ t.k.told[c] = v
      /\ v \in {"ringing", "rejected"} => c \in t.k.incoming
  BY <1>1, HasAny
<1>3. /\ u.l = t.l
      /\ \/ u = t
         \/ Row(plcitable, x.state, "CONNECT_ACTIVE_IND", "NONE")
         \/ \E y \in Records : /\ Row(plcitable, x.state, "CONNECT_ACTIVE_IND", y.state)
                               /\ Becomes(t, u, c, y, n, v) /\ y.plci = x.plci
  <2>1. PICK w : w = t
    OBVIOUS
  <2>2. c \in Chan /\ Becomes(w, t, c, x, n, v) /\ x # Null
    BY <1>2, <2>1
  <2>3. PICK q : q = plci_change_state(t, c, "CONNECT_ACTIVE_IND")
    OBVIOUS
  <2>4. /\ q.l = t.l
        /\ \/ q = t /\ NoRow(plcitable, x.state, "CONNECT_ACTIVE_IND")
           \/ /\ Row(plcitable, x.state, "CONNECT_ACTIVE_IND", "NONE")
              /\ Becomes(w, q, c, Null, Orphaned(n), Heard(v, "free"))
           \/ \E y \in Records : /\ Row(plcitable, x.state, "CONNECT_ACTIVE_IND", y.state) /\ y.state # "NONE"
                                 /\ Becomes(w, q, c, y, n, v) /\ y.plci = x.plci
    <3>1. Reacts(w, t, q, c, x, n, v, "CONNECT_ACTIVE_IND")
      BY <2>2, <2>3, PlciEvent
    <3>. QED BY <3>1 DEF Reacts
  <2>. QED BY <2>1, <2>3, <2>4
<1>4. ASSUME Running
      PROVE  Connection(x, n, v, t.l) /\ Lanes(t.l) /\ Elsewhere(t.l, t.l, p)
  <2>1. /\ Taking(s, t, p, m) /\ Connection(x, n, v, s.l) /\ x # Null /\ x.plci = p
        /\ Lanes(t.l) /\ Elsewhere(t.l, t.l, p)
    BY <1>1, <1>4, TakenAt
  <2>. QED BY <2>1, TakenConn
<1>5. Turn(t.k.told[c], v) /\ NoRing(t.l, u.l)
  BY <1>2, <1>3, NoRingSame DEF Turn
<1>6. CASE u = t
  BY <1>6, HandledSame
<1>7. CASE Row(plcitable, x.state, "CONNECT_ACTIVE_IND", "NONE")
  BY <1>7, PlciRows
<1>8. ASSUME NEW y \in Records, Row(plcitable, x.state, "CONNECT_ACTIVE_IND", y.state),
             Becomes(t, u, c, y, n, v), y.plci = x.plci
      PROVE  Handles(t, u)
  <2>1. y.state # "OUTGOING" /\ y.state # "INCOMING"
    BY <1>8, PlciRows
  <2>2. Kin(x, y) /\ y # Null
    BY <1>8, <2>1, NullIsNone DEF Kin
  <2>3. Report(y, n, v, u.l.up)
    BY <1>2, <1>5, <2>2, ReportSteady DEF Report
  <2>4. ASSUME Running PROVE Lanes(u.l) /\ Elsewhere(t.l, u.l, p) /\ Connection(y, n, v, u.l)
    <3>1. Connection(y, n, v, t.l)
      BY <1>2, <1>4, <1>8, <2>1, <2>2, <2>4, ConnState
    <3>. QED BY <1>3, <1>4, <2>4, <3>1
  <2>. QED BY <1>2, <1>5, <1>8, <2>2, <2>3, <2>4, HandledAt
<1>. QED BY <1>3, <1>6, <1>7, <1>8

(* CONNECT_ACTIVE_IND of a call that isdn4linux made: the driver opens the *)
(* B3 connection.                                                          *)
LEMMA GoOpened ==
  ASSUME NEW s, NEW t, NEW p, NEW m, Handling(s, t, p, m), ~Closes(m), ~Confirmation(m),
         NEW c, c = find_plci_by_plci(t.k, p), c # Null, c \notin t.k.incoming,
         NEW w \in send_message(new_ncci(t, c, 0), "CONNECT_B3_REQ", p, 0),
         NEW u \in ncci_change_state(
                     plci_change_state(Tell(w, c, "connected"), c, "CONNECT_ACTIVE_IND"),
                     c, "CONNECT_B3_REQ")
  PROVE  Handles(t, u)
<1>1. PICK x, n, v : At(t, c, p, x, n, v) /\ (Running => x.state \in CallStates \ {"OUTGOING"})
  BY OwnerAt
<1>2. /\ c \in Chan /\ Becomes(t, t, c, x, n, v) /\ Report(x, n, v, t.l.up) /\ x # Null
      /\ t.k.told[c] = v /\ v \in Tolds /\ v \notin {"ringing", "rejected"} /\ x.plci = p
  BY <1>1, HasAny
<1>3. PICK r : r = new_ncci(t, c, 0)
  OBVIOUS
<1>4. Becomes(t, r, c, x, NewNcci(0), v) /\ r.l = t.l /\ NewNcci(0) # Null
  BY <1>2, <1>3, PutNew
<1>5. Becomes(t, w, c, x, NewNcci(0), v) /\ NoRing(r.l, w.l) /\ w.k = r.k
  BY <1>2, <1>3, <1>4, PutMessage
<1>6. PICK z : z = Tell(w, c, "connected")
  OBVIOUS
<1>7. PICK h : h = Heard(v, "connected")
  OBVIOUS
<1>8. Becomes(t, z, c, x, NewNcci(0), h) /\ z.l = w.l
  <2>1. "connected" \in Tolds
    BY DEF Tolds
  <2>. QED BY <1>2, <1>5, <1>6, <1>7, <2>1, PutTold
<1>9. PICK q : q = plci_change_state(z, c, "CONNECT_ACTIVE_IND")
  OBVIOUS
<1>10. PICK y \in Records : Becomes(t, q, c, y, NewNcci(0), h) /\ Kin(x, y) /\ q.l = z.l
                            /\ (y.state = "OUTGOING" => x.state = "OUTGOING")
  <2>1. /\ q.l = z.l
        /\ \/ q = z
           \/ Row(plcitable, x.state, "CONNECT_ACTIVE_IND", "NONE")
           \/ \E y \in Records : /\ Row(plcitable, x.state, "CONNECT_ACTIVE_IND", y.state)
                                 /\ Becomes(t, q, c, y, NewNcci(0), h) /\ y.plci = x.plci
    <3>1. Reacts(t, z, q, c, x, NewNcci(0), h, "CONNECT_ACTIVE_IND")
      BY <1>2, <1>8, <1>9, PlciEvent
    <3>. QED BY <3>1 DEF Reacts
  <2>2. CASE q = z
    <3>1. x \in Records
      BY <1>1 DEF At
    <3>. QED BY <1>8, <2>2, <3>1, KinSame
  <2>3. CASE Row(plcitable, x.state, "CONNECT_ACTIVE_IND", "NONE")
    BY <2>3, PlciRows
  <2>4. ASSUME NEW y \in Records, Row(plcitable, x.state, "CONNECT_ACTIVE_IND", y.state),
               Becomes(t, q, c, y, NewNcci(0), h), y.plci = x.plci
        PROVE  Becomes(t, q, c, y, NewNcci(0), h) /\ Kin(x, y) /\ q.l = z.l
               /\ (y.state = "OUTGOING" => x.state = "OUTGOING")
    <3>1. y.state # "OUTGOING" /\ y.state # "INCOMING"
      BY <2>4, PlciRows
    <3>. QED BY <2>1, <2>4, <3>1 DEF Kin
  <2>. QED BY <2>1, <2>2, <2>3, <2>4
<1>11. PICK e : Becomes(t, u, c, y, e, h) /\ u.l = q.l /\ Enters(NewNcci(0), e, "OUTGOING")
  <2>1. NewNcci(0).state = "NONE"
    BY DEF NewNcci
  <2>2. u \in ncci_change_state(q, c, "CONNECT_B3_REQ")
    BY <1>3, <1>6, <1>9
  <2>3. \/ NoRow(nccitable, NewNcci(0).state, "CONNECT_B3_REQ")
        \/ Row(nccitable, NewNcci(0).state, "CONNECT_B3_REQ", "NONE")
        \/ \E e, b : /\ Row(nccitable, NewNcci(0).state, "CONNECT_B3_REQ", b) /\ b # "NONE"
                     /\ Becomes(t, u, c, y, e, h) /\ u.l = q.l
                     /\ Enters(NewNcci(0), e, IF b = "PREVIOUS" THEN NewNcci(0).oldstate ELSE b)
    BY <1>2, <1>4, <1>10, <2>2, NcciEvent
  <2>4. \E e, b : /\ Row(nccitable, "NONE", "CONNECT_B3_REQ", b) /\ b # "NONE"
                  /\ Becomes(t, u, c, y, e, h) /\ u.l = q.l
                  /\ Enters(NewNcci(0), e, IF b = "PREVIOUS" THEN NewNcci(0).oldstate ELSE b)
    <3>1. ~Row(nccitable, "NONE", "CONNECT_B3_REQ", "NONE")
      BY NcciRows
    <3>. QED BY <2>1, <2>3, <3>1, NcciMoves
  <2>5. ASSUME NEW b, Row(nccitable, "NONE", "CONNECT_B3_REQ", b) PROVE b = "OUTGOING"
    BY <2>5, NcciRows
  <2>. QED BY <2>4, <2>5
<1>12. e # Null /\ Unnumbered(e)
  BY <1>11, NullIsNone DEF Enters, NewNcci, Unnumbered
<1>13. NoRing(t.l, u.l) /\ u.l = w.l /\ y # Null
  BY <1>4, <1>5, <1>8, <1>10, <1>11, NullIsNone
<1>14. Report(y, e, h, u.l.up)
  <2>1. Report(x, n, v, t.l.up) /\ x # Null /\ v # "ringing"
    BY <1>2
  <2>2. y # Null /\ Kin(x, y) /\ h = Heard(v, "connected")
    BY <1>7, <1>10, <1>13
  <2>. QED BY <2>1, <2>2, ReportConnected
<1>15. Turn(t.k.told[c], h) /\ h \in {"connected", "discarded"}
  <2>1. v # "free"
    BY <1>2 DEF Report
  <2>2. v \in {"dialing", "ringing", "connected", "up", "discarded"}
    BY <1>2, <2>1 DEF Tolds
  <2>. QED BY <1>2, <1>7, <2>2, TurnConnected
<1>16. ASSUME Running PROVE Lanes(u.l) /\ Elsewhere(t.l, u.l, p) /\ Connection(y, e, h, u.l)
  <2>1. /\ Taking(s, t, p, m) /\ Lanes(t.l) /\ p \in Plci
    BY <1>1, <1>16, TakenAt DEF Taking
  <2>2. ~HasBegin(t.l.up[p]) /\ (t.l.d[p] # "gone" => ~HasEnd(t.l.up[p]))
    BY <2>1, TakenQuiet
  <2>3. Shape(r)
    BY <1>4 DEF Becomes, Frame, Plain
  <2>4. /\ ~HasBegin(r.l.up[p]) /\ (r.l.d[p] = "out_act" => ~HasEnd(r.l.up[p]))
        /\ Lanes(r.l) /\ "CONNECT_B3_REQ" \in Requests /\ w \in send_message(r, "CONNECT_B3_REQ", p, 0)
    BY <1>3, <1>4, <2>1, <2>2 DEF Requests
  <2>5. Lanes(w.l) /\ Elsewhere(r.l, w.l, p)
    BY <2>1, <2>3, <2>4, SendLanes
  <2>6. y.state # "OUTGOING"
    BY <1>1, <1>10, <1>16
  <2>7. Connection(y, e, h, u.l)
    BY <1>12, <1>15, <2>6 DEF Connection, Carries, Answering
  <2>. QED BY <1>4, <1>13, <2>5, <2>7
<1>17. h \notin {"ringing", "rejected"}
  BY <1>15
<1>. QED BY <1>2, <1>11, <1>13, <1>14, <1>15, <1>16, <1>17, HandledAt

LEMMA GoActive ==
  ASSUME NEW s, NEW t, NEW p, NEW m, Handling(s, t, p, m), m.cmd = "CONNECT_ACTIVE_IND",
         NEW u \in handle_connect_active_ind(t, p)
  PROVE  Handles(t, u)
<1>0. ~Closes(m) /\ ~Confirmation(m)
  BY DEF Closes, Confirmation
<1>1. PICK c : c = find_plci_by_plci(t.k, p)
  OBVIOUS
<1>2. CASE c = Null
  BY <1>0, <1>1, <1>2, HandledSame DEF handle_connect_active_ind
<1>3. CASE c # Null /\ c \in t.k.incoming
  <2>1. u = plci_change_state(t, c, "CONNECT_ACTIVE_IND")
    BY <1>1, <1>3 DEF handle_connect_active_ind
  <2>. QED BY <1>0, <1>1, <1>3, <2>1, GoAnswered
<1>4. CASE c # Null /\ c \notin t.k.incoming
  <2>1. \/ u = t
        \/ \E w \in send_message(new_ncci(t, c, 0), "CONNECT_B3_REQ", p, 0) :
              u \in ncci_change_state(
                     plci_change_state(Tell(w, c, "connected"), c, "CONNECT_ACTIVE_IND"),
                     c, "CONNECT_B3_REQ")
    BY <1>1, <1>4 DEF handle_connect_active_ind
  <2>2. CASE u = t
    BY <1>0, <2>2, HandledSame
  <2>3. ASSUME NEW w \in send_message(new_ncci(t, c, 0), "CONNECT_B3_REQ", p, 0),
               u \in ncci_change_state(
                     plci_change_state(Tell(w, c, "connected"), c, "CONNECT_ACTIVE_IND"),
                     c, "CONNECT_B3_REQ")
        PROVE  Handles(t, u)
    BY <1>0, <1>1, <1>4, <2>3, GoOpened
  <2>. QED BY <2>1, <2>2, <2>3
<1>. QED BY <1>2, <1>3, <1>4

(* A request that neither opens nor closes a B3 connection is sent.        *)
Harmless == Requests \ {"CONNECT_RESP", "CONNECT_B3_REQ", "DISCONNECT_B3_RESP"}

LEMMA PlainSends ==
  ASSUME NEW w, Plain(w), NEW cmd, NEW p, NEW id, NEW u \in send_message(w, cmd, p, id)
  PROVE  NoRing(w.l, u.l) /\ u.k = w.k /\ Plain(u)
<1>1. u.k = w.k /\ u = [k |-> u.k, l |-> u.l] /\ Sent(w.l, u.l)
  BY SendSplit DEF Plain
<1>2. IsLine(u.l)
  BY <1>1 DEF Sent
<1>3. Queues(u.l) /\ NoRing(w.l, u.l)
  BY <1>1, SentQueues, SentNoRing DEF Plain, Queues
<1>. QED BY <1>1, <1>2, <1>3 DEF Plain, Shape

LEMMA HarmlessLanes ==
  ASSUME NEW s, Shape(s), Lanes(s.l), NEW p \in Plci, NEW id, NEW cmd \in Harmless,
         NEW u \in send_message(s, cmd, p, id)
  PROVE  Lanes(u.l) /\ Elsewhere(s.l, u.l, p) /\ Steady(s.l, u.l, p)
<1>1. /\ cmd \in Requests
      /\ cmd \in {"CONNECT_RESP", "CONNECT_B3_REQ"} => ~HasBegin(s.l.up[p])
      /\ cmd = "CONNECT_B3_REQ" /\ s.l.d[p] = "out_act" => ~HasEnd(s.l.up[p])
      /\ cmd = "DISCONNECT_B3_RESP" => ~HasFlow(s.l.up[p])
  BY DEF Harmless
<1>2. /\ Lanes(u.l) /\ Elsewhere(s.l, u.l, p)
      /\ cmd # "CONNECT_RESP" => Unanswered(s.l, u.l, p)
      /\ cmd \notin {"CONNECT_B3_REQ", "DISCONNECT_B3_RESP"} => Firm(s.l, u.l, p)
  BY <1>1, SendLanes
<1>. QED BY <1>2 DEF Harmless, Steady

(* The handler only sends it. *)
LEMMA GoSent ==
  ASSUME NEW s, NEW t, NEW p, NEW m, Handling(s, t, p, m), ~Closes(m), ~Confirmation(m),
         NEW cmd \in Harmless, NEW u \in send_message(t, cmd, p, 0)
  PROVE  Handles(t, u)
<1>1. PICK c : c = find_plci_by_plci(t.k, p)
  OBVIOUS
<1>2. NoRing(t.l, u.l) /\ u.k = t.k /\ Plain(u) /\ Shape(t) /\ p \in Plci
  BY PlainSends DEF Handling, Plain
<1>3. ASSUME Lanes(t.l) PROVE Lanes(u.l) /\ Elsewhere(t.l, u.l, p) /\ Steady(t.l, u.l, p)
  BY <1>2, <1>3, HarmlessLanes
<1>4. CASE c = Null
  <2>1. ASSUME Running PROVE Lanes(u.l) /\ Elsewhere(t.l, u.l, p)
    <3>1. Lanes(t.l)
      BY <2>1, PopLanes DEF Handling, Taking, Regular
    <3>. QED BY <1>3, <3>1
  <2>. QED BY <1>1, <1>2, <1>4, <2>1, HandledNone
<1>5. CASE c # Null
  <2>1. PICK x, n, v : At(t, c, p, x, n, v)
    BY <1>1, <1>5, OwnerAt
  <2>2. c \in Chan /\ Becomes(t, t, c, x, n, v) /\ Report(x, n, v, t.l.up) /\ x # Null /\ t.k.told[c] = v
        /\ (v \in {"ringing", "rejected"} => c \in t.k.incoming)
    BY <2>1, HasAny
  <2>3. Becomes(t, u, c, x, n, v)
    BY <2>2, PutMessage
  <2>4. Report(x, n, v, u.l.up)
    BY <1>2, <2>2, KinSame, ReportSteady DEF Report
  <2>5. ASSUME Running PROVE Lanes(u.l) /\ Elsewhere(t.l, u.l, p) /\ Connection(x, n, v, u.l)
    <3>1. /\ Taking(s, t, p, m) /\ Connection(x, n, v, s.l) /\ x # Null /\ x.plci = p
          /\ Lanes(t.l)
      BY <2>1, <2>5, TakenAt
    <3>2. Connection(x, n, v, t.l)
      BY <3>1, TakenConn
    <3>3. Connection(x, n, v, u.l)
      BY <1>2, <1>3, <3>1, <3>2, ConnSteady
    <3>. QED BY <1>3, <3>1, <3>3
  <2>6. Turn(t.k.told[c], v)
    BY <2>2 DEF Turn
  <2>. QED BY <1>1, <1>2, <1>5, <2>2, <2>3, <2>4, <2>5, <2>6, HandledAt
<1>. QED BY <1>4, <1>5

(* A row of the table. *)
Leads(a, event, b) ==
  /\ ~NoRow(nccitable, a, event) /\ b \notin {"NONE", "PREVIOUS"}
  /\ \A z : Row(nccitable, a, event, z) => z = b

LEMMA NcciLeads ==
  /\ Leads("NONE", "CONNECT_B3_IND", "INCOMING")
  /\ Leads("INCOMING", "CONNECT_B3_RESP", "ALLOCATED")
  /\ Leads("OUTGOING", "CONNECT_B3_CONF_OK", "ALLOCATED")
<1>1. /\ ~NoRow(nccitable, "NONE", "CONNECT_B3_IND")
      /\ ~NoRow(nccitable, "INCOMING", "CONNECT_B3_RESP")
      /\ ~NoRow(nccitable, "OUTGOING", "CONNECT_B3_CONF_OK")
  BY NcciMoves
<1>2. ASSUME NEW z
      PROVE  /\ Row(nccitable, "NONE", "CONNECT_B3_IND", z) => z = "INCOMING"
             /\ Row(nccitable, "INCOMING", "CONNECT_B3_RESP", z) => z = "ALLOCATED"
             /\ Row(nccitable, "OUTGOING", "CONNECT_B3_CONF_OK", z) => z = "ALLOCATED"
  BY NcciRows
<1>. QED BY <1>1, <1>2 DEF Leads

Advances(s, w, u, c, x, n, t, b) == \E m : Becomes(s, u, c, x, m, t) /\ u.l = w.l /\ Enters(n, m, b)

LEMMA NcciEnters ==
  ASSUME NEW s, NEW w, NEW c \in Chan, NEW x, NEW n, NEW t, Becomes(s, w, c, x, n, t), n # Null,
         NEW a, n.state = a, NEW event, NEW b, Leads(a, event, b), NEW u \in ncci_change_state(w, c, event)
  PROVE  Advances(s, w, u, c, x, n, t, b)
<1>1. \/ u = w /\ NoRow(nccitable, n.state, event)
      \/ Row(nccitable, n.state, event, "NONE") /\ u \in n0(w, c)
      \/ \E m, z : /\ Row(nccitable, n.state, event, z) /\ z # "NONE"
                   /\ Becomes(s, u, c, x, m, t) /\ u.l = w.l
                   /\ Enters(n, m, IF z = "PREVIOUS" THEN n.oldstate ELSE z)
  BY NcciEvent
<1>2. ~NoRow(nccitable, n.state, event) /\ ~Row(nccitable, n.state, event, "NONE") /\ b # "PREVIOUS"
  BY DEF Leads
<1>3. PICK m, z : /\ Row(nccitable, n.state, event, z) /\ z # "NONE"
                  /\ Becomes(s, u, c, x, m, t) /\ u.l = w.l
                  /\ Enters(n, m, IF z = "PREVIOUS" THEN n.oldstate ELSE z)
  BY <1>1, <1>2
<1>4. z = b
  BY <1>3 DEF Leads
<1>5. Enters(n, m, b)
  BY <1>2, <1>3, <1>4
<1>. QED BY <1>3, <1>5 DEF Advances

(* CONNECT_B3_IND is accepted. *)
LEMMA GoAccepted ==
  ASSUME NEW s, NEW t, NEW p, NEW m, Handling(s, t, p, m), m.cmd = "CONNECT_B3_IND",
         NEW c, c = find_plci_by_plci(t.k, p), c # Null,
         NEW w \in ncci_change_state(new_ncci(t, c, p), c, "CONNECT_B3_IND"),
         NEW z \in send_message(w, "CONNECT_B3_RESP", p, 0),
         NEW u \in ncci_change_state(z, c, "CONNECT_B3_RESP")
  PROVE  Handles(t, u)
<1>0. ~Closes(m) /\ ~Confirmation(m) /\ Opens(m)
  BY DEF Closes, Confirmation, Opens
<1>1. PICK x, n, v : At(t, c, p, x, n, v)
  BY OwnerAt
<1>2. /\ c \in Chan /\ Becomes(t, t, c, x, n, v) /\ Report(x, n, v, t.l.up) /\ x # Null
      /\ t.k.told[c] = v /\ v \in Tolds /\ x.plci = p
  BY <1>1, HasAny
<1>3. v \in Answering /\ p \in Plci /\ p # 0
  BY <1>1, <1>2, DrvAssumption DEF Handling, At, Becomes
<1>4. PICK r : r = new_ncci(t, c, p)
  OBVIOUS
<1>5. Becomes(t, r, c, x, NewNcci(p), v) /\ r.l = t.l /\ NewNcci(p) # Null
  BY <1>2, <1>3, <1>4, PutNew
<1>6. PICK e : Becomes(t, w, c, x, e, v) /\ w.l = r.l /\ Enters(NewNcci(p), e, "INCOMING")
  <2>1. Leads(NewNcci(p).state, "CONNECT_B3_IND", "INCOMING")
    BY NcciLeads DEF NewNcci
  <2>2. w \in ncci_change_state(r, c, "CONNECT_B3_IND")
    BY <1>4
  <2>3. PICK k : k = NewNcci(p)
    OBVIOUS
  <2>4. c \in Chan /\ Becomes(t, r, c, x, k, v) /\ k # Null /\ k.state = "NONE" /\ Leads("NONE", "CONNECT_B3_IND", "INCOMING")
    BY <1>2, <1>5, <2>1, <2>3 DEF NewNcci
  <2>5. Advances(t, r, w, c, x, k, v, "INCOMING")
    BY <2>2, <2>4, NcciEnters
  <2>. QED BY <2>3, <2>5 DEF Advances
<1>7. e # Null /\ e.state = "INCOMING"
  BY <1>6, NullIsNone DEF Enters
<1>8. Becomes(t, z, c, x, e, v) /\ NoRing(w.l, z.l)
  BY <1>2, <1>6, PutMessage
<1>9. PICK f : Becomes(t, u, c, x, f, v) /\ u.l = z.l /\ Enters(e, f, "ALLOCATED")
  <2>1. Leads("INCOMING", "CONNECT_B3_RESP", "ALLOCATED")
    BY NcciLeads
  <2>2. c \in Chan /\ Becomes(t, z, c, x, e, v) /\ e # Null /\ e.state = "INCOMING"
    BY <1>2, <1>7, <1>8
  <2>3. Advances(t, z, u, c, x, e, v, "ALLOCATED")
    BY <2>1, <2>2, NcciEnters
  <2>. QED BY <2>3 DEF Advances
<1>10. /\ f # Null /\ f.ncci = p /\ f.live = TRUE /\ f.handle = 0 /\ f.acks = <<>>
       /\ f.state = "ALLOCATED"
  BY <1>6, <1>9, NullIsNone DEF Enters, NewNcci
<1>11. NoRing(t.l, u.l)
  BY <1>5, <1>6, <1>8, <1>9
<1>12. Report(x, f, v, u.l.up)
  <2>1. f # Null /\ f.live => (n # Null /\ n.live) \/ (x # Null /\ v \in Answering)
    BY <1>2, <1>3
  <2>2. Kin(x, x)
    BY KinSame
  <2>3. /\ NoRing(t.l, u.l) /\ Report(x, n, v, t.l.up) /\ x # Null
        /\ f # Null /\ f.live => (n # Null /\ n.live) \/ (x # Null /\ v \in Answering)
    BY <1>2, <1>11, <2>1
  <2>. QED BY <2>2, <2>3, ReportSteady
<1>13. ASSUME Running PROVE Lanes(u.l) /\ Elsewhere(t.l, u.l, p) /\ Connection(x, f, v, u.l)
  <2>1. /\ Taking(s, t, p, m) /\ Connection(x, n, v, s.l) /\ x # Null /\ x.plci = p
        /\ Lanes(t.l)
    BY <1>1, <1>13, TakenAt
  <2>2. Lanes(s.l) /\ Popping(s.l, t.l, p, m)
    BY <2>1 DEF Taking, Regular
  <2>3. /\ Ready(t.l, p)
        /\ t.l.data[p] = <<>> /\ \A i \in Entries(t.l.up[p]) : ~Confirmation(t.l.up[p][i])
    BY <1>0, <1>3, <2>2, PopLanes
  <2>4. Numbered(x, f, t.l)
    BY <1>3, <1>10, <2>1, <2>3, NewNumbered
  <2>5. Connection(x, n, v, t.l)
    BY <1>0, <2>1, TakenConn
  <2>6. Connection(x, f, v, t.l)
    BY <1>3, <1>10, <2>4, <2>5 DEF Connection, Carries
  <2>7. Shape(w) /\ Lanes(w.l) /\ "CONNECT_B3_RESP" \in Harmless
    BY <1>5, <1>6, <2>1 DEF Becomes, Frame, Plain, Harmless, Requests
  <2>8. Lanes(z.l) /\ Elsewhere(w.l, z.l, p) /\ Steady(w.l, z.l, p)
    BY <1>3, <2>7, HarmlessLanes
  <2>9. Lanes(u.l) /\ Elsewhere(t.l, u.l, p) /\ Steady(t.l, u.l, p)
    BY <1>5, <1>6, <1>9, <2>8
  <2>10. Connection(x, f, v, u.l)
    BY <1>3, <2>1, <2>6, <2>9, ConnSteady
  <2>. QED BY <2>9, <2>10
<1>14. Turn(t.k.told[c], v) /\ v \notin {"ringing", "rejected"}
  BY <1>2, <1>3 DEF Turn, Answering
<1>. QED BY <1>2, <1>9, <1>11, <1>12, <1>13, <1>14, HandledAt

LEMMA GoB3Ind ==
  ASSUME NEW s, NEW t, NEW p, NEW m, Handling(s, t, p, m), m.cmd = "CONNECT_B3_IND",
         NEW u \in handle_connect_b3_ind(t, p)
  PROVE  Handles(t, u)
<1>1. PICK c : c = find_plci_by_plci(t.k, p)
  OBVIOUS
<1>2. \/ u \in send_message(t, "CONNECT_B3_REJECT", p, 0)
      \/ /\ c # Null
         /\ \E w \in ncci_change_state(new_ncci(t, c, p), c, "CONNECT_B3_IND") :
              \E z \in send_message(w, "CONNECT_B3_RESP", p, 0) :
                 u \in ncci_change_state(z, c, "CONNECT_B3_RESP")
  BY <1>1 DEF handle_connect_b3_ind
<1>3. CASE u \in send_message(t, "CONNECT_B3_REJECT", p, 0)
  <2>1. ~Closes(m) /\ ~Confirmation(m) /\ "CONNECT_B3_REJECT" \in Harmless
    BY DEF Closes, Confirmation, Harmless, Requests
  <2>. QED BY <1>3, <2>1, GoSent
<1>4. CASE /\ c # Null
           /\ \E w \in ncci_change_state(new_ncci(t, c, p), c, "CONNECT_B3_IND") :
                \E z \in send_message(w, "CONNECT_B3_RESP", p, 0) :
                   u \in ncci_change_state(z, c, "CONNECT_B3_RESP")
  BY <1>1, <1>4, GoAccepted
<1>. QED BY <1>2, <1>3, <1>4

(* The channel c of the connection p has the live NCCI n. *)
Meets(t, c, p, x, n, v) ==
  /\ At(t, c, p, x, n, v) /\ n # Null /\ n.live = TRUE /\ v \in Answering
  /\ Running => x.state \in CallStates \ {"OUTGOING"}

(* A message of the connection p is handled of which the NCCI n has to know. *)
Serving(s, t, p, m, c, x, n, v) ==
  Handling(s, t, p, m) /\ c = find_plci_by_plci(t.k, p) /\ c # Null /\ Meets(t, c, p, x, n, v)

LEMMA NcciAt ==
  ASSUME NEW s, NEW t, NEW p, NEW m, Handling(s, t, p, m), NEW c, c # Null,
         c = find_ncci(t.k, p) \/ c = find_ncci_by_msgid(t.k, p)
  PROVE  \E x, n, v : Serving(s, t, p, m, c, x, n, v) /\ (c = find_ncci(t.k, p) => n.ncci = p)
<1>1. /\ c = find_plci_by_plci(t.k, p) /\ HasNcci(t.k, c)
      /\ c = find_ncci(t.k, p) => t.k.nccip[c].ncci = p
  BY DEF find_ncci, find_ncci_by_msgid
<1>2. PICK x, n, v : At(t, c, p, x, n, v) /\ (Running => x.state \in CallStates \ {"OUTGOING"})
  BY <1>1, OwnerAt
<1>3. n = t.k.nccip[c] /\ n \in Nccis \cup {Null} /\ Report(x, n, v, t.l.up)
  BY <1>2 DEF At, Becomes, Frame, Plain
<1>4. n # Null /\ n.live = TRUE
  BY <1>1, <1>3 DEF HasNcci, Nccis
<1>5. v \in Answering
  BY <1>3, <1>4 DEF Report
<1>6. Meets(t, c, p, x, n, v)
  BY <1>2, <1>4, <1>5 DEF Meets
<1>. QED BY <1>1, <1>3, <1>6 DEF Serving

(* While the driver serves the device, w has only a message sent for p, and *)
(* the NCCI e suits the line.                                              *)
Passing(t, w, p) == Running => Lanes(w.l) /\ Elsewhere(t.l, w.l, p)
Sustains(x, e, v, l) == Running => Carries(x, e, l) /\ (v = "up" => e # Null /\ e.ncci # 0)

(* The B3 connection is given up. *)
LEMMA GoOver ==
  ASSUME NEW s, NEW t, NEW p, NEW m, NEW c, NEW x, NEW n, NEW v, Serving(s, t, p, m, c, x, n, v),
         NEW w, NEW e, Becomes(t, w, c, x, e, v), NoRing(t.l, w.l), Passing(t, w, p),
         NEW u \in n0(w, c)
  PROVE  Handles(t, u)
<1>0. Handling(s, t, p, m) /\ c = find_plci_by_plci(t.k, p) /\ c # Null /\ Meets(t, c, p, x, n, v)
  BY DEF Serving
<1>1. /\ c \in Chan /\ Report(x, n, v, t.l.up) /\ x # Null
      /\ t.k.told[c] = v /\ v \in Tolds /\ x.plci = p /\ v \in Answering
  BY <1>0, HasAny DEF Meets
<1>2. PICK h : h = Heard(v, "connected")
  OBVIOUS
<1>3. /\ \E z \in send_message(w, "DISCONNECT_REQ", x.plci, 0) : u.l = z.l
      /\ NoRing(w.l, u.l)
      /\ \E y \in Records : Becomes(t, u, c, y, Null, Heard(v, "connected")) /\ Kin(x, y)
  BY <1>1, B3Ends
<1>4. PICK y \in Records : Becomes(t, u, c, y, Null, h) /\ Kin(x, y)
  BY <1>2, <1>3
<1>5. y # Null /\ NoRing(t.l, u.l)
  BY <1>3, NullIsNone, NoRingTwice
<1>6. Report(y, Null, h, u.l.up)
  <2>1. v # "ringing"
    BY <1>1 DEF Answering
  <2>. QED BY <1>1, <1>2, <1>4, <1>5, <2>1, ReportConnected
<1>7. Turn(v, h) /\ h \in {"connected", "discarded"}
  BY <1>1, <1>2, TurnConnected DEF Answering
<1>8. ASSUME Running PROVE Lanes(u.l) /\ Elsewhere(t.l, u.l, p) /\ Connection(y, Null, h, u.l)
  <2>1. PICK z \in send_message(w, "DISCONNECT_REQ", p, 0) : u.l = z.l
    BY <1>1, <1>3
  <2>2. Lanes(w.l) /\ Elsewhere(t.l, w.l, p) /\ Shape(w) /\ p \in Plci /\ "DISCONNECT_REQ" \in Harmless
    BY <1>0, <1>8 DEF Passing, Becomes, Frame, Plain, Handling, Harmless, Requests
  <2>3. Lanes(u.l) /\ Elsewhere(w.l, u.l, p)
    BY <2>1, <2>2, HarmlessLanes
  <2>4. Elsewhere(t.l, u.l, p)
    BY <2>2, <2>3, ElsewhereTwice
  <2>5. y.state # "OUTGOING"
    BY <1>0, <1>4, <1>8 DEF Meets, Kin
  <2>6. Connection(y, Null, h, u.l)
    BY <1>7, <2>5 DEF Connection, Carries, Answering
  <2>. QED BY <2>3, <2>4, <2>6
<1>9. Turn(t.k.told[c], h) /\ h \notin {"ringing", "rejected"}
  BY <1>1, <1>7
<1>. QED BY <1>0, <1>1, <1>4, <1>5, <1>6, <1>8, <1>9, HandledAt

(* The NCCI becomes e, and nothing else happens. *)
LEMMA GoNcci ==
  ASSUME NEW s, NEW t, NEW p, NEW m, NEW c, NEW x, NEW n, NEW v, Serving(s, t, p, m, c, x, n, v),
         NEW u, NEW e, Becomes(t, u, c, x, e, v), u.l = t.l, Sustains(x, e, v, t.l)
  PROVE  Handles(t, u)
<1>0. Handling(s, t, p, m) /\ c = find_plci_by_plci(t.k, p) /\ c # Null /\ Meets(t, c, p, x, n, v)
  BY DEF Serving
<1>1. /\ c \in Chan /\ Report(x, n, v, t.l.up) /\ x # Null
      /\ t.k.told[c] = v /\ v \in Answering
  BY <1>0, HasAny DEF Meets
<1>2. NoRing(t.l, u.l) /\ Kin(x, x)
  BY NoRingSame, KinSame
<1>3. Report(x, e, v, u.l.up)
  BY <1>1 DEF Report, Answering
<1>4. ASSUME Running PROVE Lanes(u.l) /\ Elsewhere(t.l, u.l, p) /\ Connection(x, e, v, u.l)
  <2>1. /\ Taking(s, t, p, m) /\ Connection(x, n, v, s.l) /\ x # Null /\ x.plci = p
        /\ Lanes(t.l) /\ Elsewhere(t.l, t.l, p)
    BY <1>0, <1>4, TakenAt DEF Meets
  <2>2. t.l.d = s.l.d
    BY <2>1 DEF Taking, Popping
  <2>3. Connection(x, e, v, t.l)
    BY <1>4, <2>1, <2>2 DEF Connection, Sustains
  <2>. QED BY <2>1, <2>3
<1>5. Turn(t.k.told[c], v) /\ v \notin {"ringing", "rejected"}
  BY <1>1 DEF Turn, Answering
<1>6. NoRing(t.l, u.l)
  BY <1>2
<1>7. Turn(t.k.told[c], v)
  BY <1>5
<1>8. v \in {"ringing", "rejected"} => c \in t.k.incoming /\ x # Null
  BY <1>5
<1>9. Running => Lanes(u.l) /\ Elsewhere(t.l, u.l, p) /\ Connection(x, e, v, u.l)
  BY <1>4
<1>10. Handling(s, t, p, m) /\ c \in Chan /\ c = find_plci_by_plci(t.k, p) /\ c # Null
  BY <1>0, <1>1
<1>. HIDE DEF Turn, Report, Handles, Becomes, Connection, Lanes, Elsewhere, NoRing
<1>. QED BY <1>3, <1>6, <1>7, <1>8, <1>9, <1>10, HandledAt

(* What became of the connection of the channel. *)
LEMMA MeetsTaken ==
  ASSUME NEW s, NEW t, NEW p, NEW m, NEW c, NEW x, NEW n, NEW v, Serving(s, t, p, m, c, x, n, v), Running
  PROVE  /\ Taking(s, t, p, m) /\ Lanes(t.l) /\ Elsewhere(t.l, t.l, p)
         /\ Lanes(s.l) /\ Popping(s.l, t.l, p, m) /\ p \in Plci /\ p # 0
         /\ x # Null /\ x.plci = p
         /\ Unnumbered(n) \/ (Numbered(x, n, s.l) /\ n.ncci = p)
         /\ v = "up" => n.ncci # 0
         /\ Opens(m) => Unnumbered(n)
         /\ ~Closes(m) /\ ~Confirmation(m) => Unnumbered(n) \/ (Numbered(x, n, t.l) /\ n.ncci = p)
<1>0. Handling(s, t, p, m)
  BY DEF Serving
<1>1. At(t, c, p, x, n, v) /\ n # Null
  BY DEF Serving, Meets
<1>2. /\ Taking(s, t, p, m) /\ Connection(x, n, v, s.l) /\ x # Null /\ x.plci = p
      /\ Lanes(t.l) /\ Elsewhere(t.l, t.l, p)
  BY <1>0, <1>1, TakenAt
<1>3. Lanes(s.l) /\ Popping(s.l, t.l, p, m) /\ p \in Plci /\ p # 0
  BY <1>2, DrvAssumption DEF Taking, Regular
<1>4. Unnumbered(n) \/ (Numbered(x, n, s.l) /\ n.ncci = p)
  BY <1>1, <1>2 DEF Connection, Carries, Numbered
<1>5. Opens(m) => Unnumbered(n)
  BY <1>1, <1>2, TakenConn
<1>6. ~Closes(m) /\ ~Confirmation(m) => Connection(x, n, v, t.l)
  BY <1>2, TakenConn
<1>7. ~Closes(m) /\ ~Confirmation(m) => Unnumbered(n) \/ (Numbered(x, n, t.l) /\ n.ncci = p)
  BY <1>1, <1>2, <1>6 DEF Connection, Carries, Numbered
<1>8. v = "up" => n.ncci # 0
  BY <1>2 DEF Connection
<1>. QED BY <1>2, <1>3, <1>4, <1>5, <1>7, <1>8

(* CONNECT_B3_CONF of a live NCCI, which gets its number. *)
Renumbered(n, e, p) ==
  /\ e \in Nccis /\ e.ncci = p /\ e.live = n.live /\ e.state = n.state
  /\ e.oldstate = n.oldstate /\ e.handle = n.handle /\ e.acks = n.acks
LEMMA PutRenumbered ==
  ASSUME NEW t, NEW c \in Chan, NEW x, NEW n, NEW v, Becomes(t, t, c, x, n, v), n # Null,
         NEW p \in Plci, NEW w, w = [t EXCEPT !.k.nccip[c].ncci = p]
  PROVE  \E e : Becomes(t, w, c, x, e, v) /\ w.l = t.l /\ Renumbered(n, e, p)
<1>1. n \in Nccis /\ t.k.nccip[c] = n
  BY Parts
<1>2. PICK e : e = [n EXCEPT !.ncci = p]
  OBVIOUS
<1>3. e \in Nccis /\ Renumbered(n, e, p)
  BY <1>1, <1>2 DEF Nccis, Renumbered
<1>4. PICK z : z = [t EXCEPT !.k.nccip[c] = e]
  OBVIOUS
<1>5. w = z
  BY <1>1, <1>2, <1>4
<1>6. Becomes(t, z, c, x, e, v) /\ z.l = t.l
  BY <1>3, <1>4, PutNcci
<1>. QED BY <1>3, <1>5, <1>6

LEMMA GoConfirmed ==
  ASSUME NEW s, NEW t, NEW p, NEW m, NEW c, NEW x, NEW n, NEW v, Serving(s, t, p, m, c, x, n, v),
         m.cmd = "CONNECT_B3_CONF",
         NEW event, m.ok => event = "CONNECT_B3_CONF_OK", ~m.ok => event = "CONNECT_B3_CONF_ERROR",
         NEW w, NEW e, Becomes(t, w, c, x, e, v), w.l = t.l, Renumbered(n, e, p),
         NEW u \in ncci_change_state(w, c, event)
  PROVE  Handles(t, u)
<1>0. ~Closes(m) /\ ~Confirmation(m) /\ (m.ok => Opens(m))
  BY DEF Closes, Confirmation, Opens
<1>1. c \in Chan /\ x # Null /\ n # Null /\ n.live = TRUE /\ p \in Plci /\ e # Null
  BY HasAny, NullIsNone DEF Serving, Meets, Handling, Renumbered
<1>2. ASSUME Running
      PROVE  /\ Lanes(t.l) /\ Elsewhere(t.l, t.l, p) /\ p # 0
             /\ Lanes(s.l) /\ Popping(s.l, t.l, p, m) /\ x # Null /\ x.plci = p
             /\ m.ok => Unnumbered(n)
             /\ Unnumbered(n) \/ (Numbered(x, n, t.l) /\ n.ncci = p)
  BY <1>0, <1>2, MeetsTaken
<1>3. \/ u = w /\ NoRow(nccitable, e.state, event)
      \/ Row(nccitable, e.state, event, "NONE") /\ u \in n0(w, c)
      \/ \E f, z : /\ Row(nccitable, e.state, event, z) /\ z # "NONE"
                   /\ Becomes(t, u, c, x, f, v) /\ u.l = w.l
                   /\ Enters(e, f, IF z = "PREVIOUS" THEN e.oldstate ELSE z)
  BY <1>1, NcciEvent
<1>4. CASE u = w /\ NoRow(nccitable, e.state, event)
  <2>1. n.state # "OUTGOING"
    BY <1>4, NcciMoves DEF Renumbered
  <2>2. ASSUME Running PROVE Carries(x, e, t.l) /\ (v = "up" => e # Null /\ e.ncci # 0)
    <3>1. Numbered(x, n, t.l) /\ p # 0
      BY <1>2, <2>1, <2>2 DEF Unnumbered
    <3>2. Numbered(x, e, t.l)
      <4>1. n.ncci = p
        BY <1>2, <2>1, <2>2 DEF Unnumbered
      <4>. QED BY <3>1, <4>1 DEF Numbered, Renumbered
    <3>. QED BY <1>1, <3>1, <3>2 DEF Carries, Renumbered
  <2>3. Sustains(x, e, v, t.l)
    BY <2>2 DEF Sustains
  <2>. QED BY <1>4, <2>3, GoNcci
<1>5. CASE u \in n0(w, c)
  <2>1. Passing(t, w, p)
    BY <1>2 DEF Passing
  <2>2. NoRing(t.l, w.l)
    BY NoRingSame
  <2>. QED BY <1>5, <2>1, <2>2, GoOver
<1>6. ASSUME NEW f, NEW z, Row(nccitable, e.state, event, z), z # "NONE",
             Becomes(t, u, c, x, f, v), u.l = w.l,
             Enters(e, f, IF z = "PREVIOUS" THEN e.oldstate ELSE z)
      PROVE  Handles(t, u)
  <2>1. m.ok /\ event = "CONNECT_B3_CONF_OK"
    BY <1>6, NcciRows
  <2>2. ASSUME Running PROVE Carries(x, f, t.l) /\ (v = "up" => f # Null /\ f.ncci # 0)
    <3>1. Unnumbered(n) /\ Opens(m) /\ p # 0
      BY <1>0, <1>2, <2>1, <2>2
    <3>2. z = "ALLOCATED"
      BY <1>6, <2>1, <3>1, NcciRows DEF Unnumbered, Renumbered
    <3>3. Enters(e, f, "ALLOCATED")
      BY <1>6, <3>2
    <3>4. /\ f # Null /\ f.ncci = p /\ f.live = TRUE /\ f.state = "ALLOCATED"
          /\ f.handle = 0 /\ f.acks = <<>>
      BY <1>1, <3>1, <3>3, NullIsNone DEF Enters, Unnumbered, Renumbered
    <3>5. /\ Ready(t.l, p)
          /\ t.l.data[p] = <<>> /\ \A i \in Entries(t.l.up[p]) : ~Confirmation(t.l.up[p][i])
      BY <1>1, <1>2, <2>2, <3>1, PopLanes
    <3>6. Numbered(x, f, t.l)
      BY <1>1, <1>2, <2>2, <3>4, <3>5, NewNumbered
    <3>. QED BY <3>1, <3>4, <3>6 DEF Carries
  <2>3. Sustains(x, f, v, t.l) /\ u.l = t.l
    BY <1>6, <2>2 DEF Sustains
  <2>. QED BY <1>6, <2>3, GoNcci
<1>. QED BY <1>3, <1>4, <1>5, <1>6

LEMMA GoB3Conf ==
  ASSUME NEW s, NEW t, NEW p, NEW m, Handling(s, t, p, m), m.cmd = "CONNECT_B3_CONF",
         NEW u \in handle_connect_b3_conf(t, p, m)
  PROVE  Handles(t, u)
<1>1. PICK c : c = find_ncci_by_msgid(t.k, p)
  OBVIOUS
<1>2. PICK w : w = [t EXCEPT !.k.nccip[c].ncci = p]
  OBVIOUS
<1>3. \/ c = Null /\ u = t
      \/ c # Null /\ m.ok /\ u \in ncci_change_state(w, c, "CONNECT_B3_CONF_OK")
      \/ c # Null /\ ~m.ok /\ u \in ncci_change_state(w, c, "CONNECT_B3_CONF_ERROR")
  BY <1>1, <1>2 DEF handle_connect_b3_conf
<1>4. CASE u = t
  BY <1>4, HandledSame DEF Closes, Confirmation
<1>5. ASSUME c # Null, NEW event, m.ok => event = "CONNECT_B3_CONF_OK",
             ~m.ok => event = "CONNECT_B3_CONF_ERROR", u \in ncci_change_state(w, c, event)
      PROVE  Handles(t, u)
  <2>1. PICK x, n, v : Serving(s, t, p, m, c, x, n, v)
    BY <1>1, <1>5, NcciAt
  <2>2. c \in Chan /\ Becomes(t, t, c, x, n, v) /\ n # Null /\ p \in Plci
    BY <2>1, HasAny DEF Serving, Meets, Handling
  <2>3. PICK e : Becomes(t, w, c, x, e, v) /\ w.l = t.l /\ Renumbered(n, e, p)
    BY <1>2, <2>2, PutRenumbered
  <2>. QED BY <1>5, <2>1, <2>3, GoConfirmed
<1>. QED BY <1>3, <1>4, <1>5

(* CONNECT_B3_ACTIVE_IND. *)
LEMMA GoUp ==
  ASSUME NEW s, NEW t, NEW p, NEW m, NEW c, NEW x, NEW n, NEW v, Serving(s, t, p, m, c, x, n, v),
         ~Closes(m), ~Confirmation(m), n.ncci = p,
         NEW w \in ncci_change_state(t, c, "CONNECT_B3_ACTIVE_IND"), NEW u, u = Tell(w, c, "up")
  PROVE  Handles(t, u)
<1>1. /\ c \in Chan /\ Becomes(t, t, c, x, n, v) /\ x # Null /\ n # Null /\ p \in Plci
      /\ Report(x, n, v, t.l.up) /\ v \in Answering /\ t.k.told[c] = v /\ x.plci = p
  BY HasAny DEF Serving, Meets, Handling
<1>2. PICK e : /\ Becomes(t, w, c, x, e, v) /\ w.l = t.l
               /\ e = n \/ (Enters(n, e, "ACTIVE") /\ n.state = "ALLOCATED")
  <2>1. \/ w = t /\ NoRow(nccitable, n.state, "CONNECT_B3_ACTIVE_IND")
        \/ Row(nccitable, n.state, "CONNECT_B3_ACTIVE_IND", "NONE") /\ w \in n0(t, c)
        \/ \E f, z : /\ Row(nccitable, n.state, "CONNECT_B3_ACTIVE_IND", z) /\ z # "NONE"
                     /\ Becomes(t, w, c, x, f, v) /\ w.l = t.l
                     /\ Enters(n, f, IF z = "PREVIOUS" THEN n.oldstate ELSE z)
    BY <1>1, NcciEvent
  <2>2. ASSUME NEW z, Row(nccitable, n.state, "CONNECT_B3_ACTIVE_IND", z)
        PROVE  z = "ACTIVE" /\ n.state = "ALLOCATED"
    BY <2>2, NcciRows
  <2>3. CASE w = t
    BY <1>1, <2>3
  <2>4. CASE w # t
    <3>1. ~Row(nccitable, n.state, "CONNECT_B3_ACTIVE_IND", "NONE")
      BY <2>2
    <3>2. PICK f, z : /\ Row(nccitable, n.state, "CONNECT_B3_ACTIVE_IND", z)
                      /\ Becomes(t, w, c, x, f, v) /\ w.l = t.l
                      /\ Enters(n, f, IF z = "PREVIOUS" THEN n.oldstate ELSE z)
      BY <2>1, <2>4, <3>1
    <3>3. z = "ACTIVE" /\ n.state = "ALLOCATED"
      BY <2>2, <3>2
    <3>. QED BY <3>2, <3>3
  <2>. QED BY <2>3, <2>4
<1>3. PICK h : h = Heard(v, "up")
  OBVIOUS
<1>4. Becomes(t, u, c, x, e, h) /\ u.l = t.l
  <2>1. "up" \in Tolds
    BY DEF Tolds
  <2>2. PICK r : r = Tell(w, c, "up")
    OBVIOUS
  <2>3. Becomes(t, r, c, x, e, Heard(v, "up")) /\ r.l = w.l
    BY <1>1, <1>2, <2>1, <2>2, PutTold
  <2>. QED BY <1>2, <1>3, <2>2, <2>3
<1>5. h \in {"up", "discarded"} /\ (h = "discarded" => v = "discarded") /\ (v = "discarded" => h = v)
  BY <1>3 DEF Heard
<1>6. Turn(t.k.told[c], h) /\ h \notin {"ringing", "rejected"}
  BY <1>1, <1>5 DEF Turn, Answering
<1>7. Report(x, e, h, u.l.up)
  <2>1. x.state = "INCOMING" => h = "discarded"
    BY <1>1, <1>5 DEF Report, Answering
  <2>. QED BY <1>1, <1>5, <2>1 DEF Report, Answering
<1>8. ASSUME Running PROVE Lanes(u.l) /\ Elsewhere(t.l, u.l, p) /\ Connection(x, e, h, u.l)
  <2>1. /\ Lanes(t.l) /\ Elsewhere(t.l, t.l, p) /\ p # 0
        /\ Unnumbered(n) \/ (Numbered(x, n, t.l) /\ n.ncci = p)
    BY <1>8, MeetsTaken
  <2>2. Numbered(x, n, t.l)
    BY <2>1 DEF Unnumbered
  <2>3. Numbered(x, e, t.l) /\ e.ncci = p
    BY <1>2, <2>2 DEF Numbered, Enters, Linkable
  <2>4. e # Null
    BY <1>1, <1>2, NullIsNone DEF Enters
  <2>5. x.state # "OUTGOING"
    BY <1>8 DEF Serving, Meets
  <2>6. Connection(x, e, h, u.l)
    BY <1>4, <1>5, <2>1, <2>3, <2>4, <2>5 DEF Connection, Carries, Answering
  <2>. QED BY <1>4, <2>1, <2>6
<1>9. Handling(s, t, p, m) /\ c = find_plci_by_plci(t.k, p) /\ c # Null /\ NoRing(t.l, u.l)
  BY <1>4, NoRingSame DEF Serving
<1>. QED BY <1>1, <1>4, <1>6, <1>7, <1>8, <1>9, HandledAt

LEMMA GoB3Active ==
  ASSUME NEW s, NEW t, NEW p, NEW m, Handling(s, t, p, m), m.cmd = "CONNECT_B3_ACTIVE_IND",
         NEW u \in handle_connect_b3_active_ind(t, p)
  PROVE  Handles(t, u)
<1>1. PICK c : c = find_ncci(t.k, p)
  OBVIOUS
<1>2. \/ c = Null /\ u = t
      \/ c # Null /\ \E w \in ncci_change_state(t, c, "CONNECT_B3_ACTIVE_IND") : u = Tell(w, c, "up")
  BY <1>1 DEF handle_connect_b3_active_ind
<1>3. ~Closes(m) /\ ~Confirmation(m)
  BY DEF Closes, Confirmation
<1>4. CASE u = t
  BY <1>3, <1>4, HandledSame
<1>5. CASE c # Null /\ \E w \in ncci_change_state(t, c, "CONNECT_B3_ACTIVE_IND") : u = Tell(w, c, "up")
  <2>1. \E x, n, v : Serving(s, t, p, m, c, x, n, v) /\ n.ncci = p
    BY <1>1, <1>5, NcciAt
  <2>. QED BY <1>3, <1>5, <2>1, GoUp
<1>. QED BY <1>2, <1>4, <1>5

(* The handler does nothing for a connection that has no NCCI. *)
LEMMA HandledIdle ==
  ASSUME NEW s, NEW t, NEW p, NEW m, Handling(s, t, p, m), find_ncci(t.k, p) = Null
  PROVE  Handles(t, t)
<1>1. PICK c : c = find_plci_by_plci(t.k, p)
  OBVIOUS
<1>2. CASE c = Null
  <2>1. Running => Lanes(t.l) /\ Elsewhere(t.l, t.l, p)
    <3>1. SUFFICES ASSUME Running PROVE Lanes(t.l)
      BY SameLine
    <3>. QED BY <3>1, PopLanes DEF Handling, Taking, Regular
  <2>. QED BY <1>1, <1>2, <2>1, HandledNone, NoRingSame DEF Handling
<1>3. CASE c # Null
  <2>1. PICK x, n, v : At(t, c, p, x, n, v)
    BY <1>1, <1>3, OwnerAt
  <2>2. /\ c \in Chan /\ Becomes(t, t, c, x, n, v) /\ Report(x, n, v, t.l.up) /\ x # Null
        /\ t.k.told[c] = v /\ t.k.nccip[c] = n
        /\ v \in {"ringing", "rejected"} => c \in t.k.incoming
    BY <2>1 DEF At, Becomes
  <2>3. ~(HasNcci(t.k, c) /\ n.ncci = p)
    BY <1>1, <1>3, <2>2 DEF find_ncci
  <2>4. ASSUME Running PROVE Lanes(t.l) /\ Elsewhere(t.l, t.l, p) /\ Connection(x, n, v, t.l)
    <3>1. /\ Taking(s, t, p, m) /\ Connection(x, n, v, s.l) /\ x # Null /\ x.plci = p
          /\ Lanes(t.l) /\ Elsewhere(t.l, t.l, p)
      BY <2>1, <2>4, TakenAt
    <3>2. n = Null \/ Unnumbered(n)
      <4>1. ASSUME n # Null, Numbered(x, n, s.l) PROVE FALSE
        <5>1. n.live = TRUE /\ n.ncci = p
          BY <3>1, <4>1 DEF Numbered
        <5>. QED BY <2>2, <2>3, <4>1, <5>1 DEF HasNcci
      <4>. QED BY <3>1, <4>1 DEF Connection, Carries
    <3>3. Connection(x, n, v, t.l)
      BY <3>1, <3>2, TakenConn
    <3>. QED BY <3>1, <3>3
  <2>5. Turn(t.k.told[c], v) /\ NoRing(t.l, t.l)
    BY <2>2, NoRingSame DEF Turn
  <2>. QED BY <1>1, <1>3, <2>2, <2>4, <2>5, HandledAt
<1>. QED BY <1>2, <1>3

(* DISCONNECT_B3_IND: the NCCI is given up. *)
LEMMA GoClosed ==
  ASSUME NEW s, NEW t, NEW p, NEW m, NEW c, NEW x, NEW n, NEW v, Serving(s, t, p, m, c, x, n, v),
         Closes(m), n.ncci = p,
         NEW w, NEW e, Becomes(t, w, c, x, e, v), e # Null, w.l = t.l,
         (e = n /\ NoRow(nccitable, n.state, "DISCONNECT_B3_IND")) \/ e.state = "DISCONNECTED",
         NEW z \in send_message(w, "DISCONNECT_B3_RESP", p, 0),
         NEW u \in ncci_change_state(z, c, "DISCONNECT_B3_RESP")
  PROVE  Handles(t, u)
<1>1. /\ c \in Chan /\ x # Null /\ n # Null /\ p \in Plci
      /\ Report(x, n, v, t.l.up) /\ v \in Answering /\ t.k.told[c] = v
  BY HasAny DEF Serving, Meets, Handling
<1>2. Becomes(t, z, c, x, e, v) /\ NoRing(w.l, z.l) /\ Shape(w)
  BY <1>1, PutMessage, Parts
<1>3. NoRing(t.l, z.l)
  BY <1>2
<1>4. ASSUME Running PROVE Lanes(z.l) /\ Elsewhere(t.l, z.l, p)
  <2>1. Lanes(t.l) /\ Lanes(s.l) /\ Popping(s.l, t.l, p, m)
    BY <1>4, MeetsTaken
  <2>2. ~HasFlow(t.l.up[p])
    BY <1>1, <2>1, PopLanes
  <2>3. Lanes(w.l) /\ ~HasFlow(w.l.up[p]) /\ "DISCONNECT_B3_RESP" \in Requests
        /\ "DISCONNECT_B3_RESP" \notin {"CONNECT_RESP", "CONNECT_B3_REQ"}
    BY <2>1, <2>2 DEF Requests
  <2>4. Lanes(z.l) /\ Elsewhere(w.l, z.l, p)
    BY <1>1, <1>2, <2>3, SendLanes
  <2>. QED BY <2>4
<1>5. \/ u = z /\ NoRow(nccitable, e.state, "DISCONNECT_B3_RESP")
      \/ Row(nccitable, e.state, "DISCONNECT_B3_RESP", "NONE") /\ u \in n0(z, c)
      \/ \E f, b : /\ Row(nccitable, e.state, "DISCONNECT_B3_RESP", b) /\ b # "NONE"
                   /\ Becomes(t, u, c, x, f, v) /\ u.l = z.l
                   /\ Enters(e, f, IF b = "PREVIOUS" THEN e.oldstate ELSE b)
  BY <1>1, <1>2, NcciEvent
<1>6. (u = z /\ NoRow(nccitable, e.state, "DISCONNECT_B3_RESP")) \/ u \in n0(z, c)
  <2>1. \A b : Row(nccitable, e.state, "DISCONNECT_B3_RESP", b) => b = "NONE"
    BY NcciRows
  <2>. QED BY <1>5, <2>1
<1>7. CASE u \in n0(z, c)
  <2>1. Passing(t, z, p)
    BY <1>4 DEF Passing
  <2>. QED BY <1>2, <1>3, <1>7, <2>1, GoOver
<1>8. CASE u = z /\ NoRow(nccitable, e.state, "DISCONNECT_B3_RESP")
  <2>1. e = n /\ NoRow(nccitable, n.state, "DISCONNECT_B3_IND")
    BY <1>8, NcciMoves
  <2>2. ~Running
    <3>1. SUFFICES ASSUME Running PROVE FALSE
      OBVIOUS
    <3>2. p # 0 /\ (Unnumbered(n) \/ Numbered(x, n, s.l))
      BY <3>1, MeetsTaken
    <3>3. n.state \in {"ALLOCATED", "ACTIVE", "DISCONNECTING"}
      BY <3>2 DEF Unnumbered, Numbered, Linkable
    <3>. QED BY <2>1, <3>3, NcciMoves
  <2>3. Report(x, e, v, u.l.up)
    BY <1>1 DEF Report, Answering
  <2>4. Turn(t.k.told[c], v) /\ v \notin {"ringing", "rejected"}
    BY <1>1 DEF Turn, Answering
  <2>5. Handling(s, t, p, m) /\ c = find_plci_by_plci(t.k, p) /\ c # Null
    BY DEF Serving
  <2>6. Becomes(t, u, c, x, e, v) /\ NoRing(t.l, u.l)
    BY <1>2, <1>3, <1>8
  <2>. QED BY <1>1, <2>2, <2>3, <2>4, <2>5, <2>6, HandledAt
<1>. QED BY <1>6, <1>7, <1>8

LEMMA GoB3Over ==
  ASSUME NEW s, NEW t, NEW p, NEW m, Handling(s, t, p, m), m.cmd = "DISCONNECT_B3_IND",
         NEW u \in handle_disconnect_b3_ind(t, p)
  PROVE  Handles(t, u)
<1>1. PICK c : c = find_ncci(t.k, p)
  OBVIOUS
<1>2. \/ c = Null /\ u = t
      \/ c # Null /\ \E w \in ncci_change_state(Disconnecting(t, c), c, "DISCONNECT_B3_IND") :
                       \E z \in send_message(w, "DISCONNECT_B3_RESP", p, 0) :
                         u \in ncci_change_state(z, c, "DISCONNECT_B3_RESP")
  BY <1>1 DEF handle_disconnect_b3_ind
<1>3. CASE c = Null /\ u = t
  BY <1>1, <1>3, HandledIdle
<1>4. ASSUME c # Null, NEW r, r = Disconnecting(t, c),
             NEW w \in ncci_change_state(r, c, "DISCONNECT_B3_IND"),
             NEW z \in send_message(w, "DISCONNECT_B3_RESP", p, 0),
             u \in ncci_change_state(z, c, "DISCONNECT_B3_RESP")
      PROVE  Handles(t, u)
  <2>1. PICK x, n, v : Serving(s, t, p, m, c, x, n, v) /\ n.ncci = p
    BY <1>1, <1>4, NcciAt
  <2>2. c \in Chan /\ Becomes(t, t, c, x, n, v) /\ n # Null
    BY <2>1, HasAny DEF Serving, Meets
  <2>3. Becomes(t, r, c, x, n, v) /\ r.l = t.l
    BY <1>4, <2>2, PutDisconnecting
  <2>4. \/ w = r /\ NoRow(nccitable, n.state, "DISCONNECT_B3_IND")
        \/ Row(nccitable, n.state, "DISCONNECT_B3_IND", "NONE") /\ w \in n0(r, c)
        \/ \E f, b : /\ Row(nccitable, n.state, "DISCONNECT_B3_IND", b) /\ b # "NONE"
                     /\ Becomes(t, w, c, x, f, v) /\ w.l = r.l
                     /\ Enters(n, f, IF b = "PREVIOUS" THEN n.oldstate ELSE b)
    BY <1>4, <2>2, <2>3, NcciEvent
  <2>5. \A b : Row(nccitable, n.state, "DISCONNECT_B3_IND", b) => b = "DISCONNECTED"
    BY NcciRows
  <2>6. \E e : /\ Becomes(t, w, c, x, e, v) /\ e # Null /\ w.l = t.l
               /\ (e = n /\ NoRow(nccitable, n.state, "DISCONNECT_B3_IND")) \/ e.state = "DISCONNECTED"
    BY <2>2, <2>3, <2>4, <2>5, NullIsNone DEF Enters
  <2>7. Closes(m)
    BY DEF Closes
  <2>8. PICK e : /\ Becomes(t, w, c, x, e, v) /\ e # Null /\ w.l = t.l
                 /\ (e = n /\ NoRow(nccitable, n.state, "DISCONNECT_B3_IND")) \/ e.state = "DISCONNECTED"
    BY <2>6
  <2>. QED BY <1>4, <2>1, <2>7, <2>8, GoClosed
<1>. QED BY <1>2, <1>3, <1>4

(* DISCONNECT_B3_CONF: a refused request is taken back. *)
LEMMA GoRefused ==
  ASSUME NEW s, NEW t, NEW p, NEW m, NEW c, NEW x, NEW n, NEW v, Serving(s, t, p, m, c, x, n, v),
         m.cmd = "DISCONNECT_B3_CONF", n.ncci = p,
         NEW u \in ncci_change_state(t, c, "DISCONNECT_B3_CONF_ERROR")
  PROVE  Handles(t, u)
<1>0. ~Closes(m) /\ ~Confirmation(m)
  BY DEF Closes, Confirmation
<1>1. /\ c \in Chan /\ Becomes(t, t, c, x, n, v) /\ x # Null /\ n # Null /\ p \in Plci
      /\ Handling(s, t, p, m)
  BY HasAny DEF Serving, Meets, Handling
<1>2. \/ u = t /\ NoRow(nccitable, n.state, "DISCONNECT_B3_CONF_ERROR")
      \/ Row(nccitable, n.state, "DISCONNECT_B3_CONF_ERROR", "NONE") /\ u \in n0(t, c)
      \/ \E f, b : /\ Row(nccitable, n.state, "DISCONNECT_B3_CONF_ERROR", b) /\ b # "NONE"
                   /\ Becomes(t, u, c, x, f, v) /\ u.l = t.l
                   /\ Enters(n, f, IF b = "PREVIOUS" THEN n.oldstate ELSE b)
  BY <1>1, NcciEvent
<1>3. \A b : Row(nccitable, n.state, "DISCONNECT_B3_CONF_ERROR", b) =>
               b = "PREVIOUS" /\ n.state = "DISCONNECTING"
  BY NcciRows
<1>4. CASE u = t
  BY <1>0, <1>1, <1>4, HandledSame
<1>5. CASE u # t
  <2>1. n.state = "DISCONNECTING"
    BY <1>2, <1>3, <1>5
  <2>2. PICK f : Becomes(t, u, c, x, f, v) /\ u.l = t.l /\ Enters(n, f, n.oldstate)
    BY <1>2, <1>3, <1>5
  <2>3. f # Null
    BY <2>2, NullIsNone DEF Enters
  <2>4. ASSUME Running PROVE Carries(x, f, t.l) /\ (v = "up" => f # Null /\ f.ncci # 0)
    <3>1. p # 0 /\ (Unnumbered(n) \/ Numbered(x, n, t.l))
      BY <1>0, <2>4, MeetsTaken
    <3>2. Numbered(x, n, t.l) /\ n.oldstate \in Linkable
      BY <2>1, <3>1 DEF Unnumbered, Numbered, Linkable
    <3>3. Numbered(x, f, t.l) /\ f.ncci = p
      BY <2>2, <3>2 DEF Numbered, Enters
    <3>. QED BY <2>3, <3>1, <3>3 DEF Carries
  <2>5. Sustains(x, f, v, t.l)
    BY <2>4 DEF Sustains
  <2>. QED BY <2>2, <2>5, GoNcci
<1>. QED BY <1>4, <1>5

LEMMA GoB3Refused ==
  ASSUME NEW s, NEW t, NEW p, NEW m, Handling(s, t, p, m), m.cmd = "DISCONNECT_B3_CONF",
         NEW u \in handle_disconnect_b3_conf(t, p, m)
  PROVE  Handles(t, u)
<1>1. PICK c : c = find_ncci(t.k, p)
  OBVIOUS
<1>2. u = t \/ (c # Null /\ u \in ncci_change_state(t, c, "DISCONNECT_B3_CONF_ERROR"))
  BY <1>1 DEF handle_disconnect_b3_conf
<1>3. CASE u = t
  <2>1. ~Closes(m) /\ ~Confirmation(m)
    BY DEF Closes, Confirmation
  <2>. QED BY <1>3, <2>1, HandledSame
<1>4. CASE c # Null /\ u \in ncci_change_state(t, c, "DISCONNECT_B3_CONF_ERROR")
  <2>1. \E x, n, v : Serving(s, t, p, m, c, x, n, v) /\ n.ncci = p
    BY <1>1, <1>4, NcciAt
  <2>. QED BY <1>4, <2>1, GoRefused
<1>. QED BY <1>2, <1>3, <1>4

(* DATA_B3_CONF: the block's handle leaves the ackqueue. *)
Acknowledged(n, e, A) ==
  /\ e \in Nccis /\ e.ncci = n.ncci /\ e.live = n.live /\ e.state = n.state
  /\ e.oldstate = n.oldstate /\ e.handle = n.handle /\ e.acks = A
LEMMA PutAcknowledged ==
  ASSUME NEW t, NEW c \in Chan, NEW x, NEW n, NEW v, Becomes(t, t, c, x, n, v), n # Null,
         NEW id, NEW w, w = [t EXCEPT !.k.nccip[c].acks = capidrv_del_ack(@, id)]
  PROVE  \E e : Becomes(t, w, c, x, e, v) /\ w.l = t.l /\ Acknowledged(n, e, Without(n.acks, {id}))
<1>1. n \in Nccis /\ t.k.nccip[c] = n
  BY Parts
<1>2. PICK A : A = Without(n.acks, {id})
  OBVIOUS
<1>3. A \in Seq(0 .. MaxData)
  <2>1. n.acks \in Seq(0 .. MaxData)
    BY <1>1 DEF Nccis
  <2>. QED BY <1>2, <2>1, WithoutEntries
<1>4. PICK e : e = [n EXCEPT !.acks = A]
  OBVIOUS
<1>5. e \in Nccis /\ Acknowledged(n, e, A)
  BY <1>1, <1>3, <1>4 DEF Nccis, Acknowledged
<1>6. PICK z : z = [t EXCEPT !.k.nccip[c] = e]
  OBVIOUS
<1>7. w = z
  BY <1>1, <1>2, <1>4, <1>6 DEF capidrv_del_ack
<1>8. Becomes(t, z, c, x, e, v) /\ z.l = t.l
  BY <1>5, <1>6, PutNcci
<1>. QED BY <1>2, <1>5, <1>7, <1>8

LEMMA GoAcknowledged ==
  ASSUME NEW s, NEW t, NEW p, NEW m, NEW c, NEW x, NEW n, NEW v, Serving(s, t, p, m, c, x, n, v),
         Confirmation(m), n.ncci = p, NEW u, NEW e, Becomes(t, u, c, x, e, v), u.l = t.l,
         Acknowledged(n, e, Without(n.acks, {m.id}))
  PROVE  Handles(t, u)
<1>1. e # Null /\ ~Closes(m) /\ p \in Plci
  BY NullIsNone DEF Acknowledged, Confirmation, Closes, Serving, Handling
<1>2. ASSUME Running PROVE Carries(x, e, t.l) /\ (v = "up" => e # Null /\ e.ncci # 0)
  <2>1. /\ Lanes(s.l) /\ Popping(s.l, t.l, p, m) /\ p # 0
        /\ Unnumbered(n) \/ (Numbered(x, n, s.l) /\ n.ncci = p)
    BY <1>2, MeetsTaken
  <2>2. Numbered(x, n, s.l)
    BY <2>1 DEF Unnumbered
  <2>3. /\ Ready(t.l, p)
        /\ Ledger(n.handle, Without(n.acks, {m.id}), t.l.up[p], t.l.data[p])
    BY <1>1, <2>1, <2>2, PopNumbered
  <2>4. Numbered(x, e, t.l) /\ e.ncci = p
    BY <2>2, <2>3 DEF Numbered, Acknowledged
  <2>. QED BY <1>1, <2>1, <2>4 DEF Carries
<1>3. Sustains(x, e, v, t.l)
  BY <1>2 DEF Sustains
<1>. QED BY <1>3, GoNcci

LEMMA GoDataConf ==
  ASSUME NEW s, NEW t, NEW p, NEW m, Handling(s, t, p, m), m.cmd = "DATA_B3_CONF",
         NEW u \in handle_data_b3_conf(t, p, m)
  PROVE  Handles(t, u)
<1>1. PICK c : c = find_ncci(t.k, p)
  OBVIOUS
<1>2. PICK w : w = [t EXCEPT !.k.nccip[c].acks = capidrv_del_ack(@, m.id)]
  OBVIOUS
<1>3. \/ c = Null /\ u = t
      \/ c # Null /\ u = w
  BY <1>1, <1>2 DEF handle_data_b3_conf
<1>4. CASE c = Null /\ u = t
  BY <1>1, <1>4, HandledIdle
<1>5. CASE c # Null /\ u = w
  <2>1. PICK x, n, v : Serving(s, t, p, m, c, x, n, v) /\ n.ncci = p
    BY <1>1, <1>5, NcciAt
  <2>2. c \in Chan /\ Becomes(t, t, c, x, n, v) /\ n # Null
    BY <2>1, HasAny DEF Serving, Meets
  <2>3. PICK e : Becomes(t, w, c, x, e, v) /\ w.l = t.l /\ Acknowledged(n, e, Without(n.acks, {m.id}))
    BY <1>2, <2>2, PutAcknowledged
  <2>4. Confirmation(m)
    BY DEF Confirmation
  <2>. QED BY <1>5, <2>1, <2>3, <2>4, GoAcknowledged
<1>. QED BY <1>3, <1>4, <1>5

LEMMA EndRows ==
  /\ \A a \in CallStates \ {"OUTGOING", "DISCONNECTED"} : ~NoRow(plcitable, a, "DISCONNECT_IND")
  /\ ~NoRow(plcitable, "DISCONNECTED", "DISCONNECT_RESP")
  /\ \A a, z : Row(plcitable, a, "DISCONNECT_IND", z) => z = "DISCONNECTED"
  /\ \A a, z : Row(plcitable, a, "DISCONNECT_RESP", z) => z = "NONE"
<1>1. \A a \in CallStates \ {"OUTGOING", "DISCONNECTED"} : ~NoRow(plcitable, a, "DISCONNECT_IND")
  <2>. TAKE a \in CallStates \ {"OUTGOING", "DISCONNECTED"}
  <2>1. <<a, "DISCONNECT_IND", "DISCONNECTED">> \in plcitable
    BY TableEntries
  <2>. QED BY <2>1 DEF NoRow
<1>2. ~NoRow(plcitable, "DISCONNECTED", "DISCONNECT_RESP")
  <2>1. <<"DISCONNECTED", "DISCONNECT_RESP", "NONE">> \in plcitable
    BY TableEntries
  <2>. QED BY <2>1 DEF NoRow
<1>3. ASSUME NEW a, NEW z, Row(plcitable, a, "DISCONNECT_IND", z)
      PROVE  z = "DISCONNECTED"
  BY <1>3, TableConfirms DEF Row
<1>4. ASSUME NEW a, NEW z, Row(plcitable, a, "DISCONNECT_RESP", z)
      PROVE  z = "NONE"
  BY <1>4 DEF Row, plcitable
<1>. QED BY <1>1, <1>2, <1>3, <1>4

(* DISCONNECT_IND has been taken off the queue.                            *)
LEMMA EndTaken ==
  ASSUME NEW s, NEW t, NEW p, NEW m, Taking(s, t, p, m), m.cmd = "DISCONNECT_IND"
  PROVE  /\ Lanes(t.l) /\ ~HasFlow(t.l.up[p]) /\ ~HasBegin(t.l.up[p]) /\ t.l.d[p] = "gone"
         /\ \A x, n, v : Connection(x, n, v, s.l) /\ x # Null /\ x.plci = p =>
              (n = Null \/ Unnumbered(n)) /\ v # "up"
<1>0. Finishes(m) /\ ~Closes(m)
  BY DEF Finishes, Closes
<1>1. p \in Plci /\ TakenOff(s, t, p, m) /\ Lanes(s.l) /\ Popping(s.l, t.l, p, m)
  BY DEF Taking, Regular
<1>2. Lanes(t.l) /\ ~HasFlow(t.l.up[p])
  BY <1>0, <1>1, PopLanes
<1>3. ~HasBegin(t.l.up[p])
  BY <1>0, <1>1, TakenOfCall
<1>4. t.l.d[p] = "gone"
  <2>1. /\ t.l.d = s.l.d /\ s.l.up[p] # <<>> /\ m = Head(s.l.up[p])
        /\ Agree(s.k.plcip, s.k.plci_list, s.k.incoming, s.k.told, s.l.d, s.l.up)
    BY <1>1, TakenShape DEF TakenOff
  <2>2. Queue(s.l.up[p], s.l.d[p])
    BY <1>1, <2>1, LineKnown
  <2>3. PICK r : r = Tail(s.l.up[p])
    OBVIOUS
  <2>4. Took(s.l.up[p], s.l.d[p], r, m)
    BY <2>1, <2>2, <2>3, QueueTaken
  <2>. QED BY <1>0, <2>1, <2>4 DEF Took
<1>5. ASSUME NEW x, NEW n, Numbered(x, n, s.l), n.ncci = p
      PROVE  FALSE
  <2>1. Ready(t.l, p)
    BY <1>0, <1>1, <1>5, PopNumbered
  <2>2. ~HasClose(t.l.up[p])
    BY <1>2 DEF HasFlow, HasClose, Flows
  <2>3. t.l.b[p] \notin {"none", "gone"}
    BY <2>1, <2>2 DEF Ready
  <2>4. t.l.d[p] \in {"out_act", "in_act", "clear"}
    BY <1>1, <1>2, <2>3, SetFields
  <2>. QED BY <1>4, <2>4
<1>6. ASSUME NEW x, NEW n, NEW v, Connection(x, n, v, s.l), x # Null, x.plci = p
      PROVE  (n = Null \/ Unnumbered(n)) /\ v # "up"
  <2>1. n = Null \/ Unnumbered(n)
    BY <1>5, <1>6 DEF Connection, Carries, Numbered
  <2>. QED BY <1>6, <2>1 DEF Connection, Unnumbered
<1>. QED BY <1>2, <1>3, <1>4, <1>6

(* The call is over for isdn4linux as well.                                *)
LEMMA GoFreed ==
  ASSUME NEW s, NEW t, NEW p, NEW m, Handling(s, t, p, m), m.cmd = "DISCONNECT_IND",
         NEW c, c = find_plci_by_plci(t.k, p), c # Null,
         NEW x, NEW n, NEW v, At(t, c, p, x, n, v),
         NEW u, Becomes(t, u, c, Null, Orphaned(n), Heard(v, "free")), NoRing(t.l, u.l),
         Running => Lanes(u.l) /\ Elsewhere(t.l, u.l, p)
  PROVE  Handles(t, u)
<1>1. /\ c \in Chan /\ Becomes(t, t, c, x, n, v) /\ Report(x, n, v, t.l.up) /\ x # Null
      /\ t.k.told[c] = v /\ v \in Tolds
  BY HasAny
<1>2. n \in Nccis \cup {Null}
  BY <1>1, Parts
<1>3. v # "free"
  BY <1>1 DEF Report
<1>4. ASSUME Running PROVE (n = Null \/ Unnumbered(n)) /\ v # "up"
  <2>1. Taking(s, t, p, m) /\ Connection(x, n, v, s.l) /\ x # Null /\ x.plci = p
    BY <1>4, TakenAt
  <2>. QED BY <2>1, EndTaken
<1>5. PICK h : h = Heard(v, "free")
  OBVIOUS
<1>6. Turn(v, h) /\ h \in {"free", "discarded"}
  BY <1>1, <1>3, <1>4, <1>5, TurnFree
<1>7. PICK e : e = Orphaned(n)
  OBVIOUS
<1>8. Report(Null, e, h, u.l.up)
  BY <1>2, <1>5, <1>7, ReportFreed
<1>9. ASSUME Running PROVE Lanes(u.l) /\ Elsewhere(t.l, u.l, p) /\ Connection(Null, e, h, u.l)
  <2>1. e # Null => Unnumbered(e)
    BY <1>2, <1>4, <1>7, <1>9 DEF Orphaned, Unnumbered, Nccis
  <2>2. Connection(Null, e, h, u.l)
    BY <1>6, <2>1 DEF Connection, Carries
  <2>. QED BY <1>9, <2>2
<1>10. Becomes(t, u, c, Null, e, h) /\ Turn(t.k.told[c], h) /\ h \notin {"ringing", "rejected"}
  BY <1>1, <1>5, <1>6, <1>7
<1>. QED BY <1>1, <1>8, <1>9, <1>10, HandledAt

(* The events of handle_disconnect_ind. *)
Disconnects(x, y) ==
  /\ y \in Records /\ Kin(x, y) /\ y # Null
  /\ (y = x /\ NoRow(plcitable, x.state, "DISCONNECT_IND")) \/ y.state = "DISCONNECTED"
LEMMA EndFirst ==
  ASSUME NEW s, NEW w, NEW c \in Chan, NEW x, NEW n, NEW t, Becomes(s, w, c, x, n, t), x # Null,
         NEW u, u = plci_change_state(w, c, "DISCONNECT_IND")
  PROVE  \E y : Becomes(s, u, c, y, n, t) /\ u.l = w.l /\ Disconnects(x, y)
<1>1. /\ u.l = w.l
      /\ \/ u = w /\ NoRow(plcitable, x.state, "DISCONNECT_IND")
         \/ /\ Row(plcitable, x.state, "DISCONNECT_IND", "NONE")
            /\ Becomes(s, u, c, Null, Orphaned(n), Heard(t, "free"))
         \/ \E y \in Records : /\ Row(plcitable, x.state, "DISCONNECT_IND", y.state) /\ y.state # "NONE"
                               /\ Becomes(s, u, c, y, n, t) /\ y.plci = x.plci
  <2>1. Reacts(s, w, u, c, x, n, t, "DISCONNECT_IND")
    BY PlciEvent
  <2>. QED BY <2>1 DEF Reacts
<1>2. x \in Records
  BY Parts
<1>3. CASE u = w /\ NoRow(plcitable, x.state, "DISCONNECT_IND")
  BY <1>2, <1>3, KinSame DEF Disconnects
<1>4. CASE ~(u = w /\ NoRow(plcitable, x.state, "DISCONNECT_IND"))
  <2>1. PICK y \in Records : /\ Row(plcitable, x.state, "DISCONNECT_IND", y.state)
                             /\ Becomes(s, u, c, y, n, t) /\ y.plci = x.plci
    BY <1>1, <1>4, EndRows
  <2>2. y.state = "DISCONNECTED"
    BY <2>1, EndRows
  <2>3. Disconnects(x, y)
    BY <2>1, <2>2, NullIsNone DEF Disconnects, Kin
  <2>. QED BY <1>1, <2>1, <2>3
<1>. QED BY <1>3, <1>4

Ended(s, w, u, c, y, n, t) ==
  /\ u.l = w.l
  /\ \/ u = w /\ NoRow(plcitable, y.state, "DISCONNECT_RESP")
     \/ Becomes(s, u, c, Null, Orphaned(n), Heard(t, "free"))
LEMMA EndSecond ==
  ASSUME NEW s, NEW w, NEW c \in Chan, NEW x, NEW n, NEW t, Becomes(s, w, c, x, n, t), x # Null,
         NEW u, u = plci_change_state(w, c, "DISCONNECT_RESP")
  PROVE  Ended(s, w, u, c, x, n, t)
<1>1. /\ u.l = w.l
      /\ \/ u = w /\ NoRow(plcitable, x.state, "DISCONNECT_RESP")
         \/ /\ Row(plcitable, x.state, "DISCONNECT_RESP", "NONE")
            /\ Becomes(s, u, c, Null, Orphaned(n), Heard(t, "free"))
         \/ \E y \in Records : /\ Row(plcitable, x.state, "DISCONNECT_RESP", y.state) /\ y.state # "NONE"
                               /\ Becomes(s, u, c, y, n, t) /\ y.plci = x.plci
  <2>1. Reacts(s, w, u, c, x, n, t, "DISCONNECT_RESP")
    BY PlciEvent
  <2>. QED BY <2>1 DEF Reacts
<1>. QED BY <1>1, EndRows DEF Ended

LEMMA GoEnding ==
  ASSUME NEW s, NEW t, NEW p, NEW m, Handling(s, t, p, m), m.cmd = "DISCONNECT_IND",
         NEW c, c = find_plci_by_plci(t.k, p), c # Null,
         NEW x, NEW n, NEW v, At(t, c, p, x, n, v), Running => x.state \in CallStates \ {"OUTGOING"},
         NEW w, NEW y, Becomes(t, w, c, y, n, v), w.l = t.l, Disconnects(x, y),
         NEW z \in send_message(w, "DISCONNECT_RESP", p, 0),
         NEW u, Ended(t, z, u, c, y, n, v)
  PROVE  Handles(t, u)
<1>2. /\ c \in Chan /\ Report(x, n, v, t.l.up) /\ x # Null /\ t.k.told[c] = v
      /\ v \in {"ringing", "rejected"} => c \in t.k.incoming
  BY HasAny
<1>5. Becomes(t, z, c, y, n, v) /\ NoRing(w.l, z.l) /\ Shape(w)
  BY <1>2, PutMessage, Parts
<1>6. NoRing(t.l, z.l)
  BY <1>5
<1>7. ASSUME Running PROVE Lanes(z.l) /\ Elsewhere(t.l, z.l, p)
  <2>1. Taking(s, t, p, m) /\ p \in Plci
    BY <1>7 DEF Handling
  <2>2. Lanes(t.l) /\ ~HasFlow(t.l.up[p]) /\ ~HasBegin(t.l.up[p])
    BY <2>1, EndTaken
  <2>3. Lanes(w.l) /\ ~HasFlow(w.l.up[p]) /\ ~HasBegin(w.l.up[p])
    BY <2>2
  <2>4. Lanes(z.l) /\ Elsewhere(w.l, z.l, p)
    BY <1>5, <2>1, <2>3, SendResetLanes
  <2>. QED BY <2>4
<1>8. /\ u.l = z.l
      /\ \/ u = z /\ NoRow(plcitable, y.state, "DISCONNECT_RESP")
         \/ Becomes(t, u, c, Null, Orphaned(n), Heard(v, "free"))
  BY DEF Ended
<1>9. CASE Becomes(t, u, c, Null, Orphaned(n), Heard(v, "free"))
  <2>1. NoRing(t.l, u.l) /\ (Running => Lanes(u.l) /\ Elsewhere(t.l, u.l, p))
    BY <1>6, <1>7, <1>8
  <2>. QED BY <1>9, <2>1, GoFreed
<1>10. CASE u = z /\ NoRow(plcitable, y.state, "DISCONNECT_RESP")
  <2>1. ~Running
    BY <1>10, EndRows DEF Disconnects
  <2>2. Becomes(t, u, c, y, n, v) /\ NoRing(t.l, u.l)
    BY <1>5, <1>6, <1>10
  <2>3. Report(y, n, v, u.l.up)
    <3>1. /\ (y = Null) <=> (x = Null)
          /\ y # Null => Kin(x, y)
          /\ n # Null /\ n.live => (n # Null /\ n.live) \/ (y # Null /\ v \in Answering)
      BY <1>2 DEF Disconnects
    <3>2. NoRing(t.l, u.l)
      BY <2>2
    <3>. QED BY <1>2, <3>1, <3>2, ReportSteady
  <2>4. Turn(t.k.told[c], v) /\ (v \in {"ringing", "rejected"} => c \in t.k.incoming /\ y # Null)
    BY <1>2 DEF Turn, Disconnects
  <2>. QED BY <1>2, <2>1, <2>2, <2>3, <2>4, HandledAt
<1>. QED BY <1>8, <1>9, <1>10

LEMMA GoDisconnect ==
  ASSUME NEW s, NEW t, NEW p, NEW m, Handling(s, t, p, m), m.cmd = "DISCONNECT_IND",
         NEW u \in handle_disconnect_ind(t, p)
  PROVE  Handles(t, u)
<1>1. PICK c : c = find_plci_by_plci(t.k, p)
  OBVIOUS
<1>2. PICK r : r = Disconnecting(t, c)
  OBVIOUS
<1>3. PICK w : w = plci_change_state(r, c, "DISCONNECT_IND")
  OBVIOUS
<1>4. \/ c = Null /\ u \in send_message(t, "DISCONNECT_RESP", p, 0)
      \/ c # Null /\ \E z \in send_message(w, "DISCONNECT_RESP", p, 0) :
                       u = plci_change_state(z, c, "DISCONNECT_RESP")
  BY <1>1, <1>2, <1>3 DEF handle_disconnect_ind
<1>5. CASE c = Null /\ u \in send_message(t, "DISCONNECT_RESP", p, 0)
  <2>1. Plain(t) /\ Shape(t) /\ p \in Plci
    BY DEF Handling, Plain
  <2>2. NoRing(t.l, u.l) /\ u.k = t.k /\ Plain(u)
    BY <1>5, <2>1, PlainSends
  <2>3. ASSUME Running PROVE Lanes(u.l) /\ Elsewhere(t.l, u.l, p)
    <3>1. Taking(s, t, p, m)
      BY <2>3 DEF Handling
    <3>2. Lanes(t.l) /\ ~HasFlow(t.l.up[p]) /\ ~HasBegin(t.l.up[p])
      BY <3>1, EndTaken
    <3>. QED BY <1>5, <2>1, <3>2, SendResetLanes
  <2>. QED BY <1>1, <1>5, <2>2, <2>3, HandledNone
<1>6. CASE c # Null /\ \E z \in send_message(w, "DISCONNECT_RESP", p, 0) :
                         u = plci_change_state(z, c, "DISCONNECT_RESP")
  <2>1. PICK x, n, v : At(t, c, p, x, n, v) /\ (Running => x.state \in CallStates \ {"OUTGOING"})
    BY <1>1, <1>6, OwnerAt
  <2>2. c \in Chan /\ Becomes(t, t, c, x, n, v) /\ x # Null
    BY <2>1, HasAny
  <2>3. Becomes(t, r, c, x, n, v) /\ r.l = t.l
    BY <1>2, <2>2, PutDisconnecting
  <2>4. PICK y : Becomes(t, w, c, y, n, v) /\ w.l = t.l /\ Disconnects(x, y)
    BY <1>3, <2>2, <2>3, EndFirst
  <2>5. PICK z \in send_message(w, "DISCONNECT_RESP", p, 0) :
           u = plci_change_state(z, c, "DISCONNECT_RESP")
    BY <1>6
  <2>6. Becomes(t, z, c, y, n, v) /\ y # Null
    BY <2>2, <2>4, PutMessage DEF Disconnects
  <2>7. Ended(t, z, u, c, y, n, v)
    BY <2>2, <2>5, <2>6, EndSecond
  <2>. QED BY <1>1, <1>6, <2>1, <2>4, <2>7, GoEnding
<1>. QED BY <1>4, <1>5, <1>6

(* The message m has been taken off the queue of p, which may be 0.        *)
Received(s, t, p, m) ==
  /\ Plain(t) /\ Typed(t) /\ p \in Plci \cup {0}
  /\ \A c \in Chan : Faithful(t, c)
  /\ Begins(m) => ~Has(t.l.up[p], "CONNECT_B3_IND")
  /\ Running => TakenOff(s, t, p, m) /\ Regular(s) /\ Popping(s.l, t.l, p, m)

(* Neither a message that begins a call nor one of queue 0 is for a channel *)
(* that has a connection already.                                          *)
LEMMA ReceivedRegular ==
  ASSUME NEW s, NEW t, NEW p, NEW m, Received(s, t, p, m), Running, Begins(m) \/ p = 0
  PROVE  Regular(t)
<1>1. TakenOff(s, t, p, m) /\ Regular(s) /\ Popping(s.l, t.l, p, m) /\ p \in Plci \cup {0}
  BY DEF Received
<1>2. t.k = s.k /\ Elsewhere(s.l, t.l, p) /\ Formed(t.l)
  BY <1>1, TakenShape DEF Popping
<1>3. Lanes(t.l)
  <2>1. CASE p = 0
    BY <1>1, <1>2, <2>1, LanesZero DEF Regular
  <2>2. CASE p \in Plci
    BY <1>1, <2>2, PopLanes DEF Regular
  <2>. QED BY <1>1, <2>1, <2>2
<1>4. p = 0 \/ \A y : ~Owns(s.k.plcip, y, p)
  <2>1. CASE p = 0
    BY <2>1
  <2>2. CASE p # 0
    <3>1. TakenBegin(t.k.plcip, t.k.plci_list, t.l.d, t.l.up, p, m)
      BY <1>1, <2>2, TakenOfCall
    <3>. QED BY <1>2, <3>1 DEF TakenBegin
  <2>. QED BY <2>1, <2>2
<1>5. ASSUME NEW y \in Chan PROVE Link(t, y)
  <2>1. PICK x, n, v : x = s.k.plcip[y] /\ n = s.k.nccip[y] /\ v = s.k.told[y]
    OBVIOUS
  <2>2. Connection(x, n, v, s.l)
    BY <1>1, <2>1 DEF Regular, Link
  <2>3. x # Null => x.plci # p \/ p = 0
    BY <1>1, <1>4, <2>1 DEF Owns
  <2>4. Connection(x, n, v, t.l)
    BY <1>2, <2>2, <2>3, ConnElse
  <2>. QED BY <1>2, <2>1, <2>4 DEF Link
<1>. QED BY <1>3, <1>5 DEF Regular

(* Only the channel c changes, and no message is sent. *)
LEMMA ReceivedAt ==
  ASSUME NEW s, NEW t, NEW p, NEW m, Received(s, t, p, m), Begins(m) \/ p = 0,
         NEW c \in Chan, NEW u, NEW y, NEW n, NEW v, Becomes(t, u, c, y, n, v), u.l = t.l,
         Turn(t.k.told[c], v), Report(y, n, v, u.l.up),
         v \in {"ringing", "rejected"} => c \in t.k.incoming /\ y # Null,
         Running => Connection(y, n, v, t.l)
  PROVE  Handles(t, u)
<1>1. NoRing(t.l, u.l)
  BY NoRingSame
<1>2. Goes(t, u, c)
  BY <1>1, GoesAt
<1>3. ASSUME Running PROVE Regular(u)
  <2>1. Regular(t)
    BY <1>3, ReceivedRegular
  <2>2. Frame(t, u, c) /\ Lanes(u.l)
    BY <2>1 DEF Becomes, Regular
  <2>3. \A z \in Chan : z # c => Link(t, z)
    BY <2>1 DEF Regular
  <2>4. Elsewhere(t.l, u.l, 0)
    BY SameLine
  <2>5. Strange(t, c, 0)
    BY DEF Strange
  <2>6. \A z \in Chan : z # c => Link(u, z)
    BY <2>2, <2>3, <2>4, <2>5, OthersLinked
  <2>7. Connection(y, n, v, u.l)
    BY <1>3
  <2>. QED BY <2>2, <2>6, <2>7, LinkedAt
<1>. QED BY <1>2, <1>3 DEF Handles

(* The driver does nothing. *)
LEMMA ReceivedSame ==
  ASSUME NEW s, NEW t, NEW p, NEW m, Received(s, t, p, m), Begins(m) \/ p = 0
  PROVE  Handles(t, t)
<1>1. Plain(t)
  BY DEF Received
<1>2. Goes(t, t, Null)
  BY <1>1, NoRingSame, DrvAssumption DEF Goes, Frame
<1>3. Running => Regular(t)
  BY ReceivedRegular
<1>. QED BY <1>2, <1>3 DEF Handles

(* What the invariant says nothing of. *)
LEMMA AlikeFields ==
  ASSUME NEW t, Plain(t), NEW z,
         NEW u, u = [t EXCEPT !.k.state = z] \/ u = [t EXCEPT !.k.disconnecting = z]
  PROVE  /\ Plain(u) /\ u.l = t.l
         /\ u.k.plcip = t.k.plcip /\ u.k.nccip = t.k.nccip
         /\ u.k.told = t.k.told /\ u.k.incoming = t.k.incoming
<1>0. Shape(t)
  BY DEF Plain
<1>1. PICK k, l : k = t.k /\ l = t.l
  OBVIOUS
<1>2. t = [k |-> k, l |-> l] /\ IsCard(k) /\ IsLine(l)
  BY <1>0, <1>1 DEF Shape
<1>3. /\ IsCard([k EXCEPT !.state = z]) /\ [k EXCEPT !.state = z].plcip = k.plcip
      /\ [k EXCEPT !.state = z].nccip = k.nccip /\ [k EXCEPT !.state = z].told = k.told
      /\ [k EXCEPT !.state = z].incoming = k.incoming
  BY <1>2 DEF IsCard
<1>4. /\ IsCard([k EXCEPT !.disconnecting = z]) /\ [k EXCEPT !.disconnecting = z].plcip = k.plcip
      /\ [k EXCEPT !.disconnecting = z].nccip = k.nccip
      /\ [k EXCEPT !.disconnecting = z].told = k.told
      /\ [k EXCEPT !.disconnecting = z].incoming = k.incoming
  BY <1>2 DEF IsCard
<1>5. u = [k |-> [k EXCEPT !.state = z], l |-> l] \/ u = [k |-> [k EXCEPT !.disconnecting = z], l |-> l]
  BY <1>2
<1>6. PICK e : /\ u = [k |-> e, l |-> l] /\ IsCard(e)
               /\ e.plcip = k.plcip /\ e.nccip = k.nccip /\ e.told = k.told /\ e.incoming = k.incoming
  BY <1>3, <1>4, <1>5
<1>. QED BY <1>1, <1>2, <1>6 DEF Plain, Shape

LEMMA HandlesAlike ==
  ASSUME NEW t, Plain(t), Handles(t, t), NEW z,
         NEW u, u = [t EXCEPT !.k.state = z] \/ u = [t EXCEPT !.k.disconnecting = z]
  PROVE  Handles(t, u)
<1>1. /\ Plain(u) /\ u.l = t.l
      /\ u.k.plcip = t.k.plcip /\ u.k.nccip = t.k.nccip
      /\ u.k.told = t.k.told /\ u.k.incoming = t.k.incoming
  BY AlikeFields
<1>2. Goes(t, u, Null)
  BY <1>1, NoRingSame, DrvAssumption DEF Goes, Frame
<1>3. Running => Regular(u)
  BY <1>1 DEF Handles, Regular, Link
<1>. QED BY <1>2, <1>3 DEF Handles

(* CONNECT_CONF: the structure x of the channel c waits for it. *)
Awaiting(t, p, m, x) ==
  /\ x.state = "OUTGOING" /\ x.plci = 0
  /\ m.ok => p # 0 /\ t.l.d[p] \notin Incoming

(* It is freed, or becomes y and has the address p. *)
LEMMA GoUnconnected ==
  ASSUME NEW s, NEW t, NEW p, NEW m, Received(s, t, p, m), m.cmd = "CONNECT_CONF",
         NEW c \in Chan, NEW x, NEW n, NEW v, Becomes(t, t, c, x, n, v), x # Null,
         Running => Awaiting(t, p, m, x),
         NEW u, Becomes(t, u, c, Null, Orphaned(n), Heard(v, "free")), u.l = t.l
  PROVE  Handles(t, u)
<1>1. n \in Nccis \cup {Null} /\ v \in Tolds /\ t.k.told[c] = v /\ t.k.plcip[c] = x /\ t.k.nccip[c] = n
  BY Parts
<1>2. Report(x, n, v, t.l.up)
  BY <1>1 DEF Received, Faithful
<1>3. ASSUME Running PROVE Connection(x, n, v, t.l) /\ x.state = "OUTGOING" /\ x.plci = 0
  <2>1. Regular(t)
    BY <1>3, ReceivedRegular DEF Begins
  <2>. QED BY <1>1, <1>3, <2>1 DEF Regular, Link, Awaiting
<1>4. v # "free" /\ (Running => v # "up")
  BY <1>2, <1>3 DEF Report, Connection
<1>5. PICK h : h = Heard(v, "free")
  OBVIOUS
<1>6. Turn(v, h) /\ h \in {"free", "discarded"}
  BY <1>1, <1>4, <1>5, TurnFree
<1>7. PICK e : e = Orphaned(n)
  OBVIOUS
<1>8. Report(Null, e, h, u.l.up)
  BY <1>1, <1>5, <1>7, ReportFreed
<1>9. ASSUME Running PROVE Connection(Null, e, h, t.l)
  <2>1. n = Null \/ Unnumbered(n)
    BY <1>3, <1>9, DrvAssumption DEF Connection, Carries, Numbered
  <2>2. e # Null => Unnumbered(e)
    BY <1>1, <1>7, <2>1 DEF Orphaned, Unnumbered, Nccis
  <2>. QED BY <1>6, <2>2 DEF Connection, Carries
<1>10. Becomes(t, u, c, Null, e, h) /\ Turn(t.k.told[c], h) /\ h \notin {"ringing", "rejected"}
  BY <1>1, <1>5, <1>6, <1>7
<1>11. Begins(m)
  BY DEF Begins
<1>. QED BY <1>8, <1>9, <1>10, <1>11, ReceivedAt

LEMMA GoConnected ==
  ASSUME NEW s, NEW t, NEW p, NEW m, Received(s, t, p, m), m.cmd = "CONNECT_CONF",
         NEW c \in Chan, NEW x, NEW n, NEW v, Becomes(t, t, c, x, n, v), x # Null,
         Running => Awaiting(t, p, m, x),
         NEW u, NEW y, y \in Records, Becomes(t, u, c, y, n, v), u.l = t.l, y.plci = p,
         y.state \notin {"INCOMING", "OUTGOING"} \/ (~Running /\ y.state = x.state),
         Running => m.ok
  PROVE  Handles(t, u)
<1>1. n \in Nccis \cup {Null} /\ v \in Tolds /\ t.k.told[c] = v /\ t.k.plcip[c] = x /\ t.k.nccip[c] = n
  BY Parts
<1>2. Report(x, n, v, t.l.up) /\ (v \in {"ringing", "rejected"} => c \in t.k.incoming)
  BY <1>1 DEF Received, Faithful
<1>3. y # Null
  BY NullIsNone
<1>4. Begins(m) /\ ~Has(t.l.up[p], "CONNECT_B3_IND")
  BY DEF Begins, Received
<1>5. ASSUME Running PROVE Connection(x, n, v, t.l) /\ Awaiting(t, p, m, x)
  <2>1. Regular(t)
    BY <1>4, <1>5, ReceivedRegular
  <2>. QED BY <1>1, <1>5, <2>1 DEF Regular, Link
<1>6. Report(y, n, v, u.l.up)
  <2>1. n # Null /\ n.live => v \in Answering
    BY <1>2 DEF Report
  <2>2. y.state = "INCOMING" => v \in {"ringing", "discarded"}
    BY <1>2 DEF Report
  <2>3. v # "free"
    BY <1>2 DEF Report
  <2>. QED BY <1>3, <1>4, <2>1, <2>2, <2>3 DEF Report
<1>7. ASSUME Running PROVE Connection(y, n, v, t.l)
  <2>1. n = Null \/ Unnumbered(n)
    BY <1>5, <1>7, DrvAssumption DEF Connection, Carries, Numbered, Awaiting
  <2>2. v \in {"dialing", "discarded"}
    BY <1>5, <1>7 DEF Connection, Awaiting
  <2>3. y.state # "OUTGOING"
    BY <1>7
  <2>4. t.l.d[p] \notin {"in_acc", "in_act"}
    BY <1>5, <1>7 DEF Awaiting, Incoming
  <2>. QED BY <2>1, <2>2, <2>3, <2>4 DEF Connection, Carries
<1>8. Turn(t.k.told[c], v)
  BY <1>1 DEF Turn
<1>. QED BY <1>2, <1>3, <1>4, <1>6, <1>7, <1>8, ReceivedAt

LEMMA GoConnectConf ==
  ASSUME NEW s, NEW t, NEW p, NEW m, Received(s, t, p, m), m.cmd = "CONNECT_CONF",
         NEW u \in handle_connect_conf(t, p, m)
  PROVE  Handles(t, u)
<1>1. PICK c : c = find_plci_by_msgid(t.k, m.id)
  OBVIOUS
<1>2. Begins(m) /\ Plain(t) /\ Typed(t) /\ p \in Plci \cup {0}
  BY DEF Begins, Received
<1>3. CASE c = Null
  <2>1. u = t
    BY <1>1, <1>3 DEF handle_connect_conf
  <2>. QED BY <1>2, <2>1, ReceivedSame
<1>4. CASE c # Null
  <2>1. c \in Chan /\ t.k.plcip[c] # Null
    BY <1>1, <1>2, <1>4, FindsPlci
  <2>2. PICK x, n, v : x = t.k.plcip[c] /\ n = t.k.nccip[c] /\ v = t.k.told[c]
    OBVIOUS
  <2>3. Becomes(t, t, c, x, n, v) /\ x # Null
    BY <1>2, <2>1, <2>2, Same
  <2>4. PICK w : w = WithAddress(t, c, p)
    OBVIOUS
  <2>5. PICK event : event = IF m.ok THEN "CONNECT_CONF_OK" ELSE "CONNECT_CONF_ERROR"
    OBVIOUS
  <2>6. u = plci_change_state(w, c, event)
    BY <1>1, <1>4, <2>4, <2>5 DEF handle_connect_conf, WithAddress
  <2>7. PICK y \in Records : Becomes(t, w, c, y, n, v) /\ w.l = t.l /\ y.plci = p /\ y.state = x.state
    BY <1>2, <2>1, <2>3, <2>4, PutAddress
  <2>8. y # Null
    BY NullIsNone
  <2>9. Reacts(t, w, u, c, y, n, v, event)
    BY <2>1, <2>6, <2>7, <2>8, PlciEvent
  <2>10. ASSUME Running PROVE Awaiting(t, p, m, x)
    <3>1. TakenOff(s, t, p, m)
      BY <2>10 DEF Received
    <3>2. /\ Waits(t.k.plcip, t.k.plci_list, m.id)
          /\ m.ok => p # 0 /\ t.l.d[p] \notin Incoming
      <4>1. CASE p = 0
        BY <3>1, <4>1, TakenOfZero
      <4>2. CASE p # 0
        <5>1. TakenBegin(t.k.plcip, t.k.plci_list, t.l.d, t.l.up, p, m)
          BY <1>2, <3>1, <4>2, TakenOfCall
        <5>. QED BY <4>2, <5>1 DEF TakenBegin
      <4>. QED BY <4>1, <4>2
    <3>3. Sound(s) /\ t.k = s.k
      BY <3>1, TakenShape DEF TakenOff
    <3>4. x.state = "OUTGOING"
      <4>1. Waits(s.k.plcip, s.k.plci_list, m.id) /\ c = find_plci_by_msgid(s.k, m.id)
        BY <1>1, <3>2, <3>3
      <4>2. s.k.plcip[c].state = "OUTGOING"
        BY <3>3, <4>1, FoundByMsgid
      <4>. QED BY <2>2, <3>3, <4>2
    <3>5. x.plci = 0
      BY <2>1, <2>2, <3>3, <3>4 DEF Sound, Agree, Structures
    <3>. QED BY <3>2, <3>4, <3>5 DEF Awaiting
  <2>11. u.l = t.l /\ \/ u = w /\ NoRow(plcitable, y.state, event)
                      \/ Becomes(t, u, c, Null, Orphaned(n), Heard(v, "free"))
                      \/ \E z \in Records : /\ Row(plcitable, y.state, event, z.state) /\ z.state # "NONE"
                                            /\ Becomes(t, u, c, z, n, v) /\ z.plci = y.plci
    BY <2>7, <2>9 DEF Reacts
  <2>12. CASE u = w /\ NoRow(plcitable, y.state, event)
    <3>1. ~Running
      BY <2>5, <2>7, <2>10, <2>12, PlciMoves DEF Awaiting
    <3>. QED BY <2>1, <2>3, <2>7, <2>12, <3>1, GoConnected
  <2>13. CASE Becomes(t, u, c, Null, Orphaned(n), Heard(v, "free"))
    BY <2>1, <2>3, <2>10, <2>11, <2>13, GoUnconnected
  <2>14. ASSUME NEW z \in Records, Row(plcitable, y.state, event, z.state), z.state # "NONE",
                Becomes(t, u, c, z, n, v), z.plci = y.plci
         PROVE  Handles(t, u)
    <3>1. m.ok
      BY <2>5, <2>14, PlciRows
    <3>2. z.state = "ALLOCATED"
      BY <2>5, <2>14, <3>1, PlciRows
    <3>. QED BY <2>1, <2>3, <2>7, <2>10, <2>11, <2>14, <3>1, <3>2, GoConnected
  <2>. QED BY <2>11, <2>12, <2>13, <2>14
<1>. QED BY <1>3, <1>4

(* Every message but CONNECT_IND. *)
LEMMA GoHandled ==
  ASSUME NEW s, NEW t, NEW p, NEW m, Received(s, t, p, m), m.cmd \in Commands, m.cmd # "CONNECT_IND",
         p = 0 => m.cmd \in {"LISTEN_CONF", "CONNECT_CONF"},
         m.cmd = "CONNECT_B3_IND" =>
           \A c \in Chan : t.k.plcip[c] # Null /\ t.k.plcip[c].plci = p => t.k.told[c] \in Answering,
         NEW u \in handle(t, p, m)
  PROVE  Handles(t, u)
<1>0. p # 0 => Handling(s, t, p, m)
  BY DEF Handling, Received, Taking
<1>1. CASE m.cmd = "LISTEN_CONF"
  <2>1. u \in handle_listen_conf(t, m)
    BY <1>1 DEF handle
  <2>2. PICK e : u = [t EXCEPT !.k = listen_change_state(@, e)]
    BY <2>1 DEF handle_listen_conf
  <2>3. PICK n : u = [t EXCEPT !.k.state = n]
    BY <2>2 DEF listen_change_state
  <2>4. Handles(t, t)
    <3>1. CASE p = 0
      BY <3>1, ReceivedSame
    <3>2. CASE p # 0
      BY <1>0, <1>1, <3>2, HandledSame DEF Closes, Confirmation
    <3>. QED BY <3>1, <3>2
  <2>5. Plain(t)
    BY DEF Received
  <2>. QED BY <2>3, <2>4, <2>5, HandlesAlike
<1>2. CASE m.cmd = "CONNECT_CONF"
  <2>1. u \in handle_connect_conf(t, p, m)
    BY <1>2 DEF handle
  <2>. QED BY <1>2, <2>1, GoConnectConf
<1>3. CASE m.cmd = "CONNECT_ACTIVE_IND"
  <2>1. u \in handle_connect_active_ind(t, p)
    BY <1>3 DEF handle
  <2>. QED BY <1>0, <1>3, <2>1, GoActive
<1>4. CASE m.cmd = "DISCONNECT_IND"
  <2>1. u \in handle_disconnect_ind(t, p)
    BY <1>4 DEF handle
  <2>. QED BY <1>0, <1>4, <2>1, GoDisconnect
<1>5. CASE m.cmd = "DISCONNECT_CONF"
  <2>1. u \in handle_disconnect_conf(t, p)
    BY <1>5 DEF handle
  <2>. QED BY <1>0, <1>5, <2>1, GoDisconnectConf
<1>6. CASE m.cmd = "CONNECT_B3_IND"
  <2>1. u \in handle_connect_b3_ind(t, p)
    BY <1>6 DEF handle
  <2>. QED BY <1>0, <1>6, <2>1, GoB3Ind
<1>7. CASE m.cmd = "CONNECT_B3_CONF"
  <2>1. u \in handle_connect_b3_conf(t, p, m)
    BY <1>7 DEF handle
  <2>. QED BY <1>0, <1>7, <2>1, GoB3Conf
<1>8. CASE m.cmd = "CONNECT_B3_ACTIVE_IND"
  <2>1. u \in handle_connect_b3_active_ind(t, p)
    BY <1>8 DEF handle
  <2>. QED BY <1>0, <1>8, <2>1, GoB3Active
<1>9. CASE m.cmd = "DISCONNECT_B3_IND"
  <2>1. u \in handle_disconnect_b3_ind(t, p)
    BY <1>9 DEF handle
  <2>. QED BY <1>0, <1>9, <2>1, GoB3Over
<1>10. CASE m.cmd = "DISCONNECT_B3_CONF"
  <2>1. u \in handle_disconnect_b3_conf(t, p, m)
    BY <1>10 DEF handle
  <2>. QED BY <1>0, <1>10, <2>1, GoB3Refused
<1>11. CASE m.cmd = "DATA_B3_CONF"
  <2>1. u \in handle_data_b3_conf(t, p, m)
    BY <1>11 DEF handle
  <2>. QED BY <1>0, <1>11, <2>1, GoDataConf
<1>12. CASE m.cmd = "DATA_B3_IND"
  <2>1. u = t
    BY <1>12 DEF handle
  <2>2. ~Closes(m) /\ ~Confirmation(m)
    BY <1>12 DEF Closes, Confirmation
  <2>3. Handling(s, t, p, m)
    BY <1>0, <1>12
  <2>. QED BY <2>1, <2>2, <2>3, HandledSame
<1>. QED BY <1>1, <1>2, <1>3, <1>4, <1>5, <1>6, <1>7, <1>8, <1>9, <1>10, <1>11, <1>12 DEF Commands

(* No CONNECT_B3_IND shares a queue with the message that begins a call,   *)
(* and queue 0 has only answers to requests without a connection.          *)
Orderly(U) ==
  /\ \A p \in Plci : ~(HasBegin(U[p]) /\ Has(U[p], "CONNECT_B3_IND"))
  /\ \A i \in Entries(U[0]) : U[0][i].cmd \in {"LISTEN_CONF", "CONNECT_CONF"}

LEMMA OrderlyLanes ==
  ASSUME NEW s, Sound(s), Lanes(s.l)
  PROVE  Orderly(s.l.up)
<1>1. \A i \in Entries(s.l.up[0]) : s.l.up[0][i].cmd \in {"LISTEN_CONF", "CONNECT_CONF"}
  BY DEF Sound, Agree, Lines
<1>2. ASSUME NEW p \in Plci PROVE ~(HasBegin(s.l.up[p]) /\ Has(s.l.up[p], "CONNECT_B3_IND"))
  <2>1. PICK q, d, b, D : q = s.l.up[p] /\ d = s.l.d[p] /\ b = s.l.b[p] /\ D = s.l.data[p]
    OBVIOUS
  <2>2. Fitting(q, d, b, D)
    BY <2>1, SetFields DEF Course
  <2>3. HasBegin(q) => ~HasFlow(q)
    BY <2>2 DEF Fitting
  <2>4. Has(q, "CONNECT_B3_IND") => HasFlow(q)
    BY DEF Has, HasFlow, Flows, Opens
  <2>. QED BY <2>1, <2>3, <2>4
<1>. QED BY <1>1, <1>2 DEF Orderly

LEMMA OrderlyPopped ==
  ASSUME NEW U, U = [p \in Plci \cup {0} |-> U[p]], \A p \in Plci \cup {0} : IsSeq(U[p]), Orderly(U),
         NEW p \in Plci \cup {0}, U[p] # <<>>, NEW V, V = Popped(U, p)
  PROVE  Orderly(V)
<1>1. Shorter(U[p], Head(U[p]), V[p])
  BY QueueTail DEF Popped
<1>2. \A y \in Plci \cup {0} : y # p => V[y] = U[y]
  BY DEF Popped
<1>3. HasBegin(V[p]) => HasBegin(U[p])
  BY <1>1, MarksTail
<1>4. Has(V[p], "CONNECT_B3_IND") => Has(U[p], "CONNECT_B3_IND")
  BY <1>1, HasTail
<1>5. p = 0 => \A i \in Entries(V[0]) : V[0][i].cmd \in {"LISTEN_CONF", "CONNECT_CONF"}
  <2>1. ASSUME p = 0, NEW i \in Entries(V[0]) PROVE V[0][i].cmd \in {"LISTEN_CONF", "CONNECT_CONF"}
    <3>1. i + 1 \in Entries(U[0]) /\ V[0][i] = U[0][i + 1]
      BY <1>1, <2>1 DEF Shorter
    <3>. QED BY <3>1 DEF Orderly
  <2>. QED BY <2>1
<1>. QED BY <1>2, <1>3, <1>4, <1>5 DEF Orderly

-------------------------------------------------------------------------------
(* The invariant.                                                          *)

(* The inductive invariant of the callbacks and of the unconfirmed blocks. *)
FlowInv ==
  /\ Plain(now) /\ Orderly(line.up)
  /\ \A c \in Chan : Faithful(now, c)
  /\ pc = "free" => Top \in Chan /\ card.told[Top] = "discarded"
  /\ Running => Regular(now)

(* A step of IsdnChannels. *)
Called == Channels!Next \/ UNCHANGED <<card.told, pc \in {"up", "unregistered"}>>

LEMMA CalledAt ==
  ASSUME pc' = pc, NEW T, T = card.told, NEW W, W = card'.told,
         T = [y \in Chan |-> T[y]], W = [y \in Chan |-> W[y]],
         NEW c \in Chan, Turn(T[c], W[c]), \A y \in Chan : y # c => W[y] = T[y]
  PROVE  Called
<1>1. W = [T EXCEPT ![c] = W[c]]
  OBVIOUS
<1>2. CASE W[c] = T[c]
  <2>1. W = T
    BY <1>2
  <2>. QED BY <2>1 DEF Called
<1>3. ASSUME NEW from, T[c] \in from PROVE Channels!Step(c, from, W[c])
  BY <1>1, <1>3 DEF Channels!Step
<1>4. CASE W[c] # T[c]
  <2>1. CASE T[c] = "free" /\ W[c] \in {"dialing", "ringing"}
    <3>1. Channels!Step(c, {"free"}, W[c])
      BY <1>3, <2>1
    <3>2. Channels!Dial(c) \/ Channels!Offer(c)
      BY <2>1, <3>1 DEF Channels!Dial, Channels!Offer
    <3>. QED BY <3>2 DEF Called, Channels!Next
  <2>2. CASE T[c] = "ringing" /\ W[c] = "rejected"
    <3>1. Channels!Step(c, {"ringing"}, W[c])
      BY <1>3, <2>2
    <3>2. Channels!Reject(c)
      BY <2>2, <3>1 DEF Channels!Reject
    <3>. QED BY <3>2 DEF Called, Channels!Next
  <2>3. CASE T[c] \in {"dialing", "ringing"} /\ W[c] = "connected"
    <3>1. Channels!Step(c, {"dialing", "ringing"}, W[c])
      BY <1>3, <2>3
    <3>2. Channels!Connect(c)
      BY <2>3, <3>1 DEF Channels!Connect
    <3>. QED BY <3>2 DEF Called, Channels!Next
  <2>4. CASE T[c] = "connected" /\ W[c] = "up"
    <3>1. Channels!Step(c, {"connected"}, W[c])
      BY <1>3, <2>4
    <3>2. Channels!BConnect(c)
      BY <2>4, <3>1 DEF Channels!BConnect
    <3>. QED BY <3>2 DEF Called, Channels!Next
  <2>5. CASE T[c] \in {"connected", "up"} /\ W[c] = "connected"
    <3>1. Channels!Step(c, {"connected", "up"}, W[c])
      BY <1>3, <2>5
    <3>2. Channels!BHangup(c)
      BY <2>5, <3>1 DEF Channels!BHangup
    <3>. QED BY <3>2 DEF Called, Channels!Next
  <2>6. CASE T[c] \in {"dialing", "ringing", "rejected", "connected"} /\ W[c] = "free"
    <3>1. Channels!Step(c, {"dialing", "ringing", "rejected", "connected"}, W[c])
      BY <1>3, <2>6
    <3>2. Channels!DHangup(c)
      BY <2>6, <3>1 DEF Channels!DHangup
    <3>. QED BY <3>2 DEF Called, Channels!Next
  <2>7. CASE ~Running /\ T[c] = "up" /\ W[c] = "free"
    <3>1. Channels!Step(c, {"up"}, W[c])
      BY <1>3, <2>7
    <3>2. Channels!DHangup(c)
      BY <2>7, <3>1 DEF Channels!DHangup, Running
    <3>. QED BY <3>2 DEF Called, Channels!Next
  <2>. QED BY <1>4, <2>1, <2>2, <2>3, <2>4, <2>5, <2>6, <2>7 DEF Turn
<1>. QED BY <1>2, <1>4

(* A step that leaves the phase of the removal as it is. *)
Onward(u) ==
  ~Running => /\ u.k.nbchan = card.nbchan
              /\ \/ u.l.up = line.up
                 \/ \E p \in Plci \cup {0} : line.up[p] # <<>> /\ u.l.up = Popped(line.up, p)

LEMMA FlowStep ==
  ASSUME FlowInv, DrvInv', pc' = pc, NEW u, Become(u), Onward(u), NEW c, Goes(now, u, c), Running => Regular(u)
  PROVE  FlowInv' /\ Called
<1>1. Plain(now) /\ now.k = card /\ now.l = line
  BY DEF FlowInv, now
<1>2. Frame(now, u, c) /\ Plain(u) /\ NoRing(line, u.l)
  BY <1>1 DEF Goes, Frame
<1>3. now' = u /\ card' = u.k /\ line' = u.l
  BY <1>2 DEF Plain, Shape, Become, now
<1>4. Plain(now)'
  BY <1>2, <1>3 DEF Plain, Shape, IsCard, IsLine, Queues
<1>5. ASSUME NEW y \in Chan PROVE Faithful(u, y)
  <2>1. CASE y = c
    BY <2>1 DEF Goes
  <2>2. CASE y # c
    <3>1. PICK x, n, t : x = card.plcip[y] /\ n = card.nccip[y] /\ t = card.told[y]
      OBVIOUS
    <3>2. /\ u.k.plcip[y] = x /\ u.k.nccip[y] = n /\ u.k.told[y] = t
          /\ y \in u.k.incoming <=> y \in card.incoming
      BY <1>1, <1>2, <2>2, <3>1 DEF Frame
    <3>3. Report(x, n, t, line.up) /\ (t \in {"ringing", "rejected"} => y \in card.incoming)
      BY <1>1, <3>1 DEF FlowInv, Faithful
    <3>4. Kin(x, x)
      BY KinSame
    <3>5. Report(x, n, t, u.l.up)
      BY <1>2, <3>3, <3>4, ReportSteady
    <3>. QED BY <3>2, <3>3, <3>5 DEF Faithful
  <2>. QED BY <2>1, <2>2
<1>6. (\A y \in Chan : Faithful(now, y))'
  BY <1>3, <1>5 DEF Faithful, Report, Has
<1>7. (Running => Regular(now))'
  <2>1. Running' <=> Running
    BY DEF Running
  <2>2. Running => Regular(now')
    BY <1>3
  <2>. QED BY <2>1, <2>2 DEF Regular, Lanes, Link
<1>8. Orderly(line.up)'
  <2>1. PICK U, V : U = line.up /\ V = line'.up
    OBVIOUS
  <2>2. CASE Running
    <3>1. Sound(u)
      BY <1>3, <2>2 DEF DrvInv, UpInv, Running, Sound, Shape, IsCard, IsLine
    <3>2. Lanes(u.l)
      BY <2>2 DEF Regular
    <3>. QED BY <1>3, <2>1, <3>1, <3>2, OrderlyLanes DEF Orderly
  <2>3. CASE ~Running
    <3>1. Orderly(U) /\ U = [p \in Plci \cup {0} |-> U[p]] /\ \A p \in Plci \cup {0} : IsSeq(U[p])
      BY <1>1, <2>1 DEF FlowInv, Plain, Queues
    <3>2. V = U \/ \E p \in Plci \cup {0} : U[p] # <<>> /\ V = Popped(U, p)
      BY <1>3, <2>1, <2>3 DEF Onward
    <3>3. Orderly(V)
      BY <3>1, <3>2, OrderlyPopped
    <3>. QED BY <2>1, <3>3 DEF Orderly
  <2>. QED BY <2>2, <2>3
<1>9. PICK T, W : T = card.told /\ W = card'.told
  OBVIOUS
<1>10. /\ T = [y \in Chan |-> T[y]] /\ W = [y \in Chan |-> W[y]]
       /\ \A y \in Chan : y # c => W[y] = T[y]
       /\ c \in Chan => Turn(T[c], W[c])
  BY <1>1, <1>2, <1>3, <1>9 DEF Plain, Frame, Goes
<1>11. (pc = "free" => Top \in Chan /\ card.told[Top] = "discarded")'
  <2>. SUFFICES ASSUME pc = "free" PROVE Top' \in Chan /\ W[Top'] = "discarded"
    BY <1>9
  <2>1. Top' = Top
    BY <1>3 DEF Onward, Running, Top
  <2>2. Top \in Chan /\ T[Top] = "discarded"
    BY <1>9 DEF FlowInv
  <2>3. W[Top] = "discarded"
    BY <1>10, <2>2 DEF Turn
  <2>. QED BY <2>1, <2>2, <2>3
<1>12. Called
  <2>1. CASE c \in Chan
    BY <1>9, <1>10, <2>1, CalledAt
  <2>2. CASE c \notin Chan
    <3>1. W = T
      BY <1>10, <2>2
    <3>. QED BY <1>9, <3>1 DEF Called
  <2>. QED BY <2>1, <2>2
<1>. QED BY <1>4, <1>6, <1>7, <1>8, <1>11, <1>12 DEF FlowInv

(* The message m is taken off the queue of p, which makes t of the driver. *)
LEMMA TakenFlow ==
  ASSUME FlowInv, DrvInv, RemInv, NEW p \in Plci \cup {0}, Head1(p), NEW t, t = Taken(p),
         NEW m, m = Head(line.up[p])
  PROVE  /\ Received(now, t, p, m) /\ m.cmd \in Commands
         /\ t.k = card /\ NoRing(line, t.l) /\ t.l.up = Popped(line.up, p)
         /\ p = 0 => m.cmd \in {"LISTEN_CONF", "CONNECT_CONF"}
         /\ m.cmd = "CONNECT_B3_IND" =>
              \A c \in Chan : t.k.plcip[c] # Null /\ t.k.plcip[c].plci = p => t.k.told[c] \in Answering
<1>1. Plain(now) /\ now.k = card /\ now.l = line
  BY DEF FlowInv, now
<1>2. PICK U, V : U = line.up /\ V = Popped(line.up, p)
  OBVIOUS
<1>3. /\ U = [y \in Plci \cup {0} |-> U[y]] /\ \A y \in Plci \cup {0} : IsSeq(U[y])
      /\ Orderly(U) /\ U[p] # <<>> /\ m = Head(U[p]) /\ V = Popped(U, p)
  BY <1>1, <1>2 DEF FlowInv, Plain, Queues, Head1
<1>4. /\ Typed(t) /\ t.k = card /\ m.cmd \in Commands
  BY TakenTyped
<1>5. /\ Shape(t) /\ t.l.up = V /\ t.l.d = line.d /\ t.l.b = line.b /\ t.l.data = line.data
  <2>1. t = [now EXCEPT !.l.up[p] = Tail(U[p])]
    BY <1>1, <1>2 DEF Taken
  <2>2. t.l = [line EXCEPT !.up = V] /\ Shape(now)
    BY <1>1, <1>2, <2>1 DEF Plain, Shape, Popped
  <2>3. IsLine(line)
    BY <1>1, <2>2 DEF Shape
  <2>. QED BY <1>4, <2>2, <2>3 DEF IsLine, Typed
<1>6. Shorter(U[p], m, V[p]) /\ V[p] = Tail(U[p])
  BY <1>3, QueueTail DEF Popped
<1>7. V = [y \in Plci \cup {0} |-> V[y]] /\ \A y \in Plci \cup {0} : y # p => V[y] = U[y]
  <2>1. V = [y \in Plci \cup {0} |-> IF y = p THEN Tail(U[p]) ELSE U[y]]
    BY <1>3 DEF Popped
  <2>. QED BY <1>6, <2>1
<1>8. \A cmd : Has(U[p], cmd) <=> Has(V[p], cmd) \/ m.cmd = cmd
  BY <1>6, HasTail
<1>9. NoRing(line, t.l)
  BY <1>2, <1>5, <1>7, <1>8 DEF NoRing
<1>10. Plain(t)
  <2>1. IsSeq(V[p])
    BY <1>6 DEF Shorter
  <2>2. Queues(t.l)
    BY <1>3, <1>5, <1>7, <2>1 DEF Queues
  <2>. QED BY <1>1, <1>4, <1>5, <2>2 DEF Plain
<1>11. ASSUME NEW c \in Chan PROVE Faithful(t, c)
  <2>1. PICK x, n, v : x = card.plcip[c] /\ n = card.nccip[c] /\ v = card.told[c]
    OBVIOUS
  <2>2. Report(x, n, v, line.up) /\ (v \in {"ringing", "rejected"} => c \in card.incoming)
    BY <1>1, <2>1 DEF FlowInv, Faithful
  <2>3. Kin(x, x)
    BY KinSame
  <2>4. Report(x, n, v, t.l.up)
    BY <1>9, <2>2, <2>3, ReportSteady
  <2>. QED BY <1>4, <2>1, <2>2, <2>4 DEF Faithful
<1>12. p = 0 => m.cmd \in {"LISTEN_CONF", "CONNECT_CONF"}
  <2>1. 1 \in Entries(U[p]) /\ m = U[p][1]
    BY <1>6 DEF Shorter
  <2>. QED BY <1>3, <2>1 DEF Orderly
<1>13. Begins(m) => ~Has(V[p], "CONNECT_B3_IND")
  <2>1. HasBegin(U[p]) <=> HasBegin(V[p]) \/ Begins(m)
    BY <1>6, MarksTail
  <2>2. CASE p \in Plci
    BY <1>3, <1>8, <2>1, <2>2 DEF Orderly
  <2>3. CASE p = 0
    <3>1. ASSUME NEW i \in Entries(V[0]) PROVE V[0][i].cmd \in {"LISTEN_CONF", "CONNECT_CONF"}
      <4>1. i + 1 \in Entries(U[0]) /\ V[0][i] = U[0][i + 1]
        BY <1>6, <2>3, <3>1 DEF Shorter
      <4>. QED BY <1>3, <4>1 DEF Orderly
    <3>. QED BY <2>3, <3>1 DEF Has
  <2>. QED BY <2>2, <2>3
<1>14. ASSUME Running PROVE TakenOff(now, t, p, m) /\ Regular(now) /\ Popping(now.l, t.l, p, m)
  <2>1. Regular(now) /\ Sound(now)
    BY <1>14 DEF FlowInv, DrvInv, UpInv
  <2>2. TakenOff(now, t, p, m)
    BY <1>1, <2>1 DEF TakenOff, Taken, Head1
  <2>3. Formed(line)
    BY <1>1, <2>1 DEF Regular, Lanes
  <2>4. Formed(t.l)
    BY <1>5, <1>7, <2>3 DEF Formed, Shape
  <2>5. Elsewhere(line, t.l, p)
    BY <1>2, <1>5, <1>7 DEF Elsewhere
  <2>6. Popping(line, t.l, p, m)
    BY <1>2, <1>3, <1>5, <1>6, <2>4, <2>5 DEF Popping
  <2>. QED BY <1>1, <2>1, <2>2, <2>6
<1>15. Received(now, t, p, m)
  BY <1>4, <1>5, <1>10, <1>11, <1>13, <1>14 DEF Received
<1>16. ASSUME m.cmd = "CONNECT_B3_IND", NEW c \in Chan, card.plcip[c] # Null, card.plcip[c].plci = p
       PROVE  card.told[c] \in Answering
  <2>1. Has(line.up[p], "CONNECT_B3_IND")
    BY <1>2, <1>8, <1>16
  <2>2. PICK x, n, v : x = card.plcip[c] /\ n = card.nccip[c] /\ v = card.told[c]
    OBVIOUS
  <2>3. Report(x, n, v, line.up)
    BY <1>1, <2>2 DEF FlowInv, Faithful
  <2>. QED BY <1>16, <2>1, <2>2, <2>3 DEF Report
<1>. QED BY <1>2, <1>4, <1>5, <1>9, <1>12, <1>15, <1>16

(* What the driver makes of t it makes of the driver's state before. *)
LEMMA TakenGoes ==
  ASSUME FlowInv, NEW t, t.k = card, NoRing(line, t.l), NEW u, NEW c, Goes(t, u, c)
  PROVE  Goes(now, u, c)
<1>1. now.k = card /\ now.l = line
  BY DEF now
<1>2. NoRing(line, u.l)
  BY NoRingTwice DEF Goes
<1>3. Frame(now, u, c)
  BY <1>1 DEF Goes, Frame
<1>. QED BY <1>1, <1>2, <1>3 DEF Goes

LEMMA FlowRecv ==
  ASSUME FlowInv, DrvInv, RemInv, DrvInv', NEW p \in Plci \cup {0}, capidrv_recv_message(p)
  PROVE  FlowInv' /\ Called
<1>1. PICK t, m : t = Taken(p) /\ m = Head(line.up[p])
  OBVIOUS
<1>2. Head1(p) /\ pc' = pc
  BY DEF capidrv_recv_message
<1>3. /\ Received(now, t, p, m) /\ m.cmd \in Commands
      /\ t.k = card /\ NoRing(line, t.l) /\ t.l.up = Popped(line.up, p)
      /\ p = 0 => m.cmd \in {"LISTEN_CONF", "CONNECT_CONF"}
      /\ m.cmd = "CONNECT_B3_IND" =>
           \A c \in Chan : t.k.plcip[c] # Null /\ t.k.plcip[c].plci = p => t.k.told[c] \in Answering
  BY <1>1, <1>2, TakenFlow
<1>4. line.up[p] # <<>>
  BY <1>2 DEF Head1
<1>5. CASE HasCard
  <2>1. m.cmd # "CONNECT_IND" /\ \E u \in handle(t, p, m) : Become(u)
    BY <1>1, <1>5 DEF capidrv_recv_message
  <2>2. PICK u \in handle(t, p, m) : Become(u)
    BY <2>1
  <2>3. Handles(t, u)
    BY <1>3, <2>1, GoHandled
  <2>4. PICK c : Goes(t, u, c)
    BY <2>3 DEF Handles
  <2>5. Goes(now, u, c)
    BY <1>3, <2>4, TakenGoes
  <2>6. Running => Regular(u)
    BY <2>3 DEF Handles
  <2>7. Onward(u)
    <3>1. SUFFICES ASSUME ~Running PROVE u.k.nbchan = card.nbchan /\ u.l.up = Popped(line.up, p)
      BY <1>4, <3>1 DEF Onward
    <3>2. Typed(t) /\ Quiet(t, Passed, p, m) /\ Left(t, Passed) /\ Passed \in SUBSET Chan
      BY <1>1, <1>2, <3>1, TakenTyped, PassedChannels DEF Running
    <3>3. Spares(t, u, Passed)
      BY <1>3, <2>1, <3>2, HandleSpares
    <3>. QED BY <1>3, <3>1, <3>3 DEF Spares, Touch, Running
  <2>. QED BY <1>2, <2>2, <2>5, <2>6, <2>7, FlowStep
<1>6. CASE ~HasCard
  <2>1. Become(t)
    BY <1>1, <1>6 DEF capidrv_recv_message
  <2>2. ~Running
    BY <1>6 DEF HasCard, Running
  <2>3. Onward(t)
    BY <1>3, <1>4 DEF Onward
  <2>4. Goes(t, t, Null)
    BY <1>3, NoRingSame, DrvAssumption DEF Goes, Frame, Received
  <2>5. Goes(now, t, Null)
    BY <1>3, <2>4, TakenGoes
  <2>. QED BY <1>2, <2>1, <2>2, <2>3, <2>5, FlowStep
<1>. QED BY <1>5, <1>6

-------------------------------------------------------------------------------
(* The commands of isdn4linux.                                             *)

(* A channel with its structures. *)
LEMMA NowAt ==
  ASSUME FlowInv, NEW c \in Chan, NEW x, NEW n, NEW v,
         x = card.plcip[c], n = card.nccip[c], v = card.told[c]
  PROVE  /\ Plain(now) /\ now.k = card /\ now.l = line
         /\ Becomes(now, now, c, x, n, v)
         /\ x \in Records \cup {Null} /\ n \in Nccis \cup {Null} /\ v \in Tolds
         /\ Report(x, n, v, line.up)
         /\ v \in {"ringing", "rejected"} => c \in card.incoming
         /\ Running => Connection(x, n, v, line) /\ Lanes(line)
<1>1. Plain(now) /\ now.k = card /\ now.l = line
  BY DEF FlowInv, now
<1>2. Becomes(now, now, c, x, n, v)
  BY <1>1, Same
<1>3. x \in Records \cup {Null} /\ n \in Nccis \cup {Null} /\ v \in Tolds
  BY <1>1 DEF Plain
<1>4. Report(x, n, v, line.up) /\ (v \in {"ringing", "rejected"} => c \in card.incoming)
  BY <1>1 DEF FlowInv, Faithful
<1>5. Running => Connection(x, n, v, line) /\ Lanes(line)
  BY <1>1 DEF FlowInv, Regular, Link
<1>. QED BY <1>1, <1>2, <1>3, <1>4, <1>5

(* Only the channel c changes, and at most its connection q. *)
Within(u, c, q, y, m, v) ==
  Lanes(u.l) /\ Elsewhere(line, u.l, q) /\ Strange(now, c, q) /\ Connection(y, m, v, u.l)

LEMMA FlowAt ==
  ASSUME FlowInv, DrvInv', pc' = pc, NEW u, Become(u), NEW c \in Chan, NEW y, NEW m, NEW v,
         Becomes(now, u, c, y, m, v), NoRing(line, u.l), Turn(card.told[c], v), Report(y, m, v, u.l.up),
         v \in {"ringing", "rejected"} => c \in card.incoming /\ y # Null,
         NEW q, Running => Within(u, c, q, y, m, v),
         Onward(u)
  PROVE  FlowInv' /\ Called
<1>1. now.k = card /\ now.l = line
  BY DEF now
<1>2. Goes(now, u, c)
  BY <1>1, GoesAt
<1>3. ASSUME Running PROVE Regular(u)
  <2>1. Within(u, c, q, y, m, v) /\ Frame(now, u, c)
    BY <1>3 DEF Becomes
  <2>2. \A z \in Chan : Link(now, z)
    BY <1>3 DEF FlowInv, Regular
  <2>3. \A z \in Chan : z # c => Link(u, z)
    BY <1>1, <2>1, <2>2, OthersLinked DEF Within
  <2>. QED BY <2>1, <2>3, LinkedAt DEF Within
<1>. QED BY <1>2, <1>3, FlowStep

(* A channel with a connection, and the others, which have not the same.   *)
LEMMA NowStrange ==
  ASSUME DrvInv, Running, NEW c \in Chan, card.plcip[c] # Null, NEW p, p = card.plcip[c].plci
  PROVE  /\ Strange(now, c, p) /\ p \in Plci \cup {0}
         /\ p \in Plci => Owns(card.plcip, c, p) /\ ~HasBegin(line.up[p]) /\ line.d[p] # "idle"
                          /\ (line.d[p] = "gone" => HasEnd(line.up[p]))
         /\ p = 0 <=> card.plcip[c].state = "OUTGOING"
         /\ card.plcip[c].state \in CallStates
         /\ c \in card.incoming => p \in Plci
<1>1. Sound(now) /\ now.k = card /\ now.l = line
  BY NowIs DEF DrvInv
<1>2. /\ Agree(card.plcip, card.plci_list, card.incoming, card.told, line.d, line.up)
      /\ Structures(card.plcip, card.plci_list, card.incoming, card.told)
  BY <1>1 DEF Sound, Agree
<1>3. card.plcip[c] \in Plcis /\ (p = 0 <=> card.plcip[c].state = "OUTGOING") /\ (c \in card.incoming => p # 0)
  BY <1>2 DEF Structures
<1>4. p \in Plci \cup {0} /\ card.plcip[c].state \in CallStates
  BY <1>3 DEF Plcis
<1>5. ASSUME p \in Plci
      PROVE /\ Owns(card.plcip, c, p) /\ ~HasBegin(line.up[p]) /\ line.d[p] # "idle"
            /\ (line.d[p] = "gone" => HasEnd(line.up[p])) /\ Strange(now, c, p)
  <2>1. Owns(card.plcip, c, p)
    BY <1>5 DEF Owns
  <2>2. /\ ~HasBegin(line.up[p]) /\ line.d[p] # "idle" /\ (line.d[p] = "gone" => HasEnd(line.up[p]))
        /\ \A y : Owns(card.plcip, y, p) => y = c
    BY <1>2, <1>5, <2>1, OwnerKnown
  <2>3. Strange(now, c, p)
    BY <1>1, <1>5, <2>2 DEF Strange, Owns
  <2>. QED BY <2>1, <2>2, <2>3
<1>6. p = 0 => Strange(now, c, p)
  BY DEF Strange
<1>. QED BY <1>3, <1>4, <1>5, <1>6

LEMMA FlowSame ==
  ASSUME FlowInv, DrvInv', UNCHANGED <<card, line, pc>>
  PROVE  FlowInv' /\ Called
<1>1. Plain(now) /\ now.k = card /\ now.l = line
  BY DEF FlowInv, now
<1>2. Become(now) /\ Onward(now)
  BY <1>1 DEF Become, Onward
<1>3. Goes(now, now, Null)
  BY <1>1, NoRingSame, DrvAssumption DEF Goes, Frame
<1>. QED BY <1>2, <1>3, FlowStep DEF FlowInv

(* The call that isdn4linux is being offered. *)
LEMMA FlowRejected ==
  ASSUME FlowInv, DrvInv, RemInv, DrvInv', icall_rejected
  PROVE  FlowInv' /\ Called
<1>1. PICK c : c = icall
  OBVIOUS
<1>2. PICK x, n, v, p : x = card.plcip[c] /\ n = card.nccip[c] /\ v = card.told[c] /\ p = x.plci
  OBVIOUS
<1>3. c \in Chan /\ x # Null /\ c \in card.incoming /\ x.state = "INCOMING" /\ pc' = pc
  BY <1>1, <1>2 DEF icall_rejected, RemInv, OfferedCall
<1>4. /\ Plain(now) /\ now.k = card /\ now.l = line
      /\ Becomes(now, now, c, x, n, v)
      /\ x \in Records \cup {Null} /\ n \in Nccis \cup {Null} /\ v \in Tolds
      /\ Report(x, n, v, line.up)
      /\ Running => Connection(x, n, v, line) /\ Lanes(line)
  BY <1>2, <1>3, NowAt
<1>5. v \in {"ringing", "discarded"}
  BY <1>3, <1>4 DEF Report
<1>6. PICK t \in send_message(now, "CONNECT_REJECT", p, 0) :
        Become(Tell(plci_change_state(t, c, "CONNECT_REJECT"), c, "rejected"))
  BY <1>1, <1>2 DEF icall_rejected
<1>7. PICK w : w = plci_change_state(t, c, "CONNECT_REJECT")
  OBVIOUS
<1>8. PICK u : u = Tell(w, c, "rejected")
  OBVIOUS
<1>9. PICK h : h = Heard(v, "rejected")
  OBVIOUS
<1>10. Becomes(now, t, c, x, n, v) /\ NoRing(line, t.l) /\ t.k = card
  BY <1>3, <1>4, <1>6, PutMessage
<1>11. Reacts(now, t, w, c, x, n, v, "CONNECT_REJECT")
  BY <1>3, <1>7, <1>10, PlciEvent
<1>12. w.l = t.l /\ \E y \in Records : /\ Becomes(now, w, c, y, n, v) /\ y.plci = x.plci
                                       /\ y.state \notin {"INCOMING", "OUTGOING"}
  BY <1>3, <1>11, PlciMoves, PlciRows DEF Reacts
<1>13. PICK y \in Records : /\ Becomes(now, w, c, y, n, v) /\ y.plci = x.plci
                            /\ y.state \notin {"INCOMING", "OUTGOING"}
  BY <1>12
<1>14. Becomes(now, u, c, y, n, h) /\ u.l = t.l
  <2>1. "rejected" \in Tolds
    BY DEF Tolds
  <2>. QED BY <1>3, <1>8, <1>9, <1>12, <1>13, <2>1, PutTold
<1>15. y # Null /\ NoRing(line, u.l)
  BY <1>10, <1>14, NullIsNone
<1>16. Turn(v, h) /\ h \in {"rejected", "discarded"} /\ (h = "discarded" <=> v = "discarded")
  BY <1>5, <1>9 DEF Heard, Turn
<1>17. Report(y, n, h, u.l.up)
  BY <1>3, <1>4, <1>5, <1>13, <1>15, <1>16 DEF Report, Answering, NoRing
<1>18. ASSUME Running PROVE Within(u, c, p, y, n, h)
  <2>1. Strange(now, c, p) /\ p \in Plci
    BY <1>2, <1>3, <1>18, NowStrange
  <2>2. Shape(now) /\ "CONNECT_REJECT" \in Harmless
    BY <1>4 DEF Plain, Harmless, Requests
  <2>3. Lanes(t.l) /\ Elsewhere(line, t.l, p) /\ Steady(line, t.l, p)
    BY <1>4, <1>6, <1>18, <2>1, <2>2, HarmlessLanes
  <2>4. Connection(x, n, v, t.l)
    BY <1>4, <1>18, <2>1, <2>3, ConnSteady
  <2>5. Connection(y, n, v, t.l)
    BY <1>3, <1>13, <1>15, <2>4, ConnState
  <2>6. Connection(y, n, h, t.l)
    BY <1>5, <1>13, <1>16, <2>5 DEF Connection, Answering
  <2>. QED BY <1>14, <2>1, <2>3, <2>6 DEF Within
<1>19. Onward(u)
  <2>1. Typed(now)
    BY NowTyped
  <2>2. Mild(now, t, c)
    BY <1>6, <2>1, SendTouches
  <2>3. Mild(t, w, c)
    <3>1. Typed(t)
      BY <2>2 DEF Mild, Calm, Touch
    <3>2. t.k.plcip[c] # Null
      BY <1>2, <1>3, <1>10
    <3>. QED BY <1>3, <1>7, <3>1, <3>2, PlciSteps
  <2>4. Mild(w, u, c)
    BY <1>3, <1>8, <2>3, TellStays DEF Mild, Calm, Touch
  <2>5. Mild(now, u, c)
    BY <2>2, <2>3, <2>4, MildTwice
  <2>. QED BY <1>4, <2>5 DEF Mild, Calm, Touch, Onward, Running
<1>20. Become(u)
  BY <1>6, <1>7, <1>8
<1>21. h \in {"ringing", "rejected"} => c \in card.incoming /\ y # Null
  BY <1>3, <1>15
<1>22. Turn(card.told[c], h)
  BY <1>2, <1>16
<1>. QED BY <1>3, <1>14, <1>15, <1>17, <1>18, <1>19, <1>20, <1>21, <1>22, FlowAt

(* ALERT_REQ has been sent, and its number is in the structure. *)
LEMMA FlowAlert ==
  ASSUME FlowInv, DrvInv, DrvInv', pc' = pc, NEW c \in Chan, NEW x, NEW p,
         x = card.plcip[c], x # Null, c \in card.incoming, p = x.plci, NEW id \in Msgids,
         NEW t \in send_message(now, "ALERT_REQ", p, id), NEW u, u = WithMsgid(t, c, id), Become(u)
  PROVE  FlowInv' /\ Called
<1>1. PICK n, v : n = card.nccip[c] /\ v = card.told[c]
  OBVIOUS
<1>2. /\ Plain(now) /\ now.k = card /\ now.l = line
      /\ Becomes(now, now, c, x, n, v)
      /\ x \in Records \cup {Null} /\ v \in Tolds
      /\ Report(x, n, v, line.up)
      /\ v \in {"ringing", "rejected"} => c \in card.incoming
      /\ Running => Connection(x, n, v, line) /\ Lanes(line)
  BY <1>1, NowAt
<1>3. Becomes(now, t, c, x, n, v) /\ NoRing(line, t.l) /\ t.k = card /\ Plain(t)
  BY <1>2, PutMessage
<1>4. \A i \in Msgids \cup {0} : \A z : z = WithMsgid(t, c, i) =>
        \E y \in Records : Becomes(now, z, c, y, n, v) /\ z.l = t.l
                           /\ y.plci = x.plci /\ y.state = x.state
  BY <1>3, PutMsgid
<1>5. PICK y \in Records : Becomes(now, u, c, y, n, v) /\ u.l = t.l
                           /\ y.plci = x.plci /\ y.state = x.state
  BY <1>4
<1>6. y # Null /\ NoRing(line, u.l)
  BY <1>3, <1>5, NullIsNone
<1>7. Kin(x, y)
  BY <1>5 DEF Kin
<1>8. Report(y, n, v, u.l.up)
  <2>1. n # Null /\ n.live => (n # Null /\ n.live) \/ (y # Null /\ v \in Answering)
    OBVIOUS
  <2>. QED BY <1>2, <1>6, <1>7, <2>1, ReportSteady
<1>9. ASSUME Running PROVE Within(u, c, p, y, n, v)
  <2>1. Strange(now, c, p) /\ p \in Plci
    BY <1>9, NowStrange
  <2>2. Shape(now) /\ "ALERT_REQ" \in Harmless
    BY <1>2 DEF Plain, Harmless, Requests
  <2>3. Lanes(t.l) /\ Elsewhere(line, t.l, p) /\ Steady(line, t.l, p)
    BY <1>2, <1>9, <2>1, <2>2, HarmlessLanes
  <2>4. Connection(x, n, v, t.l)
    BY <1>2, <1>9, <2>1, <2>3, ConnSteady
  <2>5. Connection(y, n, v, t.l)
    BY <1>5, <1>6, <2>4, ConnState
  <2>. QED BY <1>5, <2>1, <2>3, <2>5 DEF Within
<1>10. Onward(u)
  <2>1. Shape(now) /\ Shape(t)
    BY <1>2, <1>3 DEF Plain
  <2>2. pc # "up" => t.l.up = line.up
    BY <1>2, <2>1, SendSplit
  <2>3. u.k.nbchan = t.k.nbchan
    BY <2>1 DEF WithMsgid, Shape, IsCard
  <2>. QED BY <1>3, <1>5, <2>2, <2>3 DEF Onward, Running
<1>11. Turn(card.told[c], v)
  BY <1>1 DEF Turn
<1>. QED BY <1>2, <1>5, <1>6, <1>8, <1>9, <1>10, <1>11, FlowAt

LEMMA FlowTaken ==
  ASSUME FlowInv, DrvInv, RemInv, DrvInv', icall_taken
  PROVE  FlowInv' /\ Called
<1>1. pc' = pc
  BY DEF icall_taken
<1>2. PICK c, x : c = icall /\ x = card.plcip[c]
  OBVIOUS
<1>3. c \in Chan /\ c \in card.incoming /\ x # Null
  BY <1>2 DEF icall_taken, RemInv, OfferedCall
<1>4. CASE UNCHANGED <<card, line>>
  BY <1>1, <1>4, FlowSame
<1>5. CASE ~UNCHANGED <<card, line>>
  <2>1. \E id \in FreshIds : \E t \in send_message(now, "ALERT_REQ", x.plci, id) : Become(WithMsgid(t, c, id))
    BY <1>2, <1>5 DEF icall_taken, WithMsgid
  <2>2. PICK id \in FreshIds : \E t \in send_message(now, "ALERT_REQ", x.plci, id) : Become(WithMsgid(t, c, id))
    BY <2>1
  <2>3. PICK t \in send_message(now, "ALERT_REQ", x.plci, id) : Become(WithMsgid(t, c, id))
    BY <2>2
  <2>4. PICK u, p : u = WithMsgid(t, c, id) /\ p = x.plci
    OBVIOUS
  <2>5. id \in Msgids
    BY DEF FreshIds
  <2>6. Become(u) /\ t \in send_message(now, "ALERT_REQ", p, id)
    BY <2>3, <2>4
  <2>. QED BY <1>1, <1>2, <1>3, <2>4, <2>5, <2>6, FlowAlert
<1>. QED BY <1>4, <1>5

LEMMA FlowAcceptd ==
  ASSUME FlowInv, DrvInv, DrvInv', NEW c \in Chan, capidrv_command_acceptd(c)
  PROVE  FlowInv' /\ Called
<1>1. Running /\ pc' = pc /\ card.told[c] = "ringing"
  BY DEF capidrv_command_acceptd, Commanded, Running
<1>2. PICK x, n, v, p : x = card.plcip[c] /\ n = card.nccip[c] /\ v = card.told[c] /\ p = x.plci
  OBVIOUS
<1>3. /\ Plain(now) /\ now.k = card /\ now.l = line
      /\ Becomes(now, now, c, x, n, v)
      /\ x \in Records \cup {Null} /\ n \in Nccis \cup {Null} /\ v \in Tolds
      /\ Report(x, n, v, line.up)
      /\ v \in {"ringing", "rejected"} => c \in card.incoming
      /\ Running => Connection(x, n, v, line) /\ Lanes(line)
  BY <1>2, NowAt
<1>4. x # Null /\ v = "ringing" /\ c \in card.incoming
  BY <1>1, <1>2, <1>3 DEF Report
<1>5. Strange(now, c, p) /\ p \in Plci /\ ~HasBegin(line.up[p]) /\ x.state # "OUTGOING"
  <2>1. /\ Strange(now, c, p) /\ p \in Plci \cup {0}
        /\ p \in Plci => ~HasBegin(line.up[p])
        /\ p = 0 <=> x.state = "OUTGOING"
        /\ c \in card.incoming => p \in Plci
    BY <1>1, <1>2, <1>4, NowStrange
  <2>. QED BY <1>4, <2>1, DrvAssumption
<1>6. PICK w : w = plci_change_state(now, c, "CONNECT_RESP")
  OBVIOUS
<1>7. PICK t \in send_message(w, "CONNECT_RESP", p, 0) : Become(Tell(t, c, "connected"))
  BY <1>2, <1>6 DEF capidrv_command_acceptd
<1>8. PICK u : u = Tell(t, c, "connected")
  OBVIOUS
<1>9. Reacts(now, now, w, c, x, n, v, "CONNECT_RESP")
  BY <1>3, <1>4, <1>6, PlciEvent
<1>10. w.l = line /\ \E y \in Records : /\ Becomes(now, w, c, y, n, v) /\ y.plci = x.plci
                                        /\ y.state \notin {"INCOMING", "OUTGOING"}
  <2>1. CASE w = now /\ NoRow(plcitable, x.state, "CONNECT_RESP")
    <3>1. x.state # "INCOMING"
      BY <2>1, PlciMoves
    <3>2. x \in Records
      BY <1>3, <1>4
    <3>. QED BY <1>3, <1>5, <2>1, <3>1, <3>2
  <2>2. CASE ~(w = now /\ NoRow(plcitable, x.state, "CONNECT_RESP"))
    BY <1>3, <1>9, <2>2, PlciRows DEF Reacts
  <2>. QED BY <2>1, <2>2
<1>11. PICK y \in Records : /\ Becomes(now, w, c, y, n, v) /\ y.plci = x.plci
                            /\ y.state \notin {"INCOMING", "OUTGOING"}
  BY <1>10
<1>12. Becomes(now, t, c, y, n, v) /\ NoRing(line, t.l)
  BY <1>7, <1>10, <1>11, PutMessage
<1>13. PICK h : h = "connected"
  OBVIOUS
<1>14. Becomes(now, u, c, y, n, h) /\ u.l = t.l
  <2>1. "connected" \in Tolds /\ h = Heard(v, "connected") /\ y # Null
    BY <1>4, <1>13, NullIsNone DEF Tolds, Heard
  <2>. QED BY <1>8, <1>12, <2>1, PutTold
<1>15. n # Null => ~n.live
  BY <1>3, <1>4 DEF Report, Answering
<1>16. y # Null /\ NoRing(line, u.l)
  BY <1>12, <1>14, NullIsNone
<1>17. Report(y, n, h, u.l.up)
  BY <1>11, <1>13, <1>15, <1>16 DEF Report, Answering
<1>18. Within(u, c, p, y, n, h)
  <2>1. Shape(w) /\ "CONNECT_RESP" \in Requests /\ Lanes(w.l)
    BY <1>1, <1>3, <1>10, <1>11 DEF Becomes, Frame, Plain, Requests
  <2>2. Lanes(t.l) /\ Elsewhere(line, t.l, p)
    BY <1>5, <1>7, <1>10, <2>1, SendLanes
  <2>3. n # Null => Unnumbered(n)
    BY <1>1, <1>3, <1>15, <1>16 DEF Connection, Carries, Numbered
  <2>4. Connection(y, n, h, t.l)
    BY <1>11, <1>13, <2>3 DEF Connection, Carries, Answering
  <2>. QED BY <1>5, <1>14, <2>2, <2>4 DEF Within
<1>19. Onward(u)
  BY <1>1 DEF Onward
<1>20. Become(u)
  BY <1>7, <1>8
<1>21. Turn(card.told[c], h) /\ h \notin {"ringing", "rejected"}
  BY <1>1, <1>13 DEF Turn
<1>. QED BY <1>1, <1>14, <1>16, <1>17, <1>18, <1>19, <1>20, <1>21, FlowAt

(* The hangup of a B3 connection: the NCCI e of the channel leads to it as *)
(* n did.                                                                  *)
Parting(n, e) ==
  e # Null /\ e.ncci = n.ncci /\ e.live = n.live

LEMMA PartingNcci ==
  ASSUME NEW w, NEW t, NEW c \in Chan, NEW x, NEW n, NEW v, Becomes(w, t, c, x, n, v), n # Null,
         NEW l, Connection(x, n, v, l), NEW u \in ncci_change_state(t, c, "DISCONNECT_B3_REQ")
  PROVE  \E e : Becomes(w, u, c, x, e, v) /\ u.l = t.l /\ Parting(n, e) /\ Connection(x, e, v, l)
<1>1. n \in Nccis
  BY Parts
<1>2. \/ u = t /\ NoRow(nccitable, n.state, "DISCONNECT_B3_REQ")
      \/ Row(nccitable, n.state, "DISCONNECT_B3_REQ", "NONE") /\ u \in n0(t, c)
      \/ \E m, z : /\ Row(nccitable, n.state, "DISCONNECT_B3_REQ", z) /\ z # "NONE"
                   /\ Becomes(w, u, c, x, m, v) /\ u.l = t.l
                   /\ Enters(n, m, IF z = "PREVIOUS" THEN n.oldstate ELSE z)
  BY NcciEvent
<1>3. CASE u = t
  BY <1>3 DEF Parting
<1>4. CASE Row(nccitable, n.state, "DISCONNECT_B3_REQ", "NONE")
  BY <1>4, NcciRows
<1>5. CASE \E m, z : /\ Row(nccitable, n.state, "DISCONNECT_B3_REQ", z) /\ z # "NONE"
                     /\ Becomes(w, u, c, x, m, v) /\ u.l = t.l
                     /\ Enters(n, m, IF z = "PREVIOUS" THEN n.oldstate ELSE z)
  <2>1. PICK m, z : /\ Row(nccitable, n.state, "DISCONNECT_B3_REQ", z)
                    /\ Becomes(w, u, c, x, m, v) /\ u.l = t.l
                    /\ Enters(n, m, IF z = "PREVIOUS" THEN n.oldstate ELSE z)
    BY <1>5
  <2>2. n.state \in Linked /\ z = "DISCONNECTING"
    BY <2>1, NcciRows
  <2>3. Enters(n, m, "DISCONNECTING") /\ m # Null
    BY <2>1, <2>2, NullIsNone DEF Enters
  <2>4. Numbered(x, n, l) /\ n.state \in Linkable
    BY <2>2 DEF Connection, Carries, Unnumbered, Numbered, Linked, Linkable
  <2>5. Numbered(x, m, l)
    BY <2>3, <2>4 DEF Numbered, Enters
  <2>6. Connection(x, m, v, l)
    BY <2>3, <2>5 DEF Connection, Carries, Enters
  <2>7. Parting(n, m)
    BY <2>3 DEF Parting, Enters
  <2>. QED BY <2>1, <2>6, <2>7
<1>. QED BY <1>2, <1>3, <1>4, <1>5

(* What a command of the channel c leaves: the PLCI y and the NCCI m, with *)
(* nothing told, and a request of the connection p sent.                   *)
LEMMA FlowRequest ==
  ASSUME FlowInv, DrvInv, DrvInv', pc' = pc, Running, NEW c \in Chan, NEW x, NEW n, NEW v,
         x = card.plcip[c], n = card.nccip[c], v = card.told[c],
         NEW w, NEW y, NEW m, Becomes(now, w, c, y, m, v), w.l = line,
         (y = Null) <=> (x = Null), y # Null => Kin(x, y),
         m # Null /\ m.live => n # Null /\ n.live,
         NEW cmd \in Harmless, NEW p,
         \/ p = 0 /\ cmd = "DISCONNECT_B3_REQ"
         \/ p \in Plci /\ x # Null /\ x.plci = p,
         Connection(y, m, v, line),
         NEW u \in send_message(w, cmd, p, 0), Become(u)
  PROVE  FlowInv' /\ Called
<1>1. /\ now.k = card /\ now.l = line
      /\ Report(x, n, v, line.up)
      /\ v \in {"ringing", "rejected"} => c \in card.incoming
      /\ Lanes(line)
  BY NowAt
<1>2. Becomes(now, u, c, y, m, v) /\ NoRing(line, u.l)
  BY PutMessage
<1>3. Report(y, m, v, u.l.up)
  <2>1. m # Null /\ m.live => (n # Null /\ n.live) \/ (y # Null /\ v \in Answering)
    OBVIOUS
  <2>2. (y = Null <=> x = Null) /\ (y # Null => Kin(x, y))
    OBVIOUS
  <2>3. Report(x, n, v, line.up)
    BY <1>1
  <2>. QED BY <1>2, <2>1, <2>2, <2>3, ReportSteady
<1>4. Shape(w) /\ Lanes(w.l)
  BY <1>1 DEF Becomes, Frame, Plain
<1>5. Within(u, c, p, y, m, v)
  <2>1. CASE p \in Plci /\ x # Null /\ x.plci = p
    <3>1. Strange(now, c, p)
      BY <2>1, NowStrange
    <3>2. Lanes(u.l) /\ Elsewhere(line, u.l, p) /\ Steady(line, u.l, p)
      BY <1>4, <2>1, HarmlessLanes
    <3>3. Connection(y, m, v, u.l)
      BY <1>1, <2>1, <3>2, ConnSteady
    <3>. QED BY <3>1, <3>2, <3>3 DEF Within
  <2>2. CASE p = 0 /\ cmd = "DISCONNECT_B3_REQ"
    <3>1. Strange(now, c, p)
      BY <2>2 DEF Strange
    <3>2. u \in send_message(w, "DISCONNECT_B3_REQ", 0, 0)
      BY <2>2
    <3>3. Lanes(u.l) /\ Elsewhere(line, u.l, p)
      BY <1>4, <2>2, <3>2, SendZeroLanes
    <3>4. Connection(y, m, v, u.l)
      BY <2>2, <3>3, ConnElse
    <3>. QED BY <3>1, <3>3, <3>4 DEF Within
  <2>. QED BY <2>1, <2>2
<1>6. Onward(u)
  BY DEF Onward
<1>7. Turn(card.told[c], v) /\ (v \in {"ringing", "rejected"} => c \in card.incoming /\ y # Null)
  <2>1. x = Null => v \in {"free", "discarded"}
    BY <1>1 DEF Report
  <2>. QED BY <1>1, <2>1 DEF Turn
<1>. QED BY <1>2, <1>3, <1>5, <1>6, <1>7, FlowAt

LEMMA FlowHangup ==
  ASSUME FlowInv, DrvInv, DrvInv', NEW c \in Chan, capidrv_command_hangup(c)
  PROVE  FlowInv' /\ Called
<1>1. Running /\ pc' = pc
  BY DEF capidrv_command_hangup, Commanded, Running
<1>2. PICK x, n, v : x = card.plcip[c] /\ n = card.nccip[c] /\ v = card.told[c]
  OBVIOUS
<1>3. /\ Plain(now) /\ now.k = card /\ now.l = line
      /\ Becomes(now, now, c, x, n, v)
      /\ x \in Records \cup {Null} /\ n \in Nccis \cup {Null} /\ v \in Tolds
      /\ Report(x, n, v, line.up)
      /\ v \in {"ringing", "rejected"} => c \in card.incoming
      /\ Running => Connection(x, n, v, line) /\ Lanes(line)
  BY <1>2, NowAt
<1>4. PICK t : t = Disconnecting(now, c)
  OBVIOUS
<1>5. Becomes(now, t, c, x, n, v) /\ t.l = line
  BY <1>3, <1>4, PutDisconnecting
<1>6. \/ /\ n # Null
         /\ \E u \in ncci_change_state(t, c, "DISCONNECT_B3_REQ") :
              \E z \in send_message(u, "DISCONNECT_B3_REQ", n.ncci, 0) : Become(z)
      \/ Become(t)
      \/ /\ x # Null /\ x.plci # 0
         /\ \E z \in send_message(plci_change_state(t, c, "DISCONNECT_REQ"),
                                  "DISCONNECT_REQ", x.plci, 0) : Become(z)
  BY <1>2, <1>4 DEF capidrv_command_hangup
<1>7. "DISCONNECT_B3_REQ" \in Harmless /\ "DISCONNECT_REQ" \in Harmless
  BY DEF Harmless, Requests
<1>8. Kin(x, x)
  BY KinSame
<1>9. ASSUME n # Null, NEW w \in ncci_change_state(t, c, "DISCONNECT_B3_REQ"),
             NEW z \in send_message(w, "DISCONNECT_B3_REQ", n.ncci, 0), Become(z)
      PROVE  FlowInv' /\ Called
  <2>1. Connection(x, n, v, line)
    BY <1>1, <1>3
  <2>2. PICK e : Becomes(now, w, c, x, e, v) /\ w.l = line /\ Parting(n, e) /\ Connection(x, e, v, line)
    BY <1>5, <1>9, <2>1, PartingNcci
  <2>3. PICK p : p = n.ncci
    OBVIOUS
  <2>4. p = 0 \/ (p \in Plci /\ x # Null /\ x.plci = p)
    BY <1>9, <2>1, <2>3 DEF Connection, Carries, Unnumbered, Numbered
  <2>5. z \in send_message(w, "DISCONNECT_B3_REQ", p, 0)
    BY <1>9, <2>3
  <2>6. e # Null /\ e.live => n # Null /\ n.live
    BY <1>9, <2>2 DEF Parting
  <2>. QED BY <1>1, <1>2, <1>7, <1>8, <1>9, <2>2, <2>4, <2>5, <2>6, FlowRequest
<1>10. ASSUME Become(t) PROVE FlowInv' /\ Called
  <2>1. Within(t, c, 0, x, n, v)
    BY <1>1, <1>3, <1>5, SameLine DEF Within, Strange
  <2>2. Onward(t) /\ NoRing(line, t.l)
    BY <1>1, <1>5, NoRingSame DEF Onward
  <2>3. Turn(card.told[c], v) /\ (v \in {"ringing", "rejected"} => c \in card.incoming /\ x # Null)
    BY <1>2, <1>3 DEF Turn, Report
  <2>4. Report(x, n, v, t.l.up)
    BY <1>3, <1>5
  <2>. QED BY <1>1, <1>5, <1>10, <2>1, <2>2, <2>3, <2>4, FlowAt
<1>11. ASSUME x # Null, x.plci # 0, NEW w, w = plci_change_state(t, c, "DISCONNECT_REQ"),
              NEW z \in send_message(w, "DISCONNECT_REQ", x.plci, 0), Become(z)
       PROVE  FlowInv' /\ Called
  <2>1. Reacts(now, t, w, c, x, n, v, "DISCONNECT_REQ")
    BY <1>5, <1>11, PlciEvent
  <2>2. w.l = line /\ \E y \in Records : Becomes(now, w, c, y, n, v) /\ Kin(x, y)
    <3>1. CASE w = t
      BY <1>3, <1>5, <1>8, <1>11, <3>1
    <3>2. CASE w # t
      BY <1>5, <2>1, <3>2, PlciRows DEF Reacts, Kin
    <3>. QED BY <3>1, <3>2
  <2>3. PICK y \in Records : Becomes(now, w, c, y, n, v) /\ Kin(x, y)
    BY <2>2
  <2>4. y # Null
    BY NullIsNone
  <2>5. PICK p : p = x.plci
    OBVIOUS
  <2>6. p \in Plci /\ z \in send_message(w, "DISCONNECT_REQ", p, 0)
    BY <1>3, <1>11, <2>5 DEF Records
  <2>7. Connection(y, n, v, line)
    <3>1. Connection(x, n, v, line)
      BY <1>1, <1>3
    <3>2. y.state = "OUTGOING" => x.state = "OUTGOING"
      BY <2>3 DEF Kin
    <3>. QED BY <1>11, <2>3, <2>4, <3>1, <3>2, ConnState DEF Kin
  <2>. QED BY <1>1, <1>2, <1>7, <1>11, <2>2, <2>3, <2>4, <2>5, <2>6, <2>7, FlowRequest
<1>. QED BY <1>6, <1>9, <1>10, <1>11

-------------------------------------------------------------------------------
(* A call comes in.                                                        *)

(* A new structure, in front of the others.                                *)
LEMMA EnteredBecomes ==
  ASSUME NEW s, Plain(s), NEW c \in Chan, NEW x \in Records, NEW K, NEW u, Entered(s, u, c, x, K),
         u.k.nccip = s.k.nccip, \A z : z # c => (z \in K <=> z \in s.k.incoming),
         c \in s.k.incoming => c \in K,
         NEW n, NEW v, n = s.k.nccip[c], v = s.k.told[c]
  PROVE  Becomes(s, u, c, x, n, v) /\ u.l = s.l /\ u.k.incoming = K
<1>1. /\ s.k.plcip \in [Chan -> Records \cup {Null}] /\ s.k.nccip \in [Chan -> Nccis \cup {Null}]
      /\ s.k.told \in [Chan -> Tolds] /\ Queues(s.l)
  BY DEF Plain
<1>2. PICK P : P = [s.k.plcip EXCEPT ![c] = x]
  OBVIOUS
<1>3. /\ Shape(u) /\ u.l = s.l /\ u.k.plcip = P /\ u.k.incoming = K /\ u.k.told = s.k.told
  BY <1>2 DEF Entered
<1>4. P \in [Chan -> Records \cup {Null}] /\ P[c] = x /\ \A y \in Chan : y # c => P[y] = s.k.plcip[y]
  BY <1>1, <1>2
<1>5. Plain(u)
  BY <1>1, <1>3, <1>4 DEF Plain
<1>6. Frame(s, u, c)
  BY <1>3, <1>4, <1>5 DEF Frame
<1>. QED BY <1>3, <1>4, <1>6 DEF Becomes

First(event) == IF event = "CONNECT_REQ" THEN "OUTGOING" ELSE "INCOMING"
Begun1(s, u, c, p, n, v, z) ==
  \E x \in Records : Becomes(s, u, c, x, n, v) /\ x.plci = p /\ x.state = z
LEMMA NewBecomes ==
  ASSUME NEW s, Plain(s), NEW c \in Chan, NEW p \in Plci \cup {0}, NEW id \in Msgids \cup {0},
         NEW K, \A z : z # c => (z \in K <=> z \in s.k.incoming), c \in s.k.incoming => c \in K,
         NEW w, Entered(s, w, c, NewPlci(p, id), K), w.k.nccip = s.k.nccip, w.k.nbchan = s.k.nbchan,
         NEW event \in {"CONNECT_REQ", "CONNECT_IND"}, NEW u, u = plci_change_state(w, c, event),
         NEW n, NEW v, n = s.k.nccip[c], v = s.k.told[c]
  PROVE  /\ Begun1(s, u, c, p, n, v, First(event))
         /\ u.l = s.l /\ u.k.incoming = K /\ u.k.nbchan = s.k.nbchan
<1>1. Shape(s) /\ s.k.plcip \in [Chan -> Records \cup {Null}]
  BY DEF Plain
<1>2. w.k.plcip[c].state = "NONE"
  BY <1>1 DEF Entered, NewPlci
<1>3. PICK to : to = First(event)
  OBVIOUS
<1>4. u = [w EXCEPT !.k.plcip[c].state = to]
  <2>1. /\ plci_change_state(w, c, "CONNECT_REQ") = [w EXCEPT !.k.plcip[c].state = "OUTGOING"]
        /\ plci_change_state(w, c, "CONNECT_IND") = [w EXCEPT !.k.plcip[c].state = "INCOMING"]
    BY <1>2, TableBegins
  <2>2. CASE event = "CONNECT_REQ"
    BY <1>3, <2>1, <2>2 DEF First
  <2>3. CASE event = "CONNECT_IND"
    BY <1>3, <2>1, <2>3 DEF First
  <2>. QED BY <2>2, <2>3
<1>5. PICK a : a = [plci |-> p, msgid |-> id, state |-> to]
  OBVIOUS
<1>6. c \in DOMAIN s.k.plcip
  BY <1>1
<1>7. Entered(s, u, c, a, K)
  BY <1>4, <1>5, <1>6, EnteredState
<1>8. u.k.nccip = s.k.nccip /\ u.k.nbchan = s.k.nbchan
  <2>1. PICK P : P = [w.k.plcip EXCEPT ![c].state = to]
    OBVIOUS
  <2>2. u = [w EXCEPT !.k.plcip = P]
    BY <1>4, <2>1
  <2>3. Shape(w)
    BY DEF Entered
  <2>. QED BY <2>2, <2>3 DEF Shape, IsCard
<1>9. a \in Records /\ a.plci = p /\ a.state = First(event)
  BY <1>3, <1>5 DEF Records, PlciStates, First
<1>10. Becomes(s, u, c, a, n, v) /\ u.l = s.l /\ u.k.incoming = K
  BY <1>7, <1>8, <1>9, EnteredBecomes
<1>. QED BY <1>8, <1>9, <1>10 DEF Begun1

LEMMA FlowDial ==
  ASSUME FlowInv, DrvInv, RemInv, DrvInv', NEW c \in Chan, capidrv_command_dial(c)
  PROVE  FlowInv' /\ Called
<1>1. Running /\ pc' = pc /\ card.plcip[c] = Null
  BY DEF capidrv_command_dial, Commanded, Running
<1>2. PICK x, n, v : x = card.plcip[c] /\ n = card.nccip[c] /\ v = card.told[c]
  OBVIOUS
<1>3. /\ Plain(now) /\ now.k = card /\ now.l = line
      /\ Report(x, n, v, line.up) /\ v \in Tolds
      /\ Connection(x, n, v, line) /\ Lanes(line)
      /\ n \in Nccis \cup {Null}
  BY <1>1, <1>2, NowAt
<1>4. v \in {"free", "discarded"} /\ (n # Null => ~n.live)
  BY <1>1, <1>2, <1>3 DEF Report
<1>5. PICK id \in FreshIds :
       \E t \in send_message(plci_change_state(new_plci(now, c, 0, id), c, "CONNECT_REQ"),
                             "CONNECT_REQ", 0, id) :
         Become(Tell(t, c, "dialing"))
  BY DEF capidrv_command_dial
<1>6. PICK w : w = new_plci(now, c, 0, id)
  OBVIOUS
<1>7. PICK y : y = plci_change_state(w, c, "CONNECT_REQ")
  OBVIOUS
<1>8. PICK t \in send_message(y, "CONNECT_REQ", 0, id) : Become(Tell(t, c, "dialing"))
  BY <1>5, <1>6, <1>7
<1>9. PICK u : u = Tell(t, c, "dialing")
  OBVIOUS
<1>10. /\ Entered(now, w, c, NewPlci(0, id), now.k.incoming)
       /\ w.k.nccip = now.k.nccip /\ w.k.nbchan = now.k.nbchan
  <2>1. Typed(now)
    BY NowTyped
  <2>. QED BY <1>6, <2>1, NewStruct
<1>11. Begun1(now, y, c, 0, n, v, "OUTGOING") /\ y.l = line
  <2>1. id \in Msgids \cup {0} /\ 0 \in Plci \cup {0} /\ "CONNECT_REQ" \in {"CONNECT_REQ", "CONNECT_IND"}
    BY DEF FreshIds
  <2>2. n = now.k.nccip[c] /\ v = now.k.told[c] /\ First("CONNECT_REQ") = "OUTGOING"
    BY <1>2, <1>3 DEF First
  <2>3. Begun1(now, y, c, 0, n, v, First("CONNECT_REQ")) /\ y.l = now.l
    BY <1>3, <1>7, <1>10, <2>1, <2>2, NewBecomes
  <2>. QED BY <1>3, <2>2, <2>3
<1>12. PICK z \in Records : Becomes(now, y, c, z, n, v) /\ z.plci = 0 /\ z.state = "OUTGOING"
  BY <1>11 DEF Begun1
<1>13. Becomes(now, t, c, z, n, v) /\ NoRing(line, t.l)
  BY <1>8, <1>11, <1>12, PutMessage
<1>14. PICK h : h = Heard(v, "dialing")
  OBVIOUS
<1>15. Becomes(now, u, c, z, n, h) /\ u.l = t.l
  <2>1. "dialing" \in Tolds
    BY DEF Tolds
  <2>. QED BY <1>9, <1>13, <1>14, <2>1, PutTold
<1>16. z # Null /\ h \in {"dialing", "discarded"} /\ Turn(card.told[c], h)
  BY <1>2, <1>4, <1>14, NullIsNone DEF Heard, Turn
<1>17. NoRing(line, u.l)
  BY <1>13, <1>15
<1>18. ~Has(u.l.up[0], "CONNECT_B3_IND")
  <2>1. Orderly(line.up)
    BY DEF FlowInv
  <2>2. ~Has(line.up[0], "CONNECT_B3_IND")
    BY <2>1 DEF Orderly, Has
  <2>. QED BY <1>17, <2>2 DEF NoRing
<1>19. Report(z, n, h, u.l.up)
  <2>1. z.state # "INCOMING"
    BY <1>12
  <2>. QED BY <1>4, <1>12, <1>16, <1>18, <2>1 DEF Report
<1>20. Shape(y) /\ Lanes(y.l)
  BY <1>3, <1>11, <1>12 DEF Becomes, Frame, Plain
<1>21. PICK q \in Plci \cup {0} : Elsewhere(y.l, t.l, q) /\ (q # 0 => y.l.d[q] = "idle")
  BY <1>8, <1>20, SendConnectLanes
<1>22. Within(u, c, q, z, n, h)
  <2>1. Lanes(t.l)
    BY <1>8, <1>20, SendConnectLanes
  <2>2. Strange(now, c, q)
    <3>1. SUFFICES ASSUME NEW a \in Chan, card.plcip[a] # Null, card.plcip[a].plci = q, q # 0
                   PROVE  FALSE
      BY <1>3 DEF Strange
    <3>2. line.d[q] # "idle"
      BY <1>1, <1>21, <3>1, NowStrange
    <3>. QED BY <1>11, <1>21, <3>1, <3>2
  <2>3. n # Null => Unnumbered(n)
    BY <1>1, <1>2, <1>3 DEF Connection, Carries, Numbered
  <2>4. Connection(z, n, h, u.l)
    <3>1. \A p \in Plci : z.plci # p
      BY <1>12, DrvAssumption
    <3>. QED BY <1>16, <2>3, <3>1 DEF Connection, Carries
  <2>. QED BY <1>11, <1>15, <1>21, <2>1, <2>2, <2>4 DEF Within
<1>23. Onward(u)
  BY <1>1 DEF Onward
<1>24. Become(u) /\ h \notin {"ringing", "rejected"}
  BY <1>8, <1>9, <1>16
<1>. QED BY <1>1, <1>15, <1>16, <1>17, <1>19, <1>22, <1>23, <1>24, FlowAt

(* The line changes, but for the queues. *)
LEMMA PutLine ==
  ASSUME NEW s, NEW w, NEW c, NEW x, NEW n, NEW v, Becomes(s, w, c, x, n, v),
         NEW l, IsLine(l), l.up = w.l.up, NEW u, u = [k |-> w.k, l |-> l]
  PROVE  Becomes(s, u, c, x, n, v)
<1>1. Plain(w) /\ Shape(w)
  BY DEF Becomes, Frame, Plain
<1>2. Shape(u) /\ u.k = w.k /\ u.l = l
  BY <1>1 DEF Shape
<1>3. Plain(u)
  BY <1>1, <1>2 DEF Plain, Queues
<1>. QED BY <1>2, <1>3 DEF Becomes, Frame

(* A block is sent: its handle joins the ackqueue. *)
Sends(n, m) ==
  /\ m \in Nccis /\ m.ncci = n.ncci /\ m.live = n.live /\ m.state = n.state
  /\ m.oldstate = n.oldstate /\ m.acks = Append(n.acks, n.handle)
  /\ m.handle = (n.handle + 1) % (MaxData + 1)
LEMMA NextHandle == \A h \in DataHandles : (h + 1) % (MaxData + 1) \in DataHandles
BY AgeNext
WithBlock(n, A, k) == [n EXCEPT !.acks = A, !.handle = k]
LEMMA BlockSent ==
  ASSUME NEW n \in Nccis, NEW A \in Seq(0 .. MaxData), NEW k \in 0 .. MaxData,
         NEW m, m = WithBlock(n, A, k)
  PROVE  /\ m \in Nccis /\ m.ncci = n.ncci /\ m.live = n.live /\ m.state = n.state
         /\ m.oldstate = n.oldstate /\ m.acks = A /\ m.handle = k
BY DEF WithBlock, Nccis

LEMMA SentNcci ==
  ASSUME NEW c \in Chan, NEW n, if_sendbuf(c), n = card.nccip[c], Plain(now), n \in Nccis, n.handle \in DataHandles,
         NEW x, NEW v, Becomes(now, now, c, x, n, v)
  PROVE  \E m : Sends(n, m) /\ \A u : u = [k |-> card', l |-> line] => Becomes(now, u, c, x, m, v)
<1>1. PICK A, k : A = Append(n.acks, n.handle) /\ k = (n.handle + 1) % (MaxData + 1)
  OBVIOUS
<1>2. PICK m : m = WithBlock(n, A, k)
  OBVIOUS
<1>3. Sends(n, m) /\ m \in Nccis \cup {Null}
  <2>1. k \in 0 .. MaxData
    BY <1>1, NextHandle DEF DataHandles
  <2>2. A \in Seq(0 .. MaxData)
    BY <1>1 DEF Nccis, DataHandles
  <2>3. /\ m \in Nccis /\ m.ncci = n.ncci /\ m.live = n.live /\ m.state = n.state
        /\ m.oldstate = n.oldstate /\ m.acks = A /\ m.handle = k
    BY <1>2, <2>1, <2>2, BlockSent
  <2>. QED BY <1>1, <2>3 DEF Sends
<1>4. PICK N : N = [card.nccip EXCEPT ![c] = m]
  OBVIOUS
<1>5. now.k = card /\ now.l = line /\ Shape(now) /\ card.nccip \in [Chan -> Nccis \cup {Null}]
  BY DEF now, Plain
<1>6. card' = [card EXCEPT !.nccip = N]
  <2>1. card' = [card EXCEPT !.nccip[c].acks = A, !.nccip[c].handle = (@ + 1) % (MaxData + 1)]
    BY <1>1 DEF if_sendbuf
  <2>2. PICK N1, N2 : N1 = [card.nccip EXCEPT ![c].acks = A] /\ N2 = [N1 EXCEPT ![c].handle = k]
    OBVIOUS
  <2>3. PICK t : t = [card EXCEPT !.nccip[c].acks = A]
    OBVIOUS
  <2>4. card' = [t EXCEPT !.nccip[c].handle = (t.nccip[c].handle + 1) % (MaxData + 1)]
    BY <2>1, <2>3
  <2>5. t = [card EXCEPT !.nccip = N1] /\ t.nccip = N1
    BY <1>5, <2>2, <2>3 DEF Shape, IsCard
  <2>6. t.nccip[c].handle = n.handle
    BY <1>5, <2>2, <2>5 DEF Nccis
  <2>7. card' = [t EXCEPT !.nccip[c].handle = k]
    BY <1>1, <2>4, <2>6
  <2>8. card' = [card EXCEPT !.nccip = N2]
    BY <1>5, <2>2, <2>5, <2>7 DEF Shape, IsCard
  <2>9. N2 = N
    BY <1>1, <1>2, <1>4, <1>5, <2>2 DEF WithBlock, Nccis
  <2>. QED BY <2>8, <2>9
<1>7. ASSUME NEW u, u = [k |-> card', l |-> line]
      PROVE  Becomes(now, u, c, x, m, v)
  <2>1. u = [now EXCEPT !.k.nccip[c] = m]
    BY <1>4, <1>5, <1>6, <1>7 DEF now
  <2>. QED BY <1>3, <2>1, PutNcci
<1>. QED BY <1>3, <1>7

(* The block is in the device's hands as well. *)
WithData(l, p, D) == [l EXCEPT !.data[p] = D]
Loaded(l, n, p, D) ==
  /\ Formed(n) /\ Elsewhere(l, n, p) /\ n.data[p] = D
  /\ n.up = l.up /\ n.d = l.d /\ n.b = l.b
LEMMA BlockSet ==
  ASSUME NEW l, Formed(l)
  PROVE  \A p \in Plci : \A D : Loaded(l, WithData(l, p, D), p, D)
<1>1. ASSUME NEW p \in Plci, NEW D, NEW n, n = WithData(l, p, D) PROVE Loaded(l, n, p, D)
  BY <1>1, DataSet DEF WithData, Loaded
<1>. QED BY <1>1

LEMMA BlockLine ==
  ASSUME NEW l, Lanes(l), NEW x, NEW n, Numbered(x, n, l), Len(n.acks) < MaxData, NEW m, Sends(n, m),
         NEW k, Loaded(l, k, n.ncci, Append(l.data[n.ncci], n.handle))
  PROVE  /\ Lanes(k) /\ Elsewhere(l, k, n.ncci) /\ Numbered(x, m, k) /\ IsLine(k)
         /\ k.up = l.up /\ k.d = l.d
<1>1. PICK p, D : p = n.ncci /\ D = Append(l.data[p], n.handle)
  OBVIOUS
<1>2. p \in Plci /\ Ready(l, p) /\ Ledger(n.handle, n.acks, l.up[p], l.data[p])
  BY <1>1 DEF Numbered
<1>5. Formed(l) /\ Course(l.up[p], l.d[p], l.b[p], l.data[p])
  BY <1>2 DEF Lanes
<1>6. /\ Formed(k) /\ Elsewhere(l, k, p) /\ k.data[p] = D
      /\ k.up = l.up /\ k.d = l.d /\ k.b = l.b
  BY <1>1 DEF Loaded
<1>7. IsSeq(D)
  <2>1. n.handle \in DataHandles /\ l.data[p] \in Seq(DataHandles)
    BY <1>2 DEF Ledger, Aged
  <2>2. D \in Seq(DataHandles)
    BY <1>1, <2>1
  <2>. QED BY <2>2, SeqIsSeq
<1>8. Course(k.up[p], k.d[p], k.b[p], k.data[p])
  BY <1>2, <1>5, <1>6, <1>7 DEF Course, Fitting, Ready
<1>9. Lanes(k)
  BY <1>2, <1>6, <1>8, LanesSet
<1>10. Ready(k, p)
  BY <1>2, <1>6 DEF Ready
<1>11. Ledger(m.handle, m.acks, k.up[p], k.data[p])
  BY <1>1, <1>2, <1>6, LedgerSends DEF Sends
<1>12. Numbered(x, m, k)
  BY <1>1, <1>10, <1>11 DEF Numbered, Sends
<1>. QED BY <1>1, <1>6, <1>9, <1>12 DEF Formed

LEMMA FlowSendBuf ==
  ASSUME FlowInv, DrvInv, DrvInv', NEW c \in Chan, if_sendbuf(c)
  PROVE  FlowInv' /\ Called
<1>1. Running /\ pc' = pc
  BY DEF if_sendbuf, Commanded, Running
<1>2. PICK x, n, v : x = card.plcip[c] /\ n = card.nccip[c] /\ v = card.told[c]
  OBVIOUS
<1>3. /\ Plain(now) /\ now.k = card /\ now.l = line
      /\ Becomes(now, now, c, x, n, v)
      /\ n \in Nccis \cup {Null}
      /\ Report(x, n, v, line.up)
      /\ v \in {"ringing", "rejected"} => c \in card.incoming
      /\ Connection(x, n, v, line) /\ Lanes(line)
  BY <1>1, <1>2, NowAt
<1>4. /\ n # Null /\ n.state = "ACTIVE" /\ Len(n.acks) < MaxData
      /\ line' = [line EXCEPT !.data[n.ncci] = Append(@, n.handle)]
  BY <1>2 DEF if_sendbuf
<1>5. Numbered(x, n, line) /\ n \in Nccis
  BY <1>3, <1>4 DEF Connection, Carries, Unnumbered
<1>6. n.handle \in DataHandles /\ x # Null /\ x.plci = n.ncci /\ n.ncci \in Plci
  BY <1>5 DEF Numbered, Ledger
<1>7. PICK m : Sends(n, m) /\ \A u : u = [k |-> card', l |-> line] => Becomes(now, u, c, x, m, v)
  BY <1>2, <1>3, <1>5, <1>6, SentNcci
<1>8. PICK w : w = [k |-> card', l |-> line]
  OBVIOUS
<1>9. Becomes(now, w, c, x, m, v)
  BY <1>7, <1>8
<1>10. PICK p, D : p = n.ncci /\ D = Append(line.data[p], n.handle) /\ line' = WithData(line, p, D)
  BY <1>4 DEF WithData
<1>19. Loaded(line, line', p, D)
  <2>1. Formed(line) /\ p \in Plci
    BY <1>3, <1>6, <1>10 DEF Lanes
  <2>. QED BY <1>10, <2>1, BlockSet
<1>11. /\ Lanes(line') /\ Elsewhere(line, line', p) /\ Numbered(x, m, line') /\ IsLine(line')
       /\ line'.up = line.up /\ line'.d = line.d
  <2>1. Loaded(line, line', n.ncci, Append(line.data[n.ncci], n.handle))
    BY <1>10, <1>19
  <2>2. /\ Lanes(line') /\ Elsewhere(line, line', n.ncci) /\ Numbered(x, m, line') /\ IsLine(line')
        /\ line'.up = line.up /\ line'.d = line.d
    BY <1>3, <1>4, <1>5, <1>7, <2>1, BlockLine
  <2>. QED BY <1>10, <2>2
<1>12. PICK u : u = [k |-> card', l |-> line']
  OBVIOUS
<1>13. Becomes(now, u, c, x, m, v) /\ Become(u) /\ u.l = line'
  <2>1. u = [k |-> w.k, l |-> line'] /\ line'.up = w.l.up
    BY <1>8, <1>11, <1>12
  <2>2. Becomes(now, u, c, x, m, v)
    BY <1>9, <1>11, <2>1, PutLine
  <2>. QED BY <1>12, <2>2 DEF Become
<1>14. NoRing(line, u.l) /\ u.l.up = line.up
  BY <1>11, <1>13 DEF NoRing
<1>15. Report(x, m, v, u.l.up)
  BY <1>3, <1>4, <1>7, <1>14 DEF Report, Sends
<1>16. Within(u, c, p, x, m, v)
  <2>1. Strange(now, c, p)
    BY <1>1, <1>2, <1>6, <1>10, NowStrange
  <2>2. m # Null /\ m.ncci # 0
    BY <1>6, <1>7, NullIsNone, DrvAssumption DEF Sends
  <2>3. Connection(x, m, v, line')
    BY <1>3, <1>11, <2>2 DEF Connection, Carries
  <2>. QED BY <1>11, <1>13, <2>1, <2>3 DEF Within
<1>17. Onward(u)
  BY <1>1 DEF Onward
<1>18. Turn(card.told[c], v) /\ (v \in {"ringing", "rejected"} => c \in card.incoming /\ x # Null)
  BY <1>2, <1>3, <1>6 DEF Turn
<1>. QED BY <1>1, <1>13, <1>14, <1>15, <1>16, <1>17, <1>18, FlowAt

(* What the invariant says something of stays. *)
Alike(t, u) ==
  /\ Plain(u) /\ u.l = t.l
  /\ u.k.plcip = t.k.plcip /\ u.k.nccip = t.k.nccip
  /\ u.k.told = t.k.told /\ u.k.incoming = t.k.incoming
LEMMA AlikeAll ==
  ASSUME NEW t, Plain(t)
  PROVE  \A z, u : u = [t EXCEPT !.k.state = z] \/ u = [t EXCEPT !.k.disconnecting = z] => Alike(t, u)
<1>1. ASSUME NEW z, NEW u, u = [t EXCEPT !.k.state = z] \/ u = [t EXCEPT !.k.disconnecting = z]
      PROVE  Alike(t, u)
  BY <1>1, AlikeFields DEF Alike
<1>. QED BY <1>1

LEMMA FlowListen ==
  ASSUME FlowInv, DrvInv', listentimerfunc
  PROVE  FlowInv' /\ Called
<1>1. Running /\ pc' = pc
  BY DEF listentimerfunc, Running
<1>2. PICK t \in send_message(now, "LISTEN_REQ", 0, 0) : Become([t EXCEPT !.k = listen_change_state(@, "REQ")])
  BY DEF listentimerfunc
<1>3. /\ Plain(now) /\ now.k = card /\ now.l = line /\ Shape(now)
      /\ Regular(now)
  BY <1>1 DEF FlowInv, Plain, now
<1>4. NoRing(line, t.l) /\ t.k = card /\ Plain(t)
  BY <1>2, <1>3, PlainSends
<1>5. PICK z : [t EXCEPT !.k = listen_change_state(@, "REQ")] = [t EXCEPT !.k.state = z]
  BY DEF listen_change_state
<1>6. PICK u : u = [t EXCEPT !.k.state = z]
  OBVIOUS
<1>7. /\ Plain(u) /\ u.l = t.l
      /\ u.k.plcip = t.k.plcip /\ u.k.nccip = t.k.nccip
      /\ u.k.told = t.k.told /\ u.k.incoming = t.k.incoming
  <2>1. Alike(t, u)
    BY <1>4, <1>6, AlikeAll
  <2>. QED BY <2>1 DEF Alike
<1>8. Become(u)
  BY <1>2, <1>5, <1>6
<1>9. Frame(now, u, Null)
  BY <1>3, <1>4, <1>7 DEF Frame
<1>10. Goes(now, u, Null)
  BY <1>3, <1>4, <1>7, <1>9, DrvAssumption DEF Goes
<1>11. Regular(u)
  <2>1. Lanes(line) /\ \A y \in Chan : Link(now, y)
    BY <1>3 DEF Regular
  <2>2. Lanes(t.l) /\ Elsewhere(line, t.l, 0)
    BY <1>2, <1>3, <2>1, SendZeroLanes
  <2>3. Strange(now, Null, 0)
    BY DEF Strange
  <2>4. Lanes(u.l) /\ Elsewhere(line, u.l, 0)
    BY <1>7, <2>2
  <2>5. \A y \in Chan : y # Null => Link(u, y)
    BY <1>3, <1>9, <2>1, <2>3, <2>4, OthersLinked
  <2>. QED BY <2>4, <2>5, DrvAssumption DEF Regular
<1>12. Onward(u)
  BY <1>1 DEF Onward
<1>. QED BY <1>1, <1>8, <1>10, <1>11, <1>12, FlowStep

(* CONNECT_IND has been taken off the queue. *)
LEMMA BegunQueue ==
  ASSUME NEW s, NEW t, NEW p \in Plci, NEW m, Received(s, t, p, m), m.cmd = "CONNECT_IND", Running
  PROVE  t.l.d[p] \notin {"in_acc", "in_act"} /\ Regular(t)
<1>1. Regular(s) /\ Popping(s.l, t.l, p, m) /\ Begins(m)
  BY DEF Received, Begins
<1>2. Regular(t)
  BY <1>1, ReceivedRegular
<1>3. Course(s.l.up[p], s.l.d[p], s.l.b[p], s.l.data[p])
  BY <1>1 DEF Regular, Lanes
<1>4. HasBegin(s.l.up[p])
  <2>1. IsSeq(s.l.up[p]) /\ s.l.up[p] # <<>> /\ m = Head(s.l.up[p])
    BY <1>1, <1>3 DEF Popping, Course
  <2>2. \A q : IsSeq(q) /\ q # <<>> => 1 \in Entries(q) /\ Head(q) = q[1]
    BY DEF IsSeq, Entries
  <2>. QED BY <1>1, <2>1, <2>2 DEF HasBegin
<1>5. s.l.d[p] \notin {"in_acc", "in_act"} /\ t.l.d = s.l.d
  BY <1>1, <1>3, <1>4 DEF Course, Fitting, Popping
<1>. QED BY <1>2, <1>5

(* The channel c gets the call of the connection p, and rings. *)
LEMMA GoRinging ==
  ASSUME NEW s, NEW t, NEW p \in Plci, NEW m, Received(s, t, p, m), m.cmd = "CONNECT_IND",
         NEW c \in Chan, t.k.plcip[c] = Null,
         NEW v, Alike(t, v), NEW n, NEW k, n = v.k.nccip[c], k = v.k.told[c],
         NEW z, NEW a, a \in Records, a.plci = p, a.state = "INCOMING",
         NEW h, h = Heard(k, "ringing"), Becomes(v, z, c, a, n, h), z.l = v.l, c \in z.k.incoming
  PROVE  Goes(t, z, c) /\ (Running => Regular(z))
<1>1. /\ Plain(t) /\ Faithful(t, c) /\ ~Has(t.l.up[p], "CONNECT_B3_IND")
  BY DEF Received, Begins
<1>2. /\ v.l = t.l /\ v.k.plcip = t.k.plcip /\ v.k.nccip = t.k.nccip /\ v.k.told = t.k.told
      /\ v.k.incoming = t.k.incoming
  BY DEF Alike
<1>3. Report(Null, n, k, t.l.up) /\ n = t.k.nccip[c] /\ k = t.k.told[c]
  BY <1>1, <1>2 DEF Faithful
<1>4. k \in {"free", "discarded"} /\ (n # Null => ~n.live)
  BY <1>3 DEF Report
<1>5. h \in {"ringing", "discarded"} /\ Turn(k, h) /\ a # Null
  BY <1>4, NullIsNone DEF Heard, Turn
<1>6. Frame(t, z, c)
  BY <1>2 DEF Becomes, Frame
<1>7. Report(a, n, h, z.l.up)
  <2>1. ~Has(z.l.up[p], "CONNECT_B3_IND")
    BY <1>1, <1>2
  <2>. QED BY <1>4, <1>5, <2>1 DEF Report
<1>8. /\ z.k.plcip[c] = a /\ z.k.nccip[c] = n /\ z.k.told[c] = h
  BY DEF Becomes
<1>9. Faithful(z, c)
  BY <1>7, <1>8 DEF Faithful
<1>10. NoRing(t.l, z.l)
  BY <1>2, NoRingSame
<1>11. Goes(t, z, c)
  BY <1>3, <1>5, <1>6, <1>8, <1>9, <1>10 DEF Goes
<1>12. ASSUME Running PROVE Regular(z)
  <2>1. t.l.d[p] \notin {"in_acc", "in_act"} /\ Regular(t)
    BY <1>12, BegunQueue
  <2>2. Connection(Null, n, k, t.l)
    BY <1>3, <2>1 DEF Regular, Link
  <2>3. n # Null => Unnumbered(n)
    BY <2>2 DEF Connection, Carries, Numbered
  <2>4. Connection(a, n, h, t.l)
    BY <1>5, <2>1, <2>3 DEF Connection, Carries
  <2>5. Elsewhere(t.l, z.l, 0) /\ Strange(t, c, 0) /\ z.l = t.l
    BY <1>2, SameLine DEF Strange
  <2>6. \A y \in Chan : y # c => Link(t, y)
    BY <2>1 DEF Regular
  <2>7. \A y \in Chan : y # c => Link(z, y)
    BY <1>6, <2>5, <2>6, OthersLinked
  <2>8. Lanes(z.l)
    BY <2>1, <2>5 DEF Regular
  <2>9. Link(z, c)
    BY <1>8, <2>4, <2>5 DEF Link
  <2>. QED BY <2>7, <2>8, <2>9 DEF Regular
<1>. QED BY <1>11, <1>12

(* The structure that handle_incoming_call makes of v. *)
LEMMA RingingState ==
  ASSUME NEW v, Typed(v), Plain(v), NEW c \in Chan, NEW p \in Plci,
         NEW n, NEW k, n = v.k.nccip[c], k = v.k.told[c],
         NEW K, K = v.k.incoming \cup {c},
         NEW x, Entered(v, x, c, NewPlci(p, 0), K), x.k.nccip = v.k.nccip, x.k.nbchan = v.k.nbchan,
         NEW y, y = plci_change_state(x, c, "CONNECT_IND"), NEW z, z = Tell(y, c, "ringing")
  PROVE  /\ \E a : /\ a \in Records /\ a.plci = p /\ a.state = "INCOMING"
                   /\ Becomes(v, z, c, a, n, Heard(k, "ringing"))
         /\ z.l = v.l /\ c \in z.k.incoming /\ z.k.nbchan = v.k.nbchan
<1>1. /\ Begun1(v, y, c, p, n, k, "INCOMING")
      /\ y.l = v.l /\ y.k.incoming = K /\ y.k.nbchan = v.k.nbchan
  <2>1. 0 \in Msgids \cup {0} /\ p \in Plci \cup {0} /\ "CONNECT_IND" \in {"CONNECT_REQ", "CONNECT_IND"}
    OBVIOUS
  <2>2. First("CONNECT_IND") = "INCOMING"
    BY DEF First
  <2>3. \A e : e # c => (e \in K <=> e \in v.k.incoming)
    OBVIOUS
  <2>4. c \in v.k.incoming => c \in K
    OBVIOUS
  <2>5. /\ Begun1(v, y, c, p, n, k, First("CONNECT_IND"))
        /\ y.l = v.l /\ y.k.incoming = K /\ y.k.nbchan = v.k.nbchan
    BY <2>1, <2>3, <2>4, NewBecomes
  <2>. QED BY <2>2, <2>5
<1>2. PICK a \in Records : Becomes(v, y, c, a, n, k) /\ a.plci = p /\ a.state = "INCOMING"
  BY <1>1 DEF Begun1
<1>3. Becomes(v, z, c, a, n, Heard(k, "ringing")) /\ z.l = y.l
  <2>1. "ringing" \in Tolds
    BY DEF Tolds
  <2>. QED BY <1>2, <2>1, PutTold
<1>4. z.k.incoming = y.k.incoming /\ z.k.nbchan = y.k.nbchan
  <2>1. Shape(y)
    BY <1>2 DEF Becomes, Frame, Plain
  <2>. QED BY <2>1 DEF Tell, Shape, IsCard
<1>. QED BY <1>1, <1>2, <1>3, <1>4

LEMMA FlowIncoming ==
  ASSUME FlowInv, DrvInv, RemInv, DrvInv', NEW p \in Plci \cup {0}, handle_incoming_call(p)
  PROVE  FlowInv' /\ Called
<1>1. PICK t, m : t = Taken(p) /\ m = Head(line.up[p])
  OBVIOUS
<1>2. Head1(p) /\ m.cmd = "CONNECT_IND" /\ pc' = pc
  BY <1>1 DEF handle_incoming_call
<1>3. /\ Received(now, t, p, m)
      /\ t.k = card /\ NoRing(line, t.l) /\ t.l.up = Popped(line.up, p)
      /\ p = 0 => m.cmd \in {"LISTEN_CONF", "CONNECT_CONF"}
  BY <1>1, <1>2, TakenFlow
<1>4. p \in Plci /\ Begins(m) /\ Plain(t) /\ Typed(t) /\ line.up[p] # <<>>
  BY <1>2, <1>3 DEF Received, Begins, Head1
<1>5. PICK c : c = new_bchan(card)
  OBVIOUS
<1>6. PICK v : v = [t EXCEPT !.k.disconnecting = @ \ {c}]
  OBVIOUS
<1>7. Alike(t, v) /\ Typed(v) /\ v.k.nbchan = card.nbchan
  <2>1. PICK e : e = t.k.disconnecting \ {c}
    OBVIOUS
  <2>2. v = [t EXCEPT !.k.disconnecting = e]
    BY <1>6, <2>1
  <2>3. Alike(t, v)
    BY <1>4, <2>2, AlikeAll
  <2>4. Stays(t, v, c)
    BY <1>4, <2>2, SetOther
  <2>. QED BY <1>3, <2>3, <2>4 DEF Stays, Calm, Touch
<1>8. CASE Become(v)
  <2>1. Handles(t, v)
    <3>1. Handles(t, t)
      BY <1>3, <1>4, ReceivedSame
    <3>2. PICK e : v = [t EXCEPT !.k.disconnecting = e]
      BY <1>6
    <3>. QED BY <1>4, <3>1, <3>2, HandlesAlike
  <2>2. PICK e : Goes(t, v, e)
    BY <2>1 DEF Handles
  <2>3. Goes(now, v, e) /\ (Running => Regular(v))
    BY <1>3, <2>1, <2>2, TakenGoes DEF Handles
  <2>4. Onward(v)
    BY <1>3, <1>4, <1>7 DEF Onward, Alike
  <2>. QED BY <1>2, <1>8, <2>3, <2>4, FlowStep
<1>9. CASE ~Become(v)
  <2>1. PICK w : w = new_plci(v, c, p, 0)
    OBVIOUS
  <2>2. PICK x : x = [w EXCEPT !.k.incoming = @ \cup {c}]
    OBVIOUS
  <2>3. PICK y : y = plci_change_state(x, c, "CONNECT_IND")
    OBVIOUS
  <2>4. PICK z : z = Tell(y, c, "ringing")
    OBVIOUS
  <2>5. c # Null /\ Become(z)
    BY <1>1, <1>5, <1>6, <1>9, <2>1, <2>2, <2>3, <2>4 DEF handle_incoming_call
  <2>6. c \in Chan /\ card.plcip[c] = Null
    BY <1>5, <2>5, NewChannel
  <2>7. PICK K, n, k : K = v.k.incoming \cup {c} /\ n = v.k.nccip[c] /\ k = v.k.told[c]
    OBVIOUS
  <2>8. Plain(v)
    BY <1>7 DEF Alike
  <2>9. Entered(v, x, c, NewPlci(p, 0), K) /\ x.k.nccip = v.k.nccip /\ x.k.nbchan = v.k.nbchan
    <3>1. /\ Entered(v, w, c, NewPlci(p, 0), v.k.incoming)
          /\ w.k.nccip = v.k.nccip /\ w.k.nbchan = v.k.nbchan
      BY <1>7, <2>1, NewStruct
    <3>2. x = [w EXCEPT !.k.incoming = K]
      BY <2>2, <2>7, <3>1 DEF Entered
    <3>3. Entered(v, x, c, NewPlci(p, 0), K)
      BY <3>1, <3>2, EnteredIncoming
    <3>. QED BY <3>1, <3>2, <3>3 DEF Entered, Shape, IsCard
  <2>10. /\ \E a : /\ a \in Records /\ a.plci = p /\ a.state = "INCOMING"
                   /\ Becomes(v, z, c, a, n, Heard(k, "ringing"))
         /\ z.l = v.l /\ c \in z.k.incoming /\ z.k.nbchan = v.k.nbchan
    BY <1>4, <1>7, <2>3, <2>4, <2>6, <2>7, <2>8, <2>9, RingingState
  <2>11. PICK h : h = Heard(k, "ringing")
    OBVIOUS
  <2>12. PICK a : /\ a \in Records /\ a.plci = p /\ a.state = "INCOMING"
                  /\ Becomes(v, z, c, a, n, h)
    BY <2>10, <2>11
  <2>13. Goes(t, z, c) /\ (Running => Regular(z))
    <3>1. t.k.plcip[c] = Null
      BY <1>3, <2>6
    <3>. QED BY <1>2, <1>3, <1>4, <1>7, <2>6, <2>7, <2>10, <2>11, <2>12, <3>1, GoRinging
  <2>14. Goes(now, z, c)
    BY <1>3, <2>13, TakenGoes
  <2>15. Onward(z)
    BY <1>3, <1>4, <1>7, <2>10 DEF Onward, Alike
  <2>. QED BY <1>2, <2>5, <2>13, <2>14, <2>15, FlowStep
<1>. QED BY <1>8, <1>9

-------------------------------------------------------------------------------
(* The device.                                                             *)

(* The steps of the device change only the line. *)
LEMMA FlowLine ==
  ASSUME FlowInv, DrvInv', UNCHANGED <<card, pc>>, Running, Lanes(line'),
         NEW u, u = [k |-> card, l |-> line'], \A c \in Chan : Faithful(u, c) /\ Link(u, c)
  PROVE  FlowInv' /\ Called
<1>1. Plain(now) /\ now.k = card /\ now.l = line /\ Shape(now)
  BY DEF FlowInv, now, Plain
<1>2. now' = u /\ u.k = card /\ u.l = line' /\ card' = card /\ Running'
  BY DEF now, Running
<1>3. Lanes(u.l) /\ IsLine(u.l) /\ Formed(u.l)
  BY <1>2 DEF Lanes, Formed
<1>4. Shape(u)
  BY <1>1, <1>2, <1>3 DEF Shape
<1>5. Sound(u)
  BY <1>2 DEF DrvInv, UpInv, Running, Sound, Shape, IsCard, IsLine
<1>6. Queues(u.l)
  <2>1. IsSeq(u.l.up[0])
    BY <1>5 DEF Sound, Agree, Lines
  <2>2. \A p \in Plci : IsSeq(u.l.up[p])
    BY <1>3 DEF Lanes, Course
  <2>3. u.l.up = [y \in Plci \cup {0} |-> u.l.up[y]]
    BY <1>3 DEF Formed
  <2>. QED BY <2>1, <2>2, <2>3 DEF Queues
<1>7. Plain(u)
  BY <1>1, <1>2, <1>4, <1>6 DEF Plain
<1>8. Orderly(u.l.up)
  BY <1>3, <1>5, OrderlyLanes
<1>9. Plain(now)'
  BY <1>2, <1>7 DEF Plain, Shape, IsCard, IsLine, Queues
<1>10. Orderly(line.up)'
  BY <1>2, <1>8 DEF Orderly
<1>11. (\A c \in Chan : Faithful(now, c))'
  BY <1>2 DEF Faithful, Report, Has
<1>12. Regular(now)'
  <2>1. Regular(u)
    BY <1>3 DEF Regular
  <2>. QED BY <1>2, <2>1 DEF Regular, Lanes, Link
<1>13. (pc = "free" => Top \in Chan /\ card.told[Top] = "discarded")'
  BY DEF Running
<1>14. Called
  BY <1>2 DEF Called
<1>. QED BY <1>9, <1>10, <1>11, <1>12, <1>13, <1>14 DEF FlowInv

(* A connection goes on, and no B3 connection comes in. *)
LEMMA FlowSteady ==
  ASSUME FlowInv, DrvInv', UNCHANGED <<card, pc>>, Running, NEW p \in Plci,
         NEW n, n = line', Lanes(n), Elsewhere(line, n, p), Steady(line, n, p), NoRing(line, n)
  PROVE  FlowInv' /\ Called
<1>1. Lanes(line) /\ now.k = card /\ now.l = line
  BY DEF FlowInv, Regular, now
<1>2. PICK u : u = [k |-> card, l |-> n]
  OBVIOUS
<1>3. ASSUME NEW c \in Chan PROVE Faithful(u, c) /\ Link(u, c)
  <2>1. PICK x, m, v : x = card.plcip[c] /\ m = card.nccip[c] /\ v = card.told[c]
    OBVIOUS
  <2>2. Report(x, m, v, line.up) /\ (v \in {"ringing", "rejected"} => c \in card.incoming)
    BY <1>1, <2>1 DEF FlowInv, Faithful
  <2>3. Kin(x, x)
    BY KinSame
  <2>4. Report(x, m, v, n.up)
    BY <2>2, <2>3, ReportSteady
  <2>5. Connection(x, m, v, line)
    BY <1>1, <2>1 DEF FlowInv, Regular, Link
  <2>6. Connection(x, m, v, n)
    BY <1>1, <2>5, ConnSteady
  <2>. QED BY <1>2, <2>1, <2>2, <2>4, <2>6 DEF Faithful, Link
<1>. QED BY <1>2, <1>3, FlowLine

(* The states of the connection p and its unconfirmed blocks become d, b   *)
(* and D; ...                                                              *)
WithD(l, p, d) == [l EXCEPT !.d[p] = d]
WithB(l, p, b) == [l EXCEPT !.b[p] = b]
Changed(l, k, p, d, b, D) ==
  /\ Formed(k) /\ Elsewhere(l, k, p) /\ k.up = l.up
  /\ k.d[p] = d /\ k.b[p] = b /\ k.data[p] = D
(* ... and the device sends the message m of it.                           *)
Emits(l, n, p, d, b, D, m) ==
  /\ Formed(n) /\ Elsewhere(l, n, p) /\ n.up[p] = Append(l.up[p], m)
  /\ n.d[p] = d /\ n.b[p] = b /\ n.data[p] = D

LEMMA ChangedFields ==
  ASSUME NEW l, Formed(l)
  PROVE  \A p \in Plci : \A z : /\ Changed(l, WithD(l, p, z), p, z, l.b[p], l.data[p])
                                /\ Changed(l, WithB(l, p, z), p, l.d[p], z, l.data[p])
                                /\ Changed(l, WithData(l, p, z), p, l.d[p], l.b[p], z)
<1>1. ASSUME NEW p \in Plci, NEW z, NEW n, n = WithD(l, p, z) PROVE Changed(l, n, p, z, l.b[p], l.data[p])
  BY <1>1 DEF WithD, Changed, Formed, IsLine, Elsewhere
<1>2. ASSUME NEW p \in Plci, NEW z, NEW n, n = WithB(l, p, z) PROVE Changed(l, n, p, l.d[p], z, l.data[p])
  BY <1>2 DEF WithB, Changed, Formed, IsLine, Elsewhere
<1>3. ASSUME NEW p \in Plci, NEW z, NEW n, n = WithData(l, p, z) PROVE Changed(l, n, p, l.d[p], l.b[p], z)
  BY <1>3, DataSet DEF WithData, Changed
<1>. QED BY <1>1, <1>2, <1>3

LEMMA ConnectionMessage ==
  ASSUME NEW k, Formed(k), NEW p \in Plci, NEW m
  PROVE  \A n : n = Up(k, p, m) =>
           /\ Formed(n) /\ Elsewhere(k, n, p) /\ n.up[p] = Append(k.up[p], m)
           /\ n.d = k.d /\ n.b = k.b /\ n.data = k.data
<1>1. p \in Plci \cup {0}
  OBVIOUS
<1>. QED BY <1>1, MessageSet

LEMMA Emitted ==
  ASSUME NEW l, NEW p \in Plci, NEW k, NEW d, NEW b, NEW D, Changed(l, k, p, d, b, D), NEW m
  PROVE  \A n : n = Up(k, p, m) => Emits(l, n, p, d, b, D, m)
<1>1. Formed(k) /\ Elsewhere(l, k, p) /\ k.up = l.up /\ k.d[p] = d /\ k.b[p] = b /\ k.data[p] = D
  BY DEF Changed
<1>2. ASSUME NEW n,
             Formed(n) /\ Elsewhere(k, n, p) /\ n.up[p] = Append(k.up[p], m),
             n.d = k.d /\ n.b = k.b /\ n.data = k.data
      PROVE  Emits(l, n, p, d, b, D, m)
  <2>1. Elsewhere(l, n, p)
    BY <1>1, <1>2, ElsewhereTwice
  <2>. QED BY <1>1, <1>2, <2>1 DEF Emits
<1>3. \A n : n = Up(k, p, m) =>
           /\ Formed(n) /\ Elsewhere(k, n, p) /\ n.up[p] = Append(k.up[p], m)
           /\ n.d = k.d /\ n.b = k.b /\ n.data = k.data
  <2>1. Formed(k)
    BY <1>1
  <2>. QED BY <2>1, ConnectionMessage
<1>. QED BY <1>2, <1>3

(* Every message but CONNECT_B3_IND. *)
LEMMA EmitsNoRing ==
  ASSUME NEW l, NEW n, NEW p \in Plci, NEW d, NEW b, NEW D, NEW m, Emits(l, n, p, d, b, D, m), IsSeq(l.up[p]),
         m.cmd # "CONNECT_B3_IND"
  PROVE  NoRing(l, n)
<1>1. Has(n.up[p], "CONNECT_B3_IND") => Has(l.up[p], "CONNECT_B3_IND")
  <2>1. PICK q, r : q = l.up[p] /\ r = n.up[p]
    OBVIOUS
  <2>2. Longer(q, m, r)
    BY <2>1, QueueAppend DEF Emits
  <2>. QED BY <2>1, <2>2, HasAppend
<1>2. \A y \in Plci \cup {0} : y # p => n.up[y] = l.up[y]
  BY DEF Emits, Elsewhere
<1>. QED BY <1>1, <1>2 DEF NoRing

LEMMA MsgIs == \A cmd, ok, id : /\ Msg(cmd, ok, id).cmd = cmd
                                /\ Msg(cmd, ok, id).ok = ok /\ Msg(cmd, ok, id).id = id
  BY DEF Msg

LEMMA DeviceMessages ==
  ASSUME NEW m
  PROVE  /\ m.cmd \in {"CONNECT_IND", "CONNECT_ACTIVE_IND", "DISCONNECT_IND", "DATA_B3_IND"} => ~Flows(m)
         /\ m.cmd # "CONNECT_IND" /\ m.cmd # "CONNECT_CONF" => ~Begins(m)
         /\ m.cmd = "CONNECT_B3_ACTIVE_IND" => ~Opens(m) /\ ~Closes(m)
         /\ m.cmd = "DISCONNECT_B3_IND" => ~Opens(m) /\ Closes(m)
         /\ m.cmd # "DATA_B3_CONF" => ~Confirmation(m)
         /\ m.cmd = "DATA_B3_CONF" => Confirmation(m) /\ ~Flows(m)
         /\ m.cmd = "CONNECT_B3_IND" => Opens(m) /\ ~Closes(m)
         /\ Opens(m) \/ Closes(m) => Flows(m)
  BY DEF Flows, Opens, Closes, Begins, Confirmation

(* What is known of the connection p. *)
LEMMA Knowing ==
  ASSUME FlowInv, DrvInv, Running, NEW p \in Plci
  PROVE  /\ Lanes(line) /\ Formed(line) /\ IsSeq(line.up[p]) /\ IsSeq(line.data[p])
         /\ Course(line.up[p], line.d[p], line.b[p], line.data[p])
         /\ Fitting(line.up[p], line.d[p], line.b[p], line.data[p])
         /\ HasEnd(line.up[p]) => line.d[p] = "gone"
<1>1. Lanes(line)
  BY DEF FlowInv, Regular, now
<1>2. Queue(line.up[p], line.d[p])
  BY DEF DrvInv, UpInv, Sound, Agree, Lines, now
<1>. QED BY <1>1, <1>2 DEF Lanes, Course, Queue

(* The queue q with the message m behind it. *)
FittingWith(q, m, d, b, D) ==
  /\ b \in BStates
  /\ b \notin {"none", "gone"} => d \in {"out_act", "in_act", "clear"}
  /\ d = "idle" => b = "none"
  /\ HasBegin(q) \/ Begins(m) => b = "none" /\ d \notin {"in_acc", "in_act"}
  /\ b = "none" => D = <<>> /\ ~HasFlow(q) /\ ~Flows(m)
  /\ HasOpen(q) \/ Opens(m) => D = <<>>
  /\ HasClose(q) \/ Closes(m) => b = "gone"
  /\ HasFlow(q) \/ Flows(m) => (b = "gone" => HasClose(q) \/ Closes(m))

LEMMA FittingLonger ==
  ASSUME NEW q, NEW m, NEW r, Longer(q, m, r), NEW d, NEW b, NEW D, FittingWith(q, m, d, b, D)
  PROVE  Fitting(r, d, b, D)
<1>1. /\ HasBegin(r) <=> HasBegin(q) \/ Begins(m)
      /\ HasOpen(r) <=> HasOpen(q) \/ Opens(m)
      /\ HasClose(r) <=> HasClose(q) \/ Closes(m)
      /\ HasFlow(r) <=> HasFlow(q) \/ Flows(m)
  BY MarksAppend, FlowsAppend
<1>. QED BY <1>1 DEF Fitting, FittingWith

(* A message of the device that neither opens a B3 connection nor confirms *)
(* a block.                                                                *)
LEMMA FlowEmits ==
  ASSUME FlowInv, DrvInv, DrvInv', UNCHANGED <<card, pc>>, Running, NEW p \in Plci,
         NEW d, NEW b, NEW m, Emits(line, line', p, d, b, line.data[p], m),
         ~Opens(m), ~Confirmation(m), m.cmd # "CONNECT_B3_IND",
         Flows(m) => ~HasClose(line.up[p]) /\ ~HasEnd(line.up[p]),
         FittingWith(line.up[p], m, d, b, line.data[p]),
         line.b[p] # "none" => b # "none",
         b = "gone" => line.b[p] = "gone" \/ Closes(m),
         d \in {"in_acc", "in_act"} => line.d[p] \in {"in_acc", "in_act"}
  PROVE  FlowInv' /\ Called
<1>1. PICK n, q, r, D : n = line' /\ q = line.up[p] /\ r = n.up[p] /\ D = line.data[p]
  OBVIOUS
<1>2. Lanes(line) /\ Formed(line) /\ IsSeq(q) /\ IsSeq(D) /\ Course(q, line.d[p], line.b[p], D)
  BY <1>1, Knowing
<1>3. /\ Formed(n) /\ Elsewhere(line, n, p) /\ r = Append(q, m)
      /\ n.d[p] = d /\ n.b[p] = b /\ n.data[p] = D
  BY <1>1 DEF Emits
<1>4. Longer(q, m, r)
  BY <1>2, <1>3, QueueAppend
<1>5. Fitting(r, d, b, D)
  <2>1. FittingWith(q, m, d, b, D)
    BY <1>1
  <2>. QED BY <1>4, <2>1, FittingLonger
<1>6. Course(r, d, b, D)
  <2>1. /\ Flows(m) => ~HasClose(q) /\ ~HasEnd(q)
        /\ Opens(m) => ~HasFlow(q)
        /\ Confirmation(m) => ~HasOpen(q)
    BY <1>1
  <2>2. Ordered(q)
    BY <1>2 DEF Course
  <2>3. Ordered(r)
    BY <1>4, <2>1, <2>2, OrderedAppend
  <2>. QED BY <1>2, <1>4, <1>5, <2>3 DEF Course, Longer
<1>7. Lanes(n)
  BY <1>1, <1>2, <1>3, <1>6, LanesSet
<1>8. HasClose(r) <=> HasClose(q) \/ Closes(m)
  BY <1>4, FlowsAppend
<1>9. Extended(q, r)
  BY <1>3 DEF Extended
<1>10. Steady(line, n, p)
  BY <1>1, <1>3, <1>8, <1>9 DEF Steady, Firm, Unanswered
<1>11. NoRing(line, n)
  <2>1. Emits(line, n, p, d, b, D, m)
    BY <1>1
  <2>. QED BY <1>1, <1>2, <2>1, EmitsNoRing
<1>. QED BY <1>1, <1>3, <1>7, <1>10, <1>11, FlowSteady

(* The device reports a state of the connection, or of its B3 connection. *)
LEMMA ReportsEmits ==
  ASSUME FlowInv, DrvInv, NEW p \in Plci, NEW from, NEW to, NEW cmd,
         Reports(p, from, to, cmd), NEW m, m = Msg(cmd, TRUE, 0)
  PROVE  /\ UNCHANGED <<card, pc>> /\ Running /\ line.d[p] \in from
         /\ Emits(line, line', p, to, line.b[p], line.data[p], m)
<1>1. /\ UNCHANGED <<card, pc>> /\ Running /\ line.d[p] \in from
      /\ line' = Up(WithD(line, p, to), p, m)
  BY DEF Reports, Device, Running, Ind, WithD
<1>2. Formed(line)
  BY <1>1, Knowing
<1>3. PICK k : k = WithD(line, p, to)
  OBVIOUS
<1>4. Changed(line, k, p, to, line.b[p], line.data[p])
  BY <1>2, <1>3, ChangedFields
<1>5. line' = Up(k, p, m)
  BY <1>1, <1>3
<1>. QED BY <1>1, <1>4, <1>5, Emitted

LEMMA ReportsB3Emits ==
  ASSUME FlowInv, DrvInv, NEW p \in Plci, NEW from, NEW to, NEW cmd,
         ReportsB3(p, from, to, cmd), NEW m, m = Msg(cmd, TRUE, 0)
  PROVE  /\ UNCHANGED <<card, pc>> /\ Running /\ line.b[p] \in from
         /\ Emits(line, line', p, line.d[p], to, line.data[p], m)
<1>1. /\ UNCHANGED <<card, pc>> /\ Running /\ line.b[p] \in from
      /\ line' = Up(WithB(line, p, to), p, m)
  BY DEF ReportsB3, Device, Running, Ind, WithB
<1>2. Formed(line)
  BY <1>1, Knowing
<1>3. PICK k : k = WithB(line, p, to)
  OBVIOUS
<1>4. Changed(line, k, p, line.d[p], to, line.data[p])
  BY <1>2, <1>3, ChangedFields
<1>5. line' = Up(k, p, m)
  BY <1>1, <1>3
<1>. QED BY <1>1, <1>4, <1>5, Emitted

LEMMA FlowRing ==
  ASSUME FlowInv, DrvInv, DrvInv', NEW p \in Plci, Ring(p)
  PROVE  FlowInv' /\ Called
<1>1. PICK m : m = Msg("CONNECT_IND", TRUE, 0)
  OBVIOUS
<1>2. PICK from : from = {"idle"} /\ Reports(p, from, "in", "CONNECT_IND")
  BY DEF Ring
<1>3. /\ UNCHANGED <<card, pc>> /\ Running /\ line.d[p] = "idle"
      /\ Emits(line, line', p, "in", line.b[p], line.data[p], m)
  <2>1. /\ UNCHANGED <<card, pc>> /\ Running /\ line.d[p] \in from
        /\ Emits(line, line', p, "in", line.b[p], line.data[p], m)
    BY <1>1, <1>2, ReportsEmits
  <2>. QED BY <1>2, <2>1
<1>4. m.cmd = "CONNECT_IND"
  BY <1>1, MsgIs
<1>5. ~Flows(m) /\ ~Confirmation(m) /\ ~Opens(m) /\ ~Closes(m)
  BY <1>4, DeviceMessages
<1>6. Fitting(line.up[p], line.d[p], line.b[p], line.data[p])
  BY <1>3, Knowing
<1>7. FittingWith(line.up[p], m, "in", line.b[p], line.data[p])
  BY <1>3, <1>5, <1>6 DEF Fitting, FittingWith, BStates
<1>8. line.b[p] = "none"
  BY <1>3, <1>6 DEF Fitting
<1>. QED BY <1>3, <1>4, <1>5, <1>7, <1>8, FlowEmits

LEMMA FlowAnswered ==
  ASSUME FlowInv, DrvInv, DrvInv', NEW p \in Plci, Answered(p)
  PROVE  FlowInv' /\ Called
<1>1. PICK m : m = Msg("CONNECT_ACTIVE_IND", TRUE, 0)
  OBVIOUS
<1>2. PICK from, d, e :
                  /\ from = {d} /\ Reports(p, from, e, "CONNECT_ACTIVE_IND")
                  /\ (d = "out" /\ e = "out_act") \/ (d = "in_acc" /\ e = "in_act")
  BY DEF Answered
<1>3. /\ UNCHANGED <<card, pc>> /\ Running /\ line.d[p] = d
      /\ Emits(line, line', p, e, line.b[p], line.data[p], m)
  <2>1. /\ UNCHANGED <<card, pc>> /\ Running /\ line.d[p] \in from
        /\ Emits(line, line', p, e, line.b[p], line.data[p], m)
    BY <1>1, <1>2, ReportsEmits
  <2>. QED BY <1>2, <2>1
<1>4. m.cmd = "CONNECT_ACTIVE_IND"
  BY <1>1, MsgIs
<1>5. ~Flows(m) /\ ~Confirmation(m) /\ ~Opens(m) /\ ~Closes(m) /\ ~Begins(m)
  BY <1>4, DeviceMessages
<1>6. Fitting(line.up[p], line.d[p], line.b[p], line.data[p])
  BY <1>3, Knowing
<1>7. FittingWith(line.up[p], m, e, line.b[p], line.data[p])
  BY <1>2, <1>3, <1>5, <1>6 DEF Fitting, FittingWith, BStates
<1>8. line.b[p] = "none" \/ line.b[p] = "gone"
  BY <1>2, <1>3, <1>6 DEF Fitting
<1>. QED BY <1>2, <1>3, <1>4, <1>5, <1>7, <1>8, FlowEmits

LEMMA FlowEnds ==
  ASSUME FlowInv, DrvInv, DrvInv', NEW p \in Plci, NEW from, Ends(p, from)
  PROVE  FlowInv' /\ Called
<1>1. PICK m : m = Msg("DISCONNECT_IND", TRUE, 0)
  OBVIOUS
<1>2. Reports(p, from, "gone", "DISCONNECT_IND") /\ line.b[p] \in {"none", "gone"}
  BY DEF Ends
<1>3. /\ UNCHANGED <<card, pc>> /\ Running /\ line.d[p] \in from
      /\ Emits(line, line', p, "gone", line.b[p], line.data[p], m)
  BY <1>1, <1>2, ReportsEmits
<1>4. m.cmd = "DISCONNECT_IND"
  BY <1>1, MsgIs
<1>5. ~Flows(m) /\ ~Confirmation(m) /\ ~Opens(m) /\ ~Closes(m) /\ ~Begins(m)
  BY <1>4, DeviceMessages
<1>6. Fitting(line.up[p], line.d[p], line.b[p], line.data[p])
  BY <1>3, Knowing
<1>7. FittingWith(line.up[p], m, "gone", line.b[p], line.data[p])
  BY <1>2, <1>3, <1>5, <1>6 DEF Fitting, FittingWith, BStates
<1>. QED BY <1>3, <1>4, <1>5, <1>7, FlowEmits

(* The device reports the state of a B3 connection. *)
LEMMA FlowB3Reports ==
  ASSUME FlowInv, DrvInv, DrvInv', NEW p \in Plci, NEW from, NEW to, NEW cmd, ReportsB3(p, from, to, cmd),
         from \in SUBSET {"in", "alloc", "act", "clear"},
         \/ cmd = "DATA_B3_IND" /\ to = "act"
         \/ cmd = "CONNECT_B3_ACTIVE_IND" /\ to = "act"
         \/ cmd = "DISCONNECT_B3_IND" /\ to = "gone"
  PROVE  FlowInv' /\ Called
<1>1. PICK m : m = Msg(cmd, TRUE, 0)
  OBVIOUS
<1>2. /\ UNCHANGED <<card, pc>> /\ Running /\ line.b[p] \in from
      /\ Emits(line, line', p, line.d[p], to, line.data[p], m)
  BY <1>1, ReportsB3Emits
<1>3. m.cmd = cmd
  BY <1>1, MsgIs
<1>4. /\ ~Confirmation(m) /\ ~Opens(m) /\ ~Begins(m)
      /\ to = "gone" => Closes(m)
      /\ to = "act" => ~Closes(m)
      /\ m.cmd # "CONNECT_B3_IND"
  <2>1. CASE cmd = "DATA_B3_IND" /\ to = "act"
    BY <1>3, <2>1, DeviceMessages
  <2>2. CASE cmd = "CONNECT_B3_ACTIVE_IND" /\ to = "act"
    BY <1>3, <2>2, DeviceMessages
  <2>3. CASE cmd = "DISCONNECT_B3_IND" /\ to = "gone"
    BY <1>3, <2>3, DeviceMessages
  <2>. QED BY <2>1, <2>2, <2>3
<1>5. Fitting(line.up[p], line.d[p], line.b[p], line.data[p]) /\ (HasEnd(line.up[p]) => line.d[p] = "gone")
  BY <1>2, Knowing
<1>6. line.b[p] \notin {"none", "gone"} /\ to \in {"act", "gone"}
  BY <1>2
<1>7. ~HasClose(line.up[p]) /\ ~HasEnd(line.up[p]) /\ ~HasBegin(line.up[p])
  BY <1>5, <1>6 DEF Fitting
<1>8. FittingWith(line.up[p], m, line.d[p], to, line.data[p])
  BY <1>4, <1>5, <1>6, <1>7 DEF Fitting, FittingWith, BStates
<1>. QED BY <1>2, <1>4, <1>6, <1>7, <1>8, FlowEmits

(* The connection p changes, and so may what is known of its channel. *)
Bears(l, n, p) ==
  \A x, m, v : Connection(x, m, v, l) /\ x # Null /\ x.plci = p =>
    /\ Connection(x, m, v, n)
    /\ Has(n.up[p], "CONNECT_B3_IND") => Has(l.up[p], "CONNECT_B3_IND") \/ v \in Answering

LEMMA BearsReport ==
  ASSUME NEW l, NEW n, NEW p \in Plci, Elsewhere(l, n, p), Bears(l, n, p),
         NEW x, NEW m, NEW v, Connection(x, m, v, l), Report(x, m, v, l.up)
  PROVE  Connection(x, m, v, n) /\ Report(x, m, v, n.up)
<1>1. CASE x # Null /\ x.plci = p
  <2>1. /\ Connection(x, m, v, n)
        /\ Has(n.up[p], "CONNECT_B3_IND") => Has(l.up[p], "CONNECT_B3_IND") \/ v \in Answering
    BY <1>1 DEF Bears
  <2>2. \A y \in Plci \cup {0} : x # Null /\ x.plci = y /\ Has(l.up[y], "CONNECT_B3_IND") => v \in Answering
    BY DEF Report
  <2>3. \A y \in Plci \cup {0} : x # Null /\ x.plci = y /\ Has(n.up[y], "CONNECT_B3_IND") => v \in Answering
    BY <1>1, <2>1, <2>2
  <2>. QED BY <2>1, <2>3 DEF Report
<1>2. CASE x = Null \/ x.plci # p
  <2>1. Connection(x, m, v, n)
    BY <1>2, ConnElse
  <2>2. \A y \in Plci \cup {0} : y # p => n.up[y] = l.up[y]
    BY DEF Elsewhere
  <2>. QED BY <1>2, <2>1, <2>2 DEF Report
<1>. QED BY <1>1, <1>2

LEMMA FlowBears ==
  ASSUME FlowInv, DrvInv', UNCHANGED <<card, pc>>, Running, NEW p \in Plci,
         NEW n, n = line', Lanes(n), Elsewhere(line, n, p), Bears(line, n, p)
  PROVE  FlowInv' /\ Called
<1>1. now.k = card /\ now.l = line
  BY DEF now
<1>2. PICK u : u = [k |-> card, l |-> n]
  OBVIOUS
<1>3. ASSUME NEW c \in Chan PROVE Faithful(u, c) /\ Link(u, c)
  <2>1. PICK x, m, v : x = card.plcip[c] /\ m = card.nccip[c] /\ v = card.told[c]
    OBVIOUS
  <2>2. Report(x, m, v, line.up) /\ (v \in {"ringing", "rejected"} => c \in card.incoming)
    BY <1>1, <2>1 DEF FlowInv, Faithful
  <2>3. Connection(x, m, v, line)
    BY <1>1, <2>1 DEF FlowInv, Regular, Link
  <2>4. Connection(x, m, v, n) /\ Report(x, m, v, n.up)
    BY <2>2, <2>3, BearsReport
  <2>. QED BY <1>2, <2>1, <2>2, <2>4 DEF Faithful, Link
<1>. QED BY <1>2, <1>3, FlowLine

(* CONNECT_B3_IND: whoever has the connection has been told of its answer. *)
LEMMA RingB3Bears ==
  ASSUME NEW l, NEW n, NEW p \in Plci, l.d[p] = "in_act", l.b[p] = "none", NEW b, NEW D, NEW m,
         Emits(l, n, p, "in_act", b, D, m)
  PROVE  Bears(l, n, p)
<1>1. ASSUME NEW x, NEW k, NEW v, Connection(x, k, v, l), x # Null, x.plci = p
      PROVE  Connection(x, k, v, n) /\ v \in Answering
  <2>1. /\ Carries(x, k, l) /\ (v = "up" => k # Null /\ k.ncci # 0)
        /\ x.state = "OUTGOING" => v \in {"dialing", "discarded"}
        /\ v \in Answering
    BY <1>1 DEF Connection
  <2>2. k # Null => Unnumbered(k)
    BY <1>1, <2>1 DEF Carries, Numbered, Ready
  <2>. QED BY <2>1, <2>2 DEF Connection, Carries
<1>. QED BY <1>1 DEF Bears

LEMMA FlowRingB3 ==
  ASSUME FlowInv, DrvInv, DrvInv', NEW p \in Plci, RingB3(p)
  PROVE  FlowInv' /\ Called
<1>1. PICK m, from : m = Msg("CONNECT_B3_IND", TRUE, 0) /\ from = {"none"}
  OBVIOUS
<1>2. ReportsB3(p, from, "in", "CONNECT_B3_IND") /\ line.d[p] = "in_act"
  BY <1>1 DEF RingB3
<1>3. /\ UNCHANGED <<card, pc>> /\ Running /\ line.b[p] \in from
      /\ Emits(line, line', p, line.d[p], "in", line.data[p], m)
  BY <1>1, <1>2, ReportsB3Emits
<1>4. PICK n, D : n = line' /\ D = line.data[p]
  OBVIOUS
<1>5. line.b[p] = "none" /\ Emits(line, n, p, "in_act", "in", D, m)
  BY <1>1, <1>2, <1>3, <1>4
<1>6. m.cmd = "CONNECT_B3_IND"
  BY <1>1, MsgIs
<1>7. Opens(m) /\ ~Closes(m) /\ ~Begins(m) /\ ~Confirmation(m)
  BY <1>6, DeviceMessages
<1>8. /\ Lanes(line) /\ Fitting(line.up[p], line.d[p], line.b[p], line.data[p])
      /\ HasEnd(line.up[p]) => line.d[p] = "gone"
  BY <1>3, Knowing
<1>9. ~HasBegin(line.up[p]) /\ ~HasEnd(line.up[p])
  BY <1>2, <1>8 DEF Fitting
<1>10. /\ Formed(n) /\ Elsewhere(line, n, p) /\ n.up[p] = Append(line.up[p], m)
       /\ n.d[p] = "in_act" /\ n.b[p] = "in" /\ n.data[p] = line.data[p]
  BY <1>4, <1>5 DEF Emits
<1>11. n.b[p] \in {"in", "alloc"} /\ n.d[p] = line.d[p] /\ n.d[p] \in {"out_act", "in_act"}
  BY <1>2, <1>10
<1>12. Lanes(n)
  BY <1>5, <1>7, <1>8, <1>9, <1>10, <1>11, LanesOpen
<1>13. Bears(line, n, p)
  BY <1>2, <1>5, RingB3Bears
<1>. QED BY <1>3, <1>4, <1>10, <1>12, <1>13, FlowBears

LEMMA TailSeq ==
  ASSUME NEW D, IsSeq(D), D # <<>>, NEW E, E = Tail(D)
  PROVE  IsSeq(E)
<1>1. PICK m : m = Head(D)
  OBVIOUS
<1>. QED BY <1>1, QueueTail DEF Shorter

(* DATA_B3_CONF: the block stays in the ackqueue of whoever has the        *)
(* connection.                                                             *)
LEMMA ConfirmsBears ==
  ASSUME NEW l, NEW n, NEW p \in Plci, IsSeq(l.up[p]), l.data[p] # <<>>, NEW E, E = Tail(l.data[p]),
         NEW m, Confirmation(m), m.id = Head(l.data[p]),
         Emits(l, n, p, l.d[p], l.b[p], E, m)
  PROVE  Bears(l, n, p)
<1>1. PICK q, r, D : q = l.up[p] /\ r = n.up[p] /\ D = l.data[p]
  OBVIOUS
<1>2. r = Append(q, m) /\ n.d[p] = l.d[p] /\ n.b[p] = l.b[p] /\ n.data[p] = E
  BY <1>1 DEF Emits
<1>3. Longer(q, m, r)
  BY <1>1, <1>2, QueueAppend
<1>4. m.cmd # "CONNECT_B3_IND" /\ ~Opens(m) /\ ~Closes(m)
  BY DEF Confirmation, Opens, Closes
<1>5. /\ HasOpen(r) <=> HasOpen(q)
      /\ HasClose(r) <=> HasClose(q)
      /\ Has(r, "CONNECT_B3_IND") <=> Has(q, "CONNECT_B3_IND")
  BY <1>3, <1>4, FlowsAppend, HasAppend
<1>6. ASSUME NEW x, NEW k, NEW v, Connection(x, k, v, l), x # Null, x.plci = p
      PROVE  Connection(x, k, v, n)
  <2>1. Carries(x, k, l)
    BY <1>6 DEF Connection
  <2>2. ASSUME Numbered(x, k, l) PROVE Numbered(x, k, n)
    <3>1. PICK h, A : h = k.handle /\ A = k.acks
      OBVIOUS
    <3>2. k.ncci = p /\ Ready(l, p) /\ Ledger(h, A, q, D)
      BY <1>1, <1>6, <2>2, <3>1 DEF Numbered
    <3>3. D # <<>> /\ m.id = Head(D) /\ E = Tail(D)
      BY <1>1
    <3>4. Ledger(h, A, r, E)
      BY <1>3, <3>2, <3>3, LedgerConfirms
    <3>5. Ready(n, p)
      BY <1>1, <1>2, <1>5, <3>2 DEF Ready
    <3>. QED BY <1>1, <1>2, <2>2, <3>1, <3>2, <3>4, <3>5 DEF Numbered
  <2>. QED BY <1>2, <1>6, <2>1, <2>2 DEF Connection, Carries
<1>. QED BY <1>1, <1>5, <1>6 DEF Bears

LEMMA FlowConfirms ==
  ASSUME FlowInv, DrvInv, DrvInv', NEW p \in Plci, Confirms(p)
  PROVE  FlowInv' /\ Called
<1>1. PICK q, D, E, m : /\ q = line.up[p] /\ D = line.data[p] /\ E = Tail(D)
                        /\ m = Msg("DATA_B3_CONF", TRUE, Head(D))
  OBVIOUS
<1>2. UNCHANGED <<card, pc>> /\ Running /\ D # <<>> /\ line' = Up(WithData(line, p, E), p, m)
  BY <1>1 DEF Confirms, Conf, Running, WithData
<1>3. /\ Lanes(line) /\ Formed(line) /\ IsSeq(q) /\ IsSeq(D)
      /\ Course(q, line.d[p], line.b[p], D) /\ Fitting(q, line.d[p], line.b[p], D)
  BY <1>1, <1>2, Knowing
<1>4. PICK n, k : n = line' /\ k = WithData(line, p, E)
  OBVIOUS
<1>5. Changed(line, k, p, line.d[p], line.b[p], E)
  <2>1. Changed(line, WithData(line, p, E), p, line.d[p], line.b[p], E)
    BY <1>3, ChangedFields
  <2>. QED BY <1>4, <2>1
<1>6. n = Up(k, p, m)
  BY <1>2, <1>4
<1>7. Emits(line, n, p, line.d[p], line.b[p], E, m)
  BY <1>5, <1>6, Emitted
<1>8. m.cmd = "DATA_B3_CONF" /\ m.id = Head(D)
  <2>1. PICK h : h = Head(D)
    OBVIOUS
  <2>2. m = Msg("DATA_B3_CONF", TRUE, h)
    BY <1>1, <2>1
  <2>3. m.cmd = "DATA_B3_CONF" /\ m.id = h
    BY <2>2 DEF Msg
  <2>. QED BY <2>1, <2>3
<1>9. Confirmation(m) /\ ~Flows(m) /\ ~Opens(m) /\ ~Closes(m) /\ ~Begins(m)
  BY <1>8, DeviceMessages
<1>10. PICK r : r = n.up[p]
  OBVIOUS
<1>11. /\ Formed(n) /\ Elsewhere(line, n, p) /\ r = Append(q, m)
       /\ n.d[p] = line.d[p] /\ n.b[p] = line.b[p] /\ n.data[p] = E
  BY <1>1, <1>7, <1>10 DEF Emits
<1>12. Longer(q, m, r)
  BY <1>3, <1>11, QueueAppend
<1>13. ~HasOpen(q) /\ line.b[p] # "none"
  BY <1>2, <1>3 DEF Fitting
<1>14. FittingWith(q, m, line.d[p], line.b[p], E)
  BY <1>3, <1>9, <1>13 DEF Fitting, FittingWith
<1>15. Fitting(r, line.d[p], line.b[p], E)
  BY <1>12, <1>14, FittingLonger
<1>16. IsSeq(E)
  BY <1>1, <1>2, <1>3, TailSeq
<1>17. Course(r, line.d[p], line.b[p], E)
  <2>1. Ordered(q)
    BY <1>3 DEF Course
  <2>2. Ordered(r)
    BY <1>9, <1>12, <1>13, <2>1, OrderedAppend
  <2>. QED BY <1>12, <1>15, <1>16, <2>2 DEF Course, Longer
<1>18. Lanes(n)
  <2>1. Course(n.up[p], n.d[p], n.b[p], n.data[p])
    BY <1>10, <1>11, <1>17
  <2>. QED BY <1>3, <1>11, <2>1, LanesSet
<1>19. Bears(line, n, p)
  <2>1. IsSeq(line.up[p]) /\ line.data[p] # <<>> /\ E = Tail(line.data[p]) /\ m.id = Head(line.data[p])
    BY <1>1, <1>2, <1>3, <1>8
  <2>. QED BY <1>7, <1>9, <2>1, ConfirmsBears
<1>. QED BY <1>2, <1>4, <1>11, <1>18, <1>19, FlowBears

LEMMA FlowDevice ==
  ASSUME FlowInv, DrvInv, DrvInv', NEW p \in Plci,
         \/ Ring(p) \/ Answered(p) \/ Ends(p, Outgoing \cup Incoming)
         \/ RingB3(p) \/ ActiveB3(p) \/ EndsB3(p, {"in", "alloc", "act"})
         \/ Clears(p) \/ Confirms(p) \/ Receives(p)
  PROVE  FlowInv' /\ Called
<1>1. CASE Ring(p)
  BY <1>1, FlowRing
<1>2. CASE Answered(p)
  BY <1>2, FlowAnswered
<1>3. CASE \E from : Ends(p, from)
  BY <1>3, FlowEnds
<1>4. CASE RingB3(p)
  BY <1>4, FlowRingB3
<1>5. CASE \E from \in SUBSET {"in", "alloc", "act", "clear"} :
             \/ ReportsB3(p, from, "act", "CONNECT_B3_ACTIVE_IND")
             \/ ReportsB3(p, from, "gone", "DISCONNECT_B3_IND")
             \/ ReportsB3(p, from, "act", "DATA_B3_IND")
  <2>1. PICK from, to, cmd :
          /\ from \in SUBSET {"in", "alloc", "act", "clear"} /\ ReportsB3(p, from, to, cmd)
          /\ \/ cmd = "DATA_B3_IND" /\ to = "act"
             \/ cmd = "CONNECT_B3_ACTIVE_IND" /\ to = "act"
             \/ cmd = "DISCONNECT_B3_IND" /\ to = "gone"
    BY <1>5
  <2>. QED BY <2>1, FlowB3Reports
<1>6. CASE Confirms(p)
  BY <1>6, FlowConfirms
<1>. QED
  <2>1. \A from : EndsB3(p, from) => ReportsB3(p, from, "gone", "DISCONNECT_B3_IND")
    BY DEF EndsB3
  <2>2. /\ {"alloc"} \in SUBSET {"in", "alloc", "act", "clear"}
        /\ {"act"} \in SUBSET {"in", "alloc", "act", "clear"}
        /\ {"clear"} \in SUBSET {"in", "alloc", "act", "clear"}
        /\ {"in", "alloc", "act"} \in SUBSET {"in", "alloc", "act", "clear"}
    OBVIOUS
  <2>3. ActiveB3(p) => ReportsB3(p, {"alloc"}, "act", "CONNECT_B3_ACTIVE_IND")
    BY DEF ActiveB3
  <2>4. Receives(p) => ReportsB3(p, {"act"}, "act", "DATA_B3_IND")
    BY DEF Receives
  <2>5. Clears(p) => \/ Ends(p, {"clear"}) \/ EndsB3(p, {"clear"}) \/ EndsB3(p, {"in", "alloc", "act"})
    BY DEF Clears
  <2>. QED BY <1>1, <1>2, <1>3, <1>4, <1>5, <1>6, <2>1, <2>2, <2>3, <2>4, <2>5

-------------------------------------------------------------------------------
(* The removal of the controller.                                          *)

(* The removal: at most the channel c changes. *)
LEMMA FlowRemoved ==
  ASSUME FlowInv, NEW u, NEW c, Frame(now, u, c), card' = u.k, line' = u.l, u.l = line, ~Running',
         c \in Chan => Faithful(u, c),
         pc' = "free" => Top' \in Chan /\ card'.told[Top'] = "discarded"
  PROVE  FlowInv'
<1>1. Plain(now) /\ now.k = card /\ now.l = line /\ Plain(u)
  BY DEF FlowInv, now, Frame
<1>2. now' = u
  BY <1>1 DEF Plain, Shape, now
<1>3. Plain(now)'
  BY <1>1, <1>2 DEF Plain, Shape, IsCard, IsLine, Queues
<1>4. ASSUME NEW y \in Chan PROVE Faithful(u, y)
  <2>1. CASE y = c
    BY <2>1
  <2>2. CASE y # c
    <3>1. PICK x, n, t : x = card.plcip[y] /\ n = card.nccip[y] /\ t = card.told[y]
      OBVIOUS
    <3>2. /\ u.k.plcip[y] = x /\ u.k.nccip[y] = n /\ u.k.told[y] = t
          /\ y \in u.k.incoming <=> y \in card.incoming
      BY <1>1, <2>2, <3>1 DEF Frame
    <3>3. Report(x, n, t, line.up) /\ (t \in {"ringing", "rejected"} => y \in card.incoming)
      BY <1>1, <3>1 DEF FlowInv, Faithful
    <3>. QED BY <3>2, <3>3 DEF Faithful
  <2>. QED BY <2>1, <2>2
<1>5. (\A y \in Chan : Faithful(now, y))'
  BY <1>2, <1>4 DEF Faithful, Report, Has
<1>6. Orderly(line.up)'
  BY DEF FlowInv, Orderly
<1>7. (pc = "free" => Top \in Chan /\ card.told[Top] = "discarded")'
  OBVIOUS
<1>8. (Running => Regular(now))'
  BY DEF Running
<1>. QED BY <1>3, <1>5, <1>6, <1>7, <1>8 DEF FlowInv

(* What isdn4linux was told stays. *)
LEMMA FlowQuiet ==
  ASSUME FlowInv, NEW u, Plain(u), card' = u.k, line' = u.l, u.l = line, ~Running', pc' # "free",
         u.k.plcip = card.plcip, u.k.nccip = card.nccip, u.k.told = card.told, u.k.incoming = card.incoming
  PROVE  FlowInv'
<1>1. now.k = card /\ now.l = line
  BY DEF now
<1>2. PICK c : c \notin Chan
  <2>1. NbChan \notin Chan
    BY DrvAssumption DEF Chan
  <2>. QED BY <2>1
<1>3. Frame(now, u, c)
  BY <1>1 DEF Frame
<1>. QED BY <1>2, <1>3, FlowRemoved

LEMMA FlowUnregister ==
  ASSUME FlowInv, unregister_capi_device
  PROVE  FlowInv' /\ Called
<1>1. pc = "up" /\ pc' = "unregistered" /\ UNCHANGED <<card, line, icall>>
  BY DEF unregister_capi_device
<1>2. now' = now /\ Running /\ Running'
  BY <1>1 DEF now, Running
<1>3. Plain(now)' /\ Orderly(line.up)' /\ (\A c \in Chan : Faithful(now, c))'
  BY <1>1, <1>2 DEF FlowInv, Plain, Shape, IsCard, IsLine, Queues, Orderly, Faithful, Report, Has
<1>4. Regular(now)'
  BY <1>1, <1>2 DEF FlowInv, Regular, Lanes, Link
<1>5. (pc = "free" => Top \in Chan /\ card.told[Top] = "discarded")'
  BY <1>1
<1>6. Called
  BY <1>1 DEF Called
<1>. QED BY <1>3, <1>4, <1>5, <1>6 DEF FlowInv

LEMMA FlowDelcontr ==
  ASSUME FlowInv, capidrv_delcontr
  PROVE  FlowInv' /\ Called
<1>1. pc = "unregistered" /\ pc' = "disch" /\ UNCHANGED <<card, line, icall>>
  BY DEF capidrv_delcontr, Removing
<1>2. Plain(now) /\ now.k = card /\ now.l = line
  BY DEF FlowInv, now
<1>3. FlowInv'
  BY <1>1, <1>2, FlowQuiet DEF Running
<1>4. Channels!Stop
  BY <1>1 DEF Channels!Stop
<1>5. Called
  BY <1>4 DEF Called, Channels!Next
<1>. QED BY <1>3, <1>5

LEMMA FlowDisch ==
  ASSUME FlowInv, RemInv, capidrv_delcontr_disch
  PROVE  FlowInv' /\ Called
<1>1. /\ pc = "disch" /\ pc' = "free" /\ UNCHANGED <<line, icall>> /\ card.nbchan > 0
      /\ card' = [card EXCEPT !.told[Top] = "discarded"]
  BY DEF capidrv_delcontr_disch, Removing
<1>2. card.nbchan \in 0 .. NbChan /\ IsCard(card) /\ IsLine(line)
  BY QueuesNamed DEF IsCard
<1>3. PICK c : c = Top
  OBVIOUS
<1>4. c \in Chan
  BY <1>1, <1>2, <1>3, DrvAssumption DEF Top, Chan
<1>5. PICK x, n, v : x = card.plcip[c] /\ n = card.nccip[c] /\ v = card.told[c]
  OBVIOUS
<1>6. /\ Becomes(now, now, c, x, n, v) /\ Report(x, n, v, line.up)
      /\ Plain(now) /\ now.k = card /\ now.l = line
  BY <1>4, <1>5, NowAt
<1>7. PICK u : u = Tell(now, c, "discarded")
  OBVIOUS
<1>8. Becomes(now, u, c, x, n, "discarded") /\ u.l = line
  <2>1. Becomes(now, u, c, x, n, Heard(v, "discarded")) /\ u.l = now.l
    <3>1. "discarded" \in Tolds
      BY DEF Tolds
    <3>. QED BY <1>4, <1>6, <1>7, <3>1, PutTold
  <2>. QED BY <1>6, <2>1 DEF Heard
<1>9. card' = u.k
  BY <1>1, <1>2, <1>3, <1>6, <1>7 DEF Tell, IsCard, now
<1>10. Faithful(u, c)
  BY <1>6, <1>8 DEF Report, Faithful, Becomes, Answering
<1>11. Top' = c
  BY <1>1, <1>2, <1>3 DEF Top, IsCard
<1>12. card'.told[c] = "discarded"
  BY <1>8, <1>9 DEF Becomes
<1>13. FlowInv'
  BY <1>1, <1>4, <1>8, <1>9, <1>10, <1>11, <1>12, FlowRemoved DEF Becomes, Running
<1>14. card'.told = [card.told EXCEPT ![c] = "discarded"]
  BY <1>1, <1>2, <1>3 DEF IsCard
<1>15. Channels!Discard(c)
  BY <1>1, <1>14 DEF Channels!Discard, Channels!Step
<1>16. Called
  BY <1>4, <1>15 DEF Called, Channels!Next
<1>. QED BY <1>13, <1>16

LEMMA FlowFree ==
  ASSUME FlowInv, capidrv_delcontr_free
  PROVE  FlowInv' /\ Called
<1>1. PICK c, t, u : /\ c = Top
                     /\ t = IF card.nccip[c] = Null THEN now ELSE free_ncci(now, c)
                     /\ u = IF card.plcip[c] = Null THEN t ELSE free_plci(t, c)
  OBVIOUS
<1>2. pc = "free" /\ pc' = "next" /\ UNCHANGED <<line, icall>> /\ card' = u.k
  BY <1>1 DEF capidrv_delcontr_free, Removing
<1>3. c \in Chan /\ card.told[c] = "discarded"
  BY <1>1, <1>2 DEF FlowInv
<1>4. PICK x, n, v : x = card.plcip[c] /\ n = card.nccip[c] /\ v = card.told[c]
  OBVIOUS
<1>5. /\ Becomes(now, now, c, x, n, v) /\ Report(x, n, v, line.up)
      /\ Plain(now) /\ now.k = card /\ now.l = line
  BY <1>3, <1>4, NowAt
<1>6. Becomes(now, t, c, x, Null, v) /\ t.l = line
  <2>1. CASE n = Null
    BY <1>1, <1>4, <1>5, <2>1
  <2>2. CASE n # Null
    <3>1. t = free_ncci(now, c)
      BY <1>1, <1>4, <2>2
    <3>. QED BY <1>3, <1>5, <3>1, PutNone
  <2>. QED BY <2>1, <2>2
<1>7. Becomes(now, u, c, Null, Null, v) /\ u.l = line
  <2>1. CASE x = Null
    BY <1>1, <1>4, <1>6, <2>1
  <2>2. CASE x # Null
    <3>1. u = free_plci(t, c)
      BY <1>1, <1>4, <2>2
    <3>2. Becomes(now, u, c, Null, Orphaned(Null), v) /\ u.l = t.l
      BY <1>3, <1>6, <3>1, PutFree
    <3>. QED BY <1>6, <3>2 DEF Orphaned
  <2>. QED BY <2>1, <2>2
<1>8. Faithful(u, c)
  BY <1>3, <1>4, <1>7 DEF Faithful, Report, Becomes
<1>9. FlowInv'
  BY <1>2, <1>3, <1>7, <1>8, FlowRemoved DEF Becomes, Running
<1>10. Called
  <2>1. u.k.told = [y \in Chan |-> u.k.told[y]] /\ card.told = [y \in Chan |-> card.told[y]]
    BY <1>5, <1>7 DEF Becomes, Frame, Plain
  <2>2. \A y \in Chan : u.k.told[y] = card.told[y]
    BY <1>4, <1>5, <1>7 DEF Becomes, Frame
  <2>. QED BY <1>2, <2>1, <2>2 DEF Called
<1>. QED BY <1>9, <1>10

LEMMA FlowNext ==
  ASSUME FlowInv, RemInv, capidrv_delcontr_next \/ capidrv_delcontr_unlist
  PROVE  FlowInv' /\ Called
<1>1. /\ UNCHANGED <<line, icall>> /\ pc' \in {"disch", "removed"} /\ pc \in {"next", "disch"}
      /\ card' = card \/ (pc = "next" /\ card' = [card EXCEPT !.nbchan = @ - 1])
  BY DEF capidrv_delcontr_next, capidrv_delcontr_unlist, Removing
<1>2. Plain(now) /\ now.k = card /\ now.l = line /\ IsCard(card) /\ IsLine(line)
  BY QueuesNamed DEF FlowInv, now
<1>3. PICK u : u = [k |-> card', l |-> line]
  OBVIOUS
<1>4. /\ card'.plcip = card.plcip /\ card'.nccip = card.nccip /\ card'.told = card.told
      /\ card'.incoming = card.incoming /\ IsCard(card')
  <2>1. CASE card' = card
    BY <1>2, <2>1
  <2>2. CASE pc = "next" /\ card' = [card EXCEPT !.nbchan = @ - 1]
    <3>1. card.nbchan - 1 \in 0 .. NbChan
      BY <1>2, <2>2, DrvAssumption DEF IsCard, RemInv, Phase
    <3>. QED BY <1>2, <2>2, <3>1 DEF IsCard
  <2>. QED BY <1>1, <2>1, <2>2
<1>5. Plain(u)
  BY <1>2, <1>3, <1>4 DEF Plain, Shape
<1>6. FlowInv'
  BY <1>1, <1>3, <1>4, <1>5, FlowQuiet DEF Running
<1>7. Called
  BY <1>1, <1>4 DEF Called
<1>. QED BY <1>6, <1>7

-------------------------------------------------------------------------------
(* Where it begins, and every step.                                        *)

(* The first states: no channel is in use, and nothing is on the line.     *)
LEMMA FirstLanes ==
  \A n : n = NewLine => IsLine(n) /\ Lanes(n)
<1>1. IsSeq(<<>>) /\ Entries(<<>>) = {}
  BY DEF IsSeq, Entries
<1>2. Course(<<>>, "idle", "none", <<>>)
  <2>1. Fitting(<<>>, "idle", "none", <<>>)
    BY <1>1 DEF Fitting, BStates, HasBegin, HasOpen, HasClose, HasFlow
  <2>. QED BY <1>1, <2>1 DEF Course, Ordered
<1>3. ASSUME NEW n, n = NewLine PROVE IsLine(n) /\ Lanes(n)
  <2>1. Formed(n)
    BY <1>3 DEF Formed, IsLine, NewLine
  <2>2. \A p \in Plci : n.up[p] = <<>> /\ n.d[p] = "idle" /\ n.b[p] = "none" /\ n.data[p] = <<>>
    BY <1>3 DEF NewLine
  <2>. QED BY <1>2, <2>1, <2>2 DEF Lanes, Formed
<1>. QED BY <1>3

LEMMA ListenLanes ==
  ASSUME NEW n, IsLine(n), Lanes(n),
         NEW l, l \in Take(n, "LISTEN_REQ", 0, 0) \/ l = [n EXCEPT !.listening = l.listening]
  PROVE  Lanes(l)
<1>1. ASSUME NEW k, k = [n EXCEPT !.listening = k.listening]
      PROVE  IsLine(k) /\ Lanes(k)
  <2>1. IsLine(k) /\ k.d = n.d /\ k.b = n.b /\ k.data = n.data /\ k.up = n.up
    BY <1>1 DEF IsLine
  <2>. QED BY <2>1, LanesSame
<1>2. CASE l \in Take(n, "LISTEN_REQ", 0, 0)
  <2>1. PICK k : k = [n EXCEPT !.listening = TRUE]
    OBVIOUS
  <2>2. IsLine(k) /\ Lanes(k)
    BY <1>1, <2>1 DEF IsLine
  <2>3. \/ l = Conf(k, 0, "LISTEN_CONF", TRUE, 0)
        \/ l = Conf(n, 0, "LISTEN_CONF", FALSE, 0)
    BY <1>2, <2>1 DEF Take
  <2>4. Formed(l) /\ (Elsewhere(k, l, 0) \/ Elsewhere(n, l, 0))
    BY <2>2, <2>3, ZeroConf DEF Lanes
  <2>. QED BY <2>2, <2>4, LanesZero
<1>. QED BY <1>1, <1>2

FirstFlow(s) == Plain(s) /\ Orderly(s.l.up) /\ (\A c \in Chan : Faithful(s, c)) /\ Regular(s)
LEMMA FirstFlows ==
  ASSUME NEW k, NEW l, k = [NewCard EXCEPT !.state = k.state], Lanes(l),
         NEW s, s = [k |-> k, l |-> l], Sound(s)
  PROVE  FirstFlow(s) /\ k.told = [c \in Chan |-> "free"]
<1>1. /\ k.plcip = [c \in Chan |-> Null] /\ k.nccip = [c \in Chan |-> Null]
      /\ k.told = [c \in Chan |-> "free"]
  BY DEF NewCard
<1>2. Queues(l)
  <2>1. l.up = [y \in Plci \cup {0} |-> l.up[y]] /\ \A y \in Plci \cup {0} : IsSeq(l.up[y])
    BY DEF Sound, Agree, Lines, Queue
  <2>. QED BY <2>1 DEF Queues
<1>3. Plain(s)
  BY <1>1, <1>2 DEF Plain, Sound, Tolds
<1>4. Orderly(s.l.up)
  BY OrderlyLanes
<1>5. ASSUME NEW c \in Chan PROVE Faithful(s, c) /\ Link(s, c)
  <2>1. s.k.plcip[c] = Null /\ s.k.nccip[c] = Null /\ s.k.told[c] = "free"
    BY <1>1
  <2>. QED BY <2>1 DEF Faithful, Report, Link, Connection, Carries
<1>. QED BY <1>1, <1>3, <1>4, <1>5 DEF FirstFlow, Regular

LEMMA BegunFlows ==
  ASSUME NEW k, NEW l, NEW state, Begun(k, l, state), NEW s, s = [k |-> k, l |-> l]
  PROVE  FirstFlow(s) /\ k.told = [c \in Chan |-> "free"]
<1>1. Sound(s)
  BY BegunSound
<1>2. PICK n : n = NewLine
  OBVIOUS
<1>3. Lanes(l)
  <2>1. l \in Take(n, "LISTEN_REQ", 0, 0)
    BY <1>2 DEF Begun
  <2>. QED BY <1>2, <2>1, FirstLanes, ListenLanes
<1>4. k = [NewCard EXCEPT !.state = k.state]
  BY DEF Begun, NewCard
<1>. QED BY <1>1, <1>3, <1>4, FirstFlows

LEMMA InitFlow == Init => FlowInv /\ Channels!Init
<1>. SUFFICES ASSUME Init PROVE FlowInv /\ Channels!Init
  OBVIOUS
<1>1. Begun(card, line, "WAIT_CONF") /\ pc = "up"
  BY DEF Init, Begun
<1>2. FirstFlow(now) /\ card.told = [c \in Chan |-> "free"] /\ now.l = line
  BY <1>1, BegunFlows DEF now
<1>. QED BY <1>1, <1>2 DEF FlowInv, FirstFlow, Channels!Init

LEMMA CallInitFlow == CallInit => FlowInv /\ Channels!Init
<1>. SUFFICES ASSUME CallInit PROVE FlowInv /\ Channels!Init
  OBVIOUS
<1>1. /\ card = [NewCard EXCEPT !.state = card.state] /\ pc = "up"
      /\ line = [NewLine EXCEPT !.listening = line.listening]
  BY DEF CallInit, NewCard, NewLine
<1>2. Sound(now)
  BY <1>1, FirstState DEF now
<1>3. PICK n : n = NewLine
  OBVIOUS
<1>4. Lanes(line)
  BY <1>1, <1>3, FirstLanes, ListenLanes
<1>5. FirstFlow(now) /\ card.told = [c \in Chan |-> "free"] /\ now.l = line
  BY <1>1, <1>2, <1>4, FirstFlows DEF now
<1>. QED BY <1>1, <1>5 DEF FlowInv, FirstFlow, Channels!Init

LEMMA FlowAdd ==
  ASSUME DrvInv, capidrv_addcontr
  PROVE  FlowInv' /\ Called
<1>1. Begun(card', line', "WAIT_CONF") /\ pc = "removed" /\ pc' = "up"
  BY DEF capidrv_addcontr, Begun
<1>2. PICK s : s = now'
  OBVIOUS
<1>3. FirstFlow(s) /\ card'.told = [c \in Chan |-> "free"] /\ s.l = line'
  BY <1>1, <1>2, BegunFlows DEF now
<1>4. Plain(now)' /\ (\A c \in Chan : Faithful(now, c))' /\ Orderly(line.up)'
  <2>1. Plain(now)'
    BY <1>2, <1>3 DEF FirstFlow, Plain, Shape, IsCard, IsLine, Queues
  <2>2. (\A c \in Chan : Faithful(now, c))'
    BY <1>2, <1>3 DEF FirstFlow, Faithful, Report, Has
  <2>3. Orderly(line.up)'
    BY <1>2, <1>3 DEF FirstFlow, Orderly
  <2>. QED BY <2>1, <2>2, <2>3
<1>5. Regular(now)'
  BY <1>2, <1>3 DEF FirstFlow, Regular, Lanes, Link
<1>6. Channels!Restart
  BY <1>1, <1>3 DEF Channels!Restart
<1>7. Called
  BY <1>6 DEF Called, Channels!Next
<1>. QED BY <1>1, <1>4, <1>5, <1>7 DEF FlowInv

(* A controller that is listening already. *)
LEMMA CallInitRem == CallInit => RemInv
<1>. SUFFICES ASSUME CallInit PROVE RemInv
  OBVIOUS
<1>1. /\ card = [NewCard EXCEPT !.state = card.state] /\ icall = Null /\ pc = "up"
      /\ line = [NewLine EXCEPT !.listening = line.listening]
  BY DEF CallInit, NewCard, NewLine
<1>2. Sound(now)
  BY <1>1, FirstState DEF now
<1>3. PICK n : n = NewLine
  OBVIOUS
<1>4. /\ IsLine(n) /\ n.d = [p \in Plci |-> "idle"] /\ n.up = [p \in Plci \cup {0} |-> <<>>]
  BY <1>3 DEF IsLine, NewLine
<1>5. IsSeq(<<>>) /\ Entries(<<>>) = {}
  BY DEF IsSeq, Entries
<1>6. Heralds(<<>>, "idle")
  BY <1>5 DEF Heralds, Has
<1>7. Tidy(n)
  BY <1>4, <1>5, <1>6 DEF Tidy
<1>8. Tidy(line)
  BY <1>1, <1>3, <1>4, <1>7, TidyQuiet
<1>9. /\ card.plcip = [c \in Chan |-> Null] /\ card.plci_list = <<>>
      /\ card.nccip = [c \in Chan |-> Null] /\ card.told = [c \in Chan |-> "free"]
      /\ card.nbchan = NbChan
  BY <1>1 DEF NewCard
<1>10. Typed(now)
  <2>1. card.plcip \in [Chan -> Records \cup {Null}] /\ card.plci_list \in Seq(Chan)
        /\ card.nccip = [c \in Chan |-> card.nccip[c]] /\ DOMAIN card.told = Chan
        /\ \A c \in Chan : card.told[c] # "ringing"
    BY <1>9
  <2>. QED BY <1>2, <1>8, <2>1 DEF Typed, Sound, now
<1>. QED BY <1>1, <1>9, <1>10 DEF RemInv, Phase, OfferedCall

(* A step keeps FlowInv, and is one of IsdnChannels. *)
LEMMA NextFlow == DrvInv /\ RemInv /\ FlowInv /\ [Next]_vars => FlowInv' /\ Called
<1>. SUFFICES ASSUME DrvInv, RemInv, FlowInv, [Next]_vars PROVE FlowInv' /\ Called
  OBVIOUS
<1>0. DrvInv'
  BY NextInv
<1>1. CASE \E p \in DOMAIN line.up : capidrv_recv_message(p) \/ handle_incoming_call(p)
  <2>1. DOMAIN line.up = Plci \cup {0}
    BY DEF FlowInv, Plain, Queues, now
  <2>. QED BY <1>0, <1>1, <2>1, FlowRecv, FlowIncoming
<1>2. CASE icall_rejected \/ icall_taken \/ listentimerfunc
  BY <1>0, <1>2, FlowRejected, FlowTaken, FlowListen
<1>3. CASE \E c \in Chan : \/ capidrv_command_dial(c) \/ capidrv_command_acceptd(c)
                           \/ capidrv_command_hangup(c) \/ if_sendbuf(c)
  BY <1>0, <1>3, FlowDial, FlowAcceptd, FlowHangup, FlowSendBuf
<1>4. CASE \E p \in Plci : \/ Ring(p) \/ Answered(p) \/ Ends(p, Outgoing \cup Incoming)
                           \/ RingB3(p) \/ ActiveB3(p) \/ EndsB3(p, {"in", "alloc", "act"})
                           \/ Clears(p) \/ Confirms(p) \/ Receives(p)
  BY <1>0, <1>4, FlowDevice
<1>5. CASE \/ unregister_capi_device \/ capidrv_delcontr \/ capidrv_delcontr_disch
           \/ capidrv_delcontr_free \/ capidrv_delcontr_next \/ capidrv_delcontr_unlist
           \/ capidrv_addcontr
  BY <1>5, FlowUnregister, FlowDelcontr, FlowDisch, FlowFree, FlowNext, FlowAdd
<1>6. CASE UNCHANGED vars
  BY <1>0, <1>6, FlowSame DEF vars
<1>. QED BY <1>1, <1>2, <1>3, <1>4, <1>5, <1>6 DEF Next, CallNext

(* The invariant of a controller that may leave, and return.               *)
THEOREM FlowInvariant == Spec => [](DrvInv /\ RemInv /\ FlowInv)
<1>1. DrvInv /\ RemInv /\ FlowInv /\ [Next]_vars => (DrvInv /\ RemInv /\ FlowInv)'
  BY NextInv, NextRem, NextFlow
<1>2. Init => FlowInv
  BY InitFlow
<1>. QED BY <1>1, <1>2, InitInv, InitRem, PTL DEF Spec

(* The invariant of a controller that listens and stays.                   *)
THEOREM CallFlowInvariant == CallSpec => [](DrvInv /\ RemInv /\ FlowInv)
<1>1. DrvInv /\ RemInv /\ FlowInv /\ [CallNext]_vars => (DrvInv /\ RemInv /\ FlowInv)'
  BY NextInv, NextRem, NextFlow DEF Next
<1>2. CallInit => FlowInv
  BY CallInitFlow
<1>. QED BY <1>1, <1>2, CallInitInv, CallInitRem, PTL DEF CallSpec

-------------------------------------------------------------------------------
LEMMA CalledNext == Called => [Channels!Next]_<<card.told, pc \in {"up", "unregistered"}>>
  BY DEF Called

(* isdn4linux is told of a channel in an order it can follow: a call begins *)
(* before it is connected, connects before its B3 connection does, and ends *)
(* after that has, whatever order messages, commands and the removal come   *)
(* in, and whatever message is refused (capidrv.c, the calls of statcallb). *)
THEOREM CallbacksInOrder == Spec => CallbackOrder
<1>1. DrvInv /\ RemInv /\ FlowInv /\ [Next]_vars =>
        [Channels!Next]_<<card.told, pc \in {"up", "unregistered"}>>
  BY NextFlow, CalledNext
<1>2. Init => Channels!Init
  BY InitFlow
<1>. QED BY <1>1, <1>2, FlowInvariant, PTL DEF Spec, CallbackOrder, Channels!Spec

(* The same of a controller that listens and stays.                         *)
THEOREM CallsInOrder == CallSpec => CallbackOrder
<1>1. DrvInv /\ RemInv /\ FlowInv /\ [CallNext]_vars =>
        [Channels!Next]_<<card.told, pc \in {"up", "unregistered"}>>
  BY NextFlow, CalledNext DEF Next
<1>2. CallInit => Channels!Init
  BY CallInitFlow
<1>. QED BY <1>1, <1>2, CallFlowInvariant, PTL DEF CallSpec, CallbackOrder, Channels!Spec

-------------------------------------------------------------------------------
(* The handles that an NCCI keeps are those of the blocks that the device  *)
(* has not confirmed and of the confirmations that are on their way.       *)
LEMMA LedgerExact ==
  ASSUME NEW h, NEW A, NEW q, NEW D, Ledger(h, A, q, D), NEW x
  PROVE  (\E i \in Entries(A) : A[i] = x) <=>
           \/ \E i \in Entries(D) : D[i] = x
           \/ \E i \in Entries(q) : Confirmation(q[i]) /\ q[i].id = x
<1>1. /\ h \in DataHandles /\ A \in Seq(DataHandles) /\ D \in Seq(DataHandles)
      /\ Len(A) \in Nat /\ Len(D) \in Nat /\ Len(D) <= Len(A)
      /\ \A i \in Entries(A) : A[i] \in DataHandles /\ Age(h, A[i]) = Len(A) + 1 - i
      /\ \A i \in Entries(D) : D[i] \in DataHandles /\ Age(h, D[i]) = Len(D) + 1 - i
  BY DEF Ledger, Aged, Entries
<1>2. Confirming(h, Len(D), Len(A), q)
  BY DEF Ledger
<1>3. \A y, z \in DataHandles : Age(h, y) = Age(h, z) => y = z
  BY <1>1, AgeOne
<1>4. ASSUME NEW y \in DataHandles, Age(h, y) \in 1 .. Len(A)
      PROVE  \E i \in Entries(A) : A[i] = y
  <2>1. PICK i : i = Len(A) + 1 - Age(h, y)
    OBVIOUS
  <2>2. i \in Entries(A) /\ Len(A) + 1 - i = Age(h, y)
    BY <1>1, <1>4, <2>1 DEF Entries
  <2>3. A[i] = y
    BY <1>1, <1>3, <1>4, <2>2
  <2>. QED BY <2>2, <2>3
<1>5. ASSUME NEW i \in Entries(A), A[i] = x
      PROVE  \/ \E j \in Entries(D) : D[j] = x
             \/ \E j \in Entries(q) : Confirmation(q[j]) /\ q[j].id = x
  <2>1. x \in DataHandles /\ Age(h, x) = Len(A) + 1 - i /\ i \in 1 .. Len(A)
    BY <1>1, <1>5 DEF Entries
  <2>2. CASE Age(h, x) > Len(D)
    <3>1. Age(h, x) \in Len(D) + 1 .. Len(A)
      BY <1>1, <2>1, <2>2
    <3>2. PICK j \in Entries(q) : Confirmation(q[j]) /\ Age(h, q[j].id) = Age(h, x)
      BY <1>2, <3>1 DEF Confirming
    <3>3. q[j].id \in DataHandles
      BY <1>2, <3>2 DEF Confirming
    <3>. QED BY <1>3, <2>1, <3>2, <3>3
  <2>3. CASE ~(Age(h, x) > Len(D))
    <3>1. PICK j : j = Len(D) + 1 - Age(h, x)
      OBVIOUS
    <3>2. j \in Entries(D) /\ Len(D) + 1 - j = Age(h, x)
      BY <1>1, <2>1, <2>3, <3>1 DEF Entries
    <3>3. D[j] = x
      BY <1>1, <1>3, <2>1, <3>2
    <3>. QED BY <3>2, <3>3
  <2>. QED BY <2>2, <2>3
<1>6. ASSUME NEW j \in Entries(D), D[j] = x
      PROVE  \E i \in Entries(A) : A[i] = x
  <2>1. x \in DataHandles /\ Age(h, x) = Len(D) + 1 - j
    BY <1>1, <1>6
  <2>2. Age(h, x) \in 1 .. Len(A)
    BY <1>1, <2>1 DEF Entries
  <2>. QED BY <1>4, <2>1, <2>2
<1>7. ASSUME NEW j \in Entries(q), Confirmation(q[j]), q[j].id = x
      PROVE  \E i \in Entries(A) : A[i] = x
  <2>1. x \in DataHandles /\ Age(h, x) \in Len(D) + 1 .. Len(A)
    BY <1>2, <1>7 DEF Confirming
  <2>2. Age(h, x) \in 1 .. Len(A)
    BY <1>1, <2>1
  <2>. QED BY <1>4, <2>1, <2>2
<1>. QED BY <1>5, <1>6, <1>7

LEMMA InvAcksExact == FlowInv => AcksExact
<1>. SUFFICES ASSUME FlowInv, pc = "up", NEW c \in Chan,
                     card.nccip[c] # Null, card.nccip[c].live, card.nccip[c].ncci # 0
              PROVE  LET n == card.nccip[c]
                     IN {n.acks[i] : i \in DOMAIN n.acks} =
                        InFlight(n.ncci) \cup {line.data[n.ncci][i] : i \in DOMAIN line.data[n.ncci]}
  BY DEF AcksExact
<1>1. PICK x, n, t, p, q, D : /\ x = card.plcip[c] /\ n = card.nccip[c] /\ t = card.told[c]
                              /\ p = n.ncci /\ q = line.up[p] /\ D = line.data[p]
  OBVIOUS
<1>2. Connection(x, n, t, line) /\ Lanes(line)
  BY <1>1 DEF FlowInv, Running, Regular, Link, now
<1>3. Numbered(x, n, line)
  BY <1>1, <1>2 DEF Connection, Carries, Unnumbered
<1>4. Ledger(n.handle, n.acks, q, D) /\ p \in Plci
  BY <1>1, <1>3 DEF Numbered
<1>5. PICK h, A : h = n.handle /\ A = n.acks
  OBVIOUS
<1>6. Ledger(h, A, q, D)
  BY <1>4, <1>5
<1>7. DOMAIN A = Entries(A) /\ DOMAIN D = Entries(D)
  BY <1>6 DEF Ledger, Aged, Entries
<1>8. DOMAIN q = Entries(q)
  <2>1. IsSeq(q)
    BY <1>1, <1>4 DEF FlowInv, Plain, Queues, now
  <2>. QED BY <2>1 DEF IsSeq, Entries
<1>9. \A z : (\E i \in Entries(A) : A[i] = z) <=>
               \/ \E i \in Entries(D) : D[i] = z
               \/ \E i \in Entries(q) : Confirmation(q[i]) /\ q[i].id = z
  BY <1>6, LedgerExact
<1>10. InFlight(p) = {q[i].id : i \in {i \in DOMAIN q : q[i].cmd = "DATA_B3_CONF"}}
  BY <1>1 DEF InFlight
<1>11. {A[i] : i \in DOMAIN A} =
       {q[i].id : i \in {i \in DOMAIN q : q[i].cmd = "DATA_B3_CONF"}} \cup {D[i] : i \in DOMAIN D}
  BY <1>7, <1>8, <1>9 DEF Confirmation
<1>12. A = card.nccip[c].acks /\ D = line.data[card.nccip[c].ncci] /\ p = card.nccip[c].ncci
  BY <1>1, <1>5
<1>13. {A[i] : i \in DOMAIN A} = InFlight(p) \cup {D[i] : i \in DOMAIN D}
  BY <1>10, <1>11
<1>14. PICK B, E, r : B = card.nccip[c].acks /\ E = line.data[card.nccip[c].ncci] /\ r = card.nccip[c].ncci
  OBVIOUS
<1>15. A = B /\ D = E /\ p = r
  BY <1>12, <1>14
<1>16. {B[i] : i \in DOMAIN B} = InFlight(r) \cup {E[i] : i \in DOMAIN E}
  BY <1>13, <1>15
<1>. QED BY <1>14, <1>16, Zenon

(* The ackqueue of a live NCCI holds the handles of the blocks that the     *)
(* device has not confirmed, or whose DATA_B3_CONF is not handled yet, and  *)
(* no other (if_sendbuf, handle_data_b3_conf): a confirmation always finds  *)
(* its block, and the window holds no block that needs none any more.       *)
THEOREM HandlesMatchBlocks == Spec => []AcksExact
<1>. QED BY FlowInvariant, InvAcksExact, PTL

(* The same of a controller that listens and stays.                         *)
THEOREM CallHandlesMatch == CallSpec => []AcksExact
<1>. QED BY CallFlowInvariant, InvAcksExact, PTL
===============================================================================
