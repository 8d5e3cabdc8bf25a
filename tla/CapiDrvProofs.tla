----------------------------- MODULE CapiDrvProofs -----------------------------
(***************************************************************************)
(* That the structures of the calls, the channels and the connections of   *)
(* the device agree, for any number of channels, connections and message   *)
(* numbers, and whatever fails, is refused or is lost; and that the        *)
(* removal of the controller leaves none of them behind.                   *)
(***************************************************************************)
EXTENDS CapiDrv, ListLemmas

-------------------------------------------------------------------------------
(* The inductive invariant. *)

(* The structures of the calls.  OUTGOING is the only state of a structure *)
(* without a connection.                                                   *)
CallStates == PlciStates \ {"NONE"}
Plcis == [plci : Plci \cup {0}, msgid : Msgids \cup {0}, state : CallStates]

IsCard(k) ==
  /\ k = [plcip |-> k.plcip, plci_list |-> k.plci_list, nccip |-> k.nccip,
          incoming |-> k.incoming, disconnecting |-> k.disconnecting,
          nbchan |-> k.nbchan, state |-> k.state, told |-> k.told]
  /\ k.nbchan \in 0 .. NbChan

(* P, L, I and T stand for plcip, plci_list, incoming and told.            *)
Structures(P, L, I, T) ==
  /\ P \in [Chan -> Plcis \cup {Null}]
  /\ L \in Seq(Chan) /\ Distinct(L)
  /\ \A c \in Chan : P[c] # Null <=> \E i \in 1 .. Len(L) : L[i] = c
  /\ \A c \in Chan : P[c] # Null => (P[c].plci = 0 <=> P[c].state = "OUTGOING")
  /\ I \subseteq Chan
  /\ \A c \in I : P[c] # Null /\ P[c].plci # 0
  /\ DOMAIN T = Chan
  /\ \A c \in Chan : T[c] = "ringing" => c \in I

(* The messages that begin and end a call.                                 *)
Begins(m) == m.cmd \in {"CONNECT_IND", "CONNECT_CONF"}
Finishes(m) == m.cmd = "DISCONNECT_IND"
Commands ==
  {"LISTEN_CONF", "CONNECT_IND", "CONNECT_CONF", "CONNECT_ACTIVE_IND", "DISCONNECT_IND",
   "DISCONNECT_CONF", "CONNECT_B3_IND", "CONNECT_B3_CONF", "CONNECT_B3_ACTIVE_IND",
   "DISCONNECT_B3_IND", "DISCONNECT_B3_CONF", "DATA_B3_CONF", "DATA_B3_IND"}

IsLine(l) ==
  l = [d |-> l.d, b |-> l.b, data |-> l.data, up |-> l.up,
       listening |-> l.listening, lost |-> l.lost]

DStates == Outgoing \cup Incoming \cup {"idle", "clear", "gone"}
IsSeq(q) == q \in Seq({q[i] : i \in DOMAIN q})
Entries(q) == 1 .. Len(q)
HasBegin(q) == \E i \in Entries(q) : Begins(q[i])
HasEnd(q) == \E i \in Entries(q) : Finishes(q[i])

(* The queue q of a connection in the state d.                             *)
Queue(q, d) ==
  /\ IsSeq(q)
  /\ \A i \in Entries(q) : q[i].cmd \in Commands /\ (q[i].cmd = "CONNECT_CONF" => q[i].ok)
  /\ \A i, j \in Entries(q) : i < j => /\ ~(Begins(q[i]) /\ Begins(q[j]))
                                       /\ ~(Finishes(q[i]) /\ Finishes(q[j]))
                                       /\ ~(Finishes(q[i]) /\ Begins(q[j]))
  /\ HasEnd(q) => d = "gone"
  /\ HasBegin(q) => d # "idle" /\ (d = "gone" => HasEnd(q))
  /\ \A i \in Entries(q) : /\ q[i].cmd = "CONNECT_IND" => d \notin Outgoing
                           /\ q[i].cmd = "CONNECT_CONF" => d \notin Incoming

Lines(D, U) ==
  /\ D \in [Plci -> DStates]
  /\ U = [p \in Plci \cup {0} |-> U[p]]
  /\ \A p \in Plci : Queue(U[p], D[p])
  /\ IsSeq(U[0])
  /\ \A i \in Entries(U[0]) : /\ U[0][i].cmd \in {"LISTEN_CONF", "CONNECT_CONF"}
                              /\ U[0][i].cmd = "CONNECT_CONF" => ~U[0][i].ok

(* The confirmations on their way, and the structure that waits for one.   *)
Place(U, p, i, id) ==
  p \in DOMAIN U /\ i \in Entries(U[p]) /\ U[p][i].cmd = "CONNECT_CONF" /\ U[p][i].id = id
Pending(U, id) == \E p, i : Place(U, p, i, id)
UniqueIds(U) ==
  \A id, p, i, q, j : Place(U, p, i, id) /\ Place(U, q, j, id) => p = q /\ i = j

Waits(P, L, id) ==
  \E n \in 1 .. Len(L) : /\ P[L[n]].msgid = id /\ P[L[n]].state = "OUTGOING"
                         /\ \A j \in 1 .. n - 1 : P[L[j]].msgid # id
Awaited(P, L, U) == \A id : Pending(U, id) => id \in Msgids /\ Waits(P, L, id)

(* The connections and the structures that have their numbers.             *)
Owns(P, c, p) == c \in Chan /\ p \in Plci /\ P[c] # Null /\ P[c].plci = p
Owners(P, I, D, U) ==
  \A c \in Chan, p \in Plci : Owns(P, c, p) =>
    /\ D[p] # "idle" /\ (D[p] = "gone" => HasEnd(U[p])) /\ ~HasBegin(U[p])
    /\ D[p] \in Outgoing => c \notin I
    /\ D[p] \in Incoming => c \in I
    /\ \A x \in Chan : Owns(P, x, p) => x = c

Agree(P, L, I, T, D, U) ==
  /\ Structures(P, L, I, T) /\ Lines(D, U)
  /\ UniqueIds(U) /\ Awaited(P, L, U) /\ Owners(P, I, D, U)

-------------------------------------------------------------------------------
(* Lists *)

(* Every entry of M is one of L, behind no other than in L. *)
Behind(M, L) ==
  \A m \in 1 .. Len(M) : \E n \in 1 .. Len(L) :
    M[m] = L[n] /\ \A j \in 1 .. m - 1 : \E k \in 1 .. n - 1 : M[j] = L[k]

(* M is the list L without c. *)
Removal(L, c, M) ==
  /\ Distinct(M) /\ Behind(M, L)
  /\ \A y : (\E i \in 1 .. Len(M) : M[i] = y) <=> (\E i \in 1 .. Len(L) : L[i] = y) /\ y # c

LEMMA WithoutOne ==
  ASSUME NEW S, NEW L \in Seq(S), Distinct(L), NEW c, NEW M, M = Without(L, {c})
  PROVE  M \in Seq(S) /\ Removal(L, c, M)
<1>1. M \in Seq(S) /\ Len(M) \in Nat /\ Len(L) \in Nat /\ ToSet(M) = ToSet(L) \ {c}
  BY WithoutEntries
<1>2. \E place \in [1 .. Len(M) -> 1 .. Len(L)] :
        /\ \A j \in 1 .. Len(M) : M[j] = L[place[j]]
        /\ \A j, k \in 1 .. Len(M) : j <= k => place[j] + (k - j) <= place[k]
  <2> DEFINE N == Without(L, {c})
  <2>1. \E place \in [1 .. Len(N) -> 1 .. Len(L)] :
          /\ \A j \in 1 .. Len(N) : N[j] = L[place[j]]
          /\ \A j, k \in 1 .. Len(N) : j <= k => place[j] + (k - j) <= place[k]
    BY WithoutEntries
  <2>2. M = N
    OBVIOUS
  <2>. HIDE DEF N
  <2>. QED BY <2>1, <2>2
<1>3. PICK place : /\ place \in [1 .. Len(M) -> 1 .. Len(L)]
                   /\ \A j \in 1 .. Len(M) : M[j] = L[place[j]]
                   /\ \A j, k \in 1 .. Len(M) : j <= k => place[j] + (k - j) <= place[k]
  BY <1>2
<1>4. ASSUME NEW j \in 1 .. Len(M), NEW k \in 1 .. Len(M), j < k
      PROVE  place[j] \in 1 .. place[k] - 1
  <2>1. PICK a, b : a = place[j] /\ b = place[k] /\ a \in 1 .. Len(L) /\ b \in 1 .. Len(L)
    BY <1>3
  <2>2. j \in Nat /\ k \in Nat /\ j <= k /\ a \in Nat /\ b \in Nat
    BY <1>1, <1>4, <2>1
  <2>3. a + (k - j) <= b
    BY <1>3, <2>1, <2>2
  <2>4. a \in 1 .. b - 1
    BY <1>4, <2>1, <2>2, <2>3
  <2>. QED BY <2>1, <2>4
<1>5. Distinct(M)
  <2>1. ASSUME NEW j \in 1 .. Len(M), NEW k \in 1 .. Len(M), j < k, M[j] = M[k] PROVE FALSE
    <3>1. PICK a, b : a = place[j] /\ b = place[k] /\ a \in 1 .. Len(L) /\ b \in 1 .. Len(L)
      BY <1>3
    <3>2. L[a] = L[b]
      BY <1>3, <2>1, <3>1
    <3>3. a = b
      BY <3>1, <3>2 DEF Distinct
    <3>4. a \in 1 .. b - 1
      BY <1>4, <2>1, <3>1
    <3>. QED BY <1>1, <3>1, <3>3, <3>4
  <2>2. \A j, k \in 1 .. Len(M) : j < k \/ k < j \/ j = k
    BY <1>1
  <2>. QED BY <2>1, <2>2 DEF Distinct
<1>6. Behind(M, L)
  <2>1. ASSUME NEW m \in 1 .. Len(M)
        PROVE  \E n \in 1 .. Len(L) :
                 M[m] = L[n] /\ \A j \in 1 .. m - 1 : \E k \in 1 .. n - 1 : M[j] = L[k]
    <3>1. PICK n : n = place[m] /\ n \in 1 .. Len(L)
      BY <1>3
    <3>2. ASSUME NEW j \in 1 .. m - 1 PROVE \E k \in 1 .. n - 1 : M[j] = L[k]
      <4>1. j \in 1 .. Len(M) /\ j < m
        BY <1>1
      <4>2. place[j] \in 1 .. n - 1
        BY <1>4, <3>1, <4>1
      <4>. QED BY <1>3, <4>1, <4>2
    <3>. QED BY <1>3, <3>1, <3>2
  <2>. QED BY <2>1 DEF Behind
<1>7. \A s \in Seq(S) : \A y : y \in ToSet(s) <=> \E i \in 1 .. Len(s) : s[i] = y
  BY DEF ToSet
<1>. QED BY <1>1, <1>5, <1>6, <1>7 DEF Removal

-------------------------------------------------------------------------------
(* Queues *)

LEMMA SeqIsSeq ==
  ASSUME NEW S, NEW r \in Seq(S)
  PROVE  IsSeq(r)
<1>1. PICK R : R = {r[i] : i \in DOMAIN r}
  OBVIOUS
<1>2. Len(r) \in Nat /\ DOMAIN r = 1 .. Len(r) /\ r = [i \in 1 .. Len(r) |-> r[i]]
  OBVIOUS
<1>3. \A i \in 1 .. Len(r) : r[i] \in R
  BY <1>1, <1>2
<1>4. [i \in 1 .. Len(r) |-> r[i]] \in Seq(R)
  BY <1>2, <1>3
<1>5. r \in Seq(R)
  BY <1>2, <1>4
<1>. QED BY <1>1, <1>5 DEF IsSeq

(* r is q with m behind it. *)
Longer(q, m, r) ==
  /\ IsSeq(r) /\ Len(q) \in Nat /\ Len(r) = Len(q) + 1 /\ r[Len(q) + 1] = m
  /\ \A i \in Entries(q) : i \in Entries(r) /\ r[i] = q[i]
  /\ \A i \in Entries(r) : i \in Entries(q) \/ i = Len(q) + 1

(* r is q without the first message m. *)
Shorter(q, m, r) ==
  /\ IsSeq(r) /\ Len(q) \in Nat /\ Len(r) = Len(q) - 1 /\ Len(q) # 0
  /\ m = q[1] /\ 1 \in Entries(q)
  /\ \A i \in Entries(r) : i + 1 \in Entries(q) /\ r[i] = q[i + 1]
  /\ \A i \in Entries(q) : i = 1 \/ (i - 1 \in Entries(r) /\ r[i - 1] = q[i])

LEMMA QueueAppend ==
  ASSUME NEW q, IsSeq(q), NEW m, NEW r, r = Append(q, m)
  PROVE  Longer(q, m, r)
<1>1. PICK S : S = {q[i] : i \in DOMAIN q} \cup {m}
  OBVIOUS
<1>2. {q[i] : i \in DOMAIN q} \subseteq S /\ m \in S
  BY <1>1
<1>3. q \in Seq(S)
  BY <1>2, SeqMonotonic DEF IsSeq
<1>4. /\ r \in Seq(S) /\ Len(q) \in Nat /\ Len(r) = Len(q) + 1 /\ r[Len(q) + 1] = m
      /\ \A i \in 1 .. Len(q) : r[i] = q[i]
  BY <1>2, <1>3, AppendProperties
<1>5. IsSeq(r)
  BY <1>4, SeqIsSeq
<1>. QED BY <1>4, <1>5 DEF Entries, Longer

LEMMA QueueTail ==
  ASSUME NEW q, IsSeq(q), q # <<>>, NEW r, r = Tail(q), NEW m, m = Head(q)
  PROVE  Shorter(q, m, r)
<1>1. PICK S : S = {q[i] : i \in DOMAIN q}
  OBVIOUS
<1>2. q \in Seq(S)
  BY <1>1 DEF IsSeq
<1>3. /\ r \in Seq(S) /\ Len(q) \in Nat /\ Len(r) = Len(q) - 1 /\ Len(q) # 0 /\ Head(q) = q[1]
      /\ \A i \in 1 .. Len(r) : r[i] = q[i + 1]
  BY <1>2, HeadTailProperties
<1>4. IsSeq(r)
  BY <1>3, SeqIsSeq
<1>5. PICK n \in Nat : n = Len(q) /\ Len(r) = n - 1
  BY <1>3
<1>6. \A i \in Entries(q) : i = 1 \/ (i - 1 \in Entries(r) /\ r[i - 1] = q[i])
  <2>1. ASSUME NEW i \in Entries(q), i # 1 PROVE i - 1 \in Entries(r) /\ r[i - 1] = q[i]
    <3>1. i - 1 \in 1 .. Len(r) /\ (i - 1) + 1 = i
      BY <1>5, <2>1 DEF Entries
    <3>. QED BY <1>3, <3>1 DEF Entries
  <2>. QED BY <2>1
<1>7. \A i \in Entries(r) : i + 1 \in Entries(q)
  BY <1>5 DEF Entries
<1>. QED BY <1>3, <1>4, <1>5, <1>6, <1>7 DEF Entries, Shorter

LEMMA MarksAppend ==
  ASSUME NEW q, NEW m, NEW r, Longer(q, m, r)
  PROVE  /\ HasBegin(r) <=> HasBegin(q) \/ Begins(m)
         /\ HasEnd(r) <=> HasEnd(q) \/ Finishes(m)
<1>1. Len(q) + 1 \in Entries(r)
  BY DEF Longer, Entries
<1>. QED BY <1>1 DEF Longer, HasBegin, HasEnd

LEMMA MarksTail ==
  ASSUME NEW q, NEW m, NEW r, Shorter(q, m, r)
  PROVE  /\ HasBegin(q) <=> HasBegin(r) \/ Begins(m)
         /\ HasEnd(q) <=> HasEnd(r) \/ Finishes(m)
<1>. QED BY DEF Shorter, HasBegin, HasEnd

(* What the messages that are neither the first nor the last of a call do. *)
Neutral(m) == m.cmd \in Commands /\ ~Begins(m) /\ ~Finishes(m)

LEMMA QueueGrows ==
  ASSUME NEW q, NEW d, Queue(q, d), NEW m, Neutral(m), NEW r, r = Append(q, m)
  PROVE  Queue(r, d) /\ (HasBegin(r) <=> HasBegin(q)) /\ (HasEnd(r) <=> HasEnd(q))
<1>0. IsSeq(q)
  BY DEF Queue
<1>1. Longer(q, m, r)
  BY <1>0, QueueAppend
<1>2. (HasBegin(r) <=> HasBegin(q)) /\ (HasEnd(r) <=> HasEnd(q))
  BY <1>1, MarksAppend DEF Neutral
<1>3. m.cmd \in Commands /\ m.cmd \notin {"CONNECT_IND", "CONNECT_CONF"}
  BY DEF Neutral, Begins
<1>4. \A i \in Entries(r) : /\ r[i].cmd \in Commands
                            /\ r[i].cmd = "CONNECT_CONF" => r[i].ok
                            /\ r[i].cmd = "CONNECT_IND" => d \notin Outgoing
                            /\ r[i].cmd = "CONNECT_CONF" => d \notin Incoming
  BY <1>1, <1>3 DEF Queue, Longer
<1>5. \A i, j \in Entries(r) : i < j => /\ ~(Begins(r[i]) /\ Begins(r[j]))
                                        /\ ~(Finishes(r[i]) /\ Finishes(r[j]))
                                        /\ ~(Finishes(r[i]) /\ Begins(r[j]))
  <2>1. \A i \in Entries(r) : (i \in Entries(q) /\ r[i] = q[i]) \/ (i = Len(q) + 1 /\ r[i] = m)
    BY <1>1 DEF Longer
  <2>2. ~Begins(m) /\ ~Finishes(m)
    BY DEF Neutral
  <2>3. \A i, j \in Entries(q) : i < j => /\ ~(Begins(q[i]) /\ Begins(q[j]))
                                          /\ ~(Finishes(q[i]) /\ Finishes(q[j]))
                                          /\ ~(Finishes(q[i]) /\ Begins(q[j]))
    BY DEF Queue
  <2>. QED BY <2>1, <2>2, <2>3
<1>. QED BY <1>1, <1>2, <1>4, <1>5 DEF Queue, Longer

(* CONNECT_IND, and CONNECT_CONF of a connection, of a new call.           *)
LEMMA QueueBegins ==
  ASSUME NEW q, Queue(q, "idle"), NEW m, NEW e,
         (m.cmd = "CONNECT_IND" /\ e = "in") \/ (m.cmd = "CONNECT_CONF" /\ m.ok /\ e = "out"),
         NEW r, r = Append(q, m)
  PROVE  Queue(r, e) /\ ~HasBegin(q) /\ ~HasEnd(q)
<1>0. IsSeq(q) /\ ~HasBegin(q) /\ ~HasEnd(q)
  BY DEF Queue
<1>1. Longer(q, m, r)
  BY <1>0, QueueAppend
<1>2. Begins(m) /\ ~Finishes(m) /\ m.cmd \in Commands
  BY DEF Begins, Finishes, Commands
<1>3. HasBegin(r) /\ ~HasEnd(r)
  BY <1>0, <1>1, <1>2, MarksAppend
<1>4. \A i \in Entries(q) : ~Begins(q[i]) /\ ~Finishes(q[i])
  BY <1>0 DEF HasBegin, HasEnd
<1>5. \A i, j \in Entries(r) : i < j => /\ ~(Begins(r[i]) /\ Begins(r[j]))
                                        /\ ~(Finishes(r[i]) /\ Finishes(r[j]))
                                        /\ ~(Finishes(r[i]) /\ Begins(r[j]))
  <2>1. ASSUME NEW i \in Entries(r), NEW j \in Entries(r), i < j
        PROVE  ~Begins(r[i]) /\ ~Finishes(r[i])
    <3>1. i \in Entries(q)
      BY <1>1, <2>1 DEF Entries, Longer
    <3>. QED BY <1>1, <1>4, <3>1 DEF Longer
  <2>. QED BY <2>1
<1>6. \A i \in Entries(r) : /\ r[i].cmd \in Commands
                            /\ r[i].cmd = "CONNECT_CONF" => r[i].ok
                            /\ r[i].cmd = "CONNECT_IND" => e \notin Outgoing
                            /\ r[i].cmd = "CONNECT_CONF" => e \notin Incoming
  <2>1. ASSUME NEW i \in Entries(q)
        PROVE  r[i].cmd \in Commands /\ r[i].cmd \notin {"CONNECT_IND", "CONNECT_CONF"}
    BY <1>1, <1>4, <2>1 DEF Queue, Begins, Longer
  <2>. QED BY <1>1, <1>2, <2>1 DEF Outgoing, Incoming, Longer
<1>7. e # "gone" /\ e # "idle"
  OBVIOUS
<1>. QED BY <1>0, <1>1, <1>3, <1>5, <1>6, <1>7 DEF Queue, Longer

(* DISCONNECT_IND is sent once.                                            *)
LEMMA QueueEnds ==
  ASSUME NEW q, NEW d, Queue(q, d), d # "gone", NEW m, m.cmd = "DISCONNECT_IND",
         NEW r, r = Append(q, m)
  PROVE  Queue(r, "gone") /\ HasEnd(r) /\ (HasBegin(r) <=> HasBegin(q))
<1>0. IsSeq(q) /\ ~HasEnd(q)
  BY DEF Queue
<1>1. Longer(q, m, r)
  BY <1>0, QueueAppend
<1>2. ~Begins(m) /\ Finishes(m) /\ m.cmd \in Commands
  BY DEF Begins, Finishes, Commands
<1>3. HasEnd(r) /\ (HasBegin(r) <=> HasBegin(q))
  BY <1>1, <1>2, MarksAppend
<1>4. \A i \in Entries(q) : ~Finishes(q[i])
  BY <1>0 DEF HasEnd
<1>5. \A i, j \in Entries(r) : i < j => /\ ~(Begins(r[i]) /\ Begins(r[j]))
                                        /\ ~(Finishes(r[i]) /\ Finishes(r[j]))
                                        /\ ~(Finishes(r[i]) /\ Begins(r[j]))
  <2>1. ASSUME NEW i \in Entries(r), NEW j \in Entries(r), i < j
        PROVE  /\ ~Finishes(r[i]) /\ ~(Begins(r[i]) /\ Begins(r[j]))
    <3>1. i \in Entries(q) /\ r[i] = q[i]
      BY <1>1, <2>1 DEF Entries, Longer
    <3>2. CASE j = Len(q) + 1
      BY <1>1, <1>2, <1>4, <3>1, <3>2 DEF Longer
    <3>3. CASE j \in Entries(q)
      BY <1>1, <1>4, <2>1, <3>1, <3>3 DEF Queue, Longer
    <3>. QED BY <1>1, <3>2, <3>3 DEF Longer
  <2>. QED BY <2>1
<1>6. \A i \in Entries(r) : /\ r[i].cmd \in Commands
                            /\ r[i].cmd = "CONNECT_CONF" => r[i].ok
  <2>1. \A i \in Entries(q) : r[i].cmd \in Commands /\ (r[i].cmd = "CONNECT_CONF" => r[i].ok)
    BY <1>1 DEF Queue, Longer
  <2>. QED BY <1>1, <1>2, <2>1 DEF Longer
<1>7. "gone" # "idle" /\ "gone" \notin Outgoing /\ "gone" \notin Incoming
  BY DEF Outgoing, Incoming
<1>. QED BY <1>1, <1>3, <1>5, <1>6, <1>7 DEF Queue, Longer

(* The connection changes under messages that wait.                        *)
Moves(d, e) ==
  /\ d \in Outgoing \cup Incoming
  /\ e = "clear" \/ (d \in Outgoing /\ e \in Outgoing) \/ (d \in Incoming /\ e \in Incoming)

LEMMA QueueMoves ==
  ASSUME NEW q, NEW d, NEW e, Queue(q, d), Moves(d, e)
  PROVE  Queue(q, e) /\ e \in DStates
<1>1. /\ d # "gone" /\ e # "gone" /\ e # "idle" /\ e \in DStates
      /\ d \notin Outgoing => e \notin Outgoing
      /\ d \notin Incoming => e \notin Incoming
  BY DEF Moves, DStates, Outgoing, Incoming
<1>. QED BY <1>1 DEF Queue

LEMMA QueueReset ==
  ASSUME NEW q, NEW d, Queue(q, d), ~HasBegin(q), ~HasEnd(q)
  PROVE  Queue(q, "idle")
<1>1. "idle" \notin Outgoing /\ "idle" \notin Incoming
  BY DEF Outgoing, Incoming
<1>. QED BY <1>1 DEF Queue

(* r is what the queue q of a connection in the state d is without m.      *)
Took(q, d, r, m) ==
  /\ Queue(r, d)
  /\ HasBegin(q) <=> HasBegin(r) \/ Begins(m)
  /\ HasEnd(q) <=> HasEnd(r) \/ Finishes(m)
  /\ m.cmd \in Commands
  /\ Finishes(m) => ~HasBegin(r) /\ ~HasEnd(r) /\ d = "gone"
  /\ Begins(m) => /\ ~HasBegin(r) /\ d # "idle" /\ (d = "gone" => HasEnd(r))
                  /\ m.cmd = "CONNECT_IND" => d \notin Outgoing
                  /\ m.cmd = "CONNECT_CONF" => m.ok /\ d \notin Incoming

LEMMA QueueTaken ==
  ASSUME NEW q, NEW d, Queue(q, d), q # <<>>, NEW r, r = Tail(q), NEW m, m = Head(q)
  PROVE  Took(q, d, r, m)
<1>0. IsSeq(q)
  BY DEF Queue
<1>1. Shorter(q, m, r)
  BY <1>0, QueueTail
<1>2. /\ HasBegin(q) <=> HasBegin(r) \/ Begins(m)
      /\ HasEnd(q) <=> HasEnd(r) \/ Finishes(m)
  BY <1>1, MarksTail
<1>3. \A i \in Entries(r) : /\ r[i].cmd \in Commands
                            /\ r[i].cmd = "CONNECT_CONF" => r[i].ok
                            /\ r[i].cmd = "CONNECT_IND" => d \notin Outgoing
                            /\ r[i].cmd = "CONNECT_CONF" => d \notin Incoming
  <2>1. \A j \in Entries(q) : /\ q[j].cmd \in Commands
                              /\ q[j].cmd = "CONNECT_CONF" => q[j].ok
                              /\ q[j].cmd = "CONNECT_IND" => d \notin Outgoing
                              /\ q[j].cmd = "CONNECT_CONF" => d \notin Incoming
    BY DEF Queue
  <2>2. \A i \in Entries(r) : i + 1 \in Entries(q) /\ r[i] = q[i + 1]
    BY <1>1 DEF Shorter
  <2>. QED BY <2>1, <2>2
<1>4. \A i, j \in Entries(r) : i < j => /\ ~(Begins(r[i]) /\ Begins(r[j]))
                                        /\ ~(Finishes(r[i]) /\ Finishes(r[j]))
                                        /\ ~(Finishes(r[i]) /\ Begins(r[j]))
  <2>1. ASSUME NEW i \in Entries(r), NEW j \in Entries(r), i < j
        PROVE  i + 1 < j + 1
    BY <2>1 DEF Entries
  <2>. QED BY <1>1, <2>1 DEF Queue, Shorter
<1>5. /\ m.cmd \in Commands
      /\ m.cmd = "CONNECT_IND" => d \notin Outgoing
      /\ m.cmd = "CONNECT_CONF" => m.ok /\ d \notin Incoming
  BY <1>1 DEF Queue, Shorter
<1>6. \A i \in Entries(r) : /\ Begins(m) => ~Begins(r[i])
                            /\ Finishes(m) => ~Begins(r[i]) /\ ~Finishes(r[i])
  <2>1. \A i \in Entries(r) : 1 < i + 1
    BY DEF Entries
  <2>. QED BY <1>1, <2>1 DEF Queue, Shorter
<1>7. /\ Begins(m) => ~HasBegin(r)
      /\ Finishes(m) => ~HasBegin(r) /\ ~HasEnd(r)
  BY <1>6 DEF HasBegin, HasEnd
<1>8. ~(Begins(m) /\ Finishes(m))
  BY DEF Begins, Finishes
<1>9. HasBegin(r) => d # "idle" /\ (d = "gone" => HasEnd(r))
  BY <1>2, <1>7 DEF Queue
<1>10. /\ HasEnd(r) => d = "gone"
       /\ Finishes(m) => d = "gone"
       /\ Begins(m) => d # "idle" /\ (d = "gone" => HasEnd(r))
  BY <1>2, <1>8 DEF Queue
<1>11. Queue(r, d)
  BY <1>1, <1>3, <1>4, <1>9, <1>10 DEF Queue, Shorter
<1>. QED BY <1>2, <1>5, <1>7, <1>10, <1>11 DEF Took


(* The confirmations after a message has been sent, or taken.              *)
Follows(P, L, U, V) ==
  /\ UniqueIds(V)
  /\ \A id : Pending(V, id) => Pending(U, id) \/ (id \in Msgids /\ Waits(P, L, id))

LEMMA PlacesAppend ==
  ASSUME NEW P, NEW L, NEW U, NEW p \in DOMAIN U, NEW m, NEW r, Longer(U[p], m, r),
         NEW V, V = [U EXCEPT ![p] = r], UniqueIds(U),
         m.cmd = "CONNECT_CONF" => m.id \in Msgids /\ Waits(P, L, m.id) /\ ~Pending(U, m.id)
  PROVE  Follows(P, L, U, V)
<1>1. /\ DOMAIN V = DOMAIN U /\ V[p] = r
      /\ \A q \in DOMAIN U : q # p => V[q] = U[q]
  OBVIOUS
<1>2. ASSUME NEW q, NEW j, NEW id, Place(V, q, j, id)
      PROVE  \/ Place(U, q, j, id)
             \/ q = p /\ j = Len(U[p]) + 1 /\ m.cmd = "CONNECT_CONF" /\ m.id = id
  <2>1. CASE q # p
    BY <1>1, <1>2, <2>1 DEF Place
  <2>2. CASE q = p
    BY <1>1, <1>2, <2>2 DEF Place, Longer
  <2>. QED BY <2>1, <2>2
<1>3. \A id : Pending(V, id) => Pending(U, id) \/ (m.cmd = "CONNECT_CONF" /\ m.id = id)
  BY <1>2 DEF Pending
<1>4. ASSUME NEW id, NEW q, NEW i, NEW x, NEW j, Place(V, q, i, id), Place(V, x, j, id)
      PROVE  q = x /\ i = j
  <2>1. CASE Place(U, q, i, id) /\ Place(U, x, j, id)
    BY <2>1 DEF UniqueIds
  <2>2. CASE ~Place(U, q, i, id)
    <3>1. ~Pending(U, id)
      BY <1>2, <1>4, <2>2
    <3>. QED BY <1>2, <1>4, <3>1 DEF Pending
  <2>3. CASE ~Place(U, x, j, id)
    <3>1. ~Pending(U, id)
      BY <1>2, <1>4, <2>3
    <3>. QED BY <1>2, <1>4, <3>1 DEF Pending
  <2>. QED BY <2>1, <2>2, <2>3
<1>5. UniqueIds(V)
  BY <1>4 DEF UniqueIds
<1>. QED BY <1>3, <1>5 DEF Follows

LEMMA PlacesTail ==
  ASSUME NEW U, NEW p \in DOMAIN U, NEW m, NEW r, Shorter(U[p], m, r),
         NEW V, V = [U EXCEPT ![p] = r], UniqueIds(U)
  PROVE  /\ UniqueIds(V)
         /\ \A id : Pending(V, id) => Pending(U, id)
         /\ m.cmd = "CONNECT_CONF" => Pending(U, m.id) /\ ~Pending(V, m.id)
<1> DEFINE Was(q, j) == IF q = p THEN j + 1 ELSE j
<1>1. /\ DOMAIN V = DOMAIN U /\ V[p] = r
      /\ \A q \in DOMAIN U : q # p => V[q] = U[q]
  OBVIOUS
<1>2. ASSUME NEW q, NEW j, NEW id, Place(V, q, j, id)
      PROVE  Place(U, q, Was(q, j), id) /\ (q = p => j \in Nat /\ j # 0)
  <2>1. CASE q # p
    BY <1>1, <1>2, <2>1 DEF Place
  <2>2. CASE q = p
    BY <1>1, <1>2, <2>2 DEF Place, Shorter, Entries
  <2>. QED BY <2>1, <2>2
<1>3. \A id : Pending(V, id) => Pending(U, id)
  BY <1>2 DEF Pending
<1>4. ASSUME NEW id, NEW q, NEW i, NEW x, NEW j, Place(V, q, i, id), Place(V, x, j, id)
      PROVE  q = x /\ i = j
  <2>1. q = x /\ Was(q, i) = Was(x, j)
    BY <1>2, <1>4 DEF UniqueIds
  <2>. QED BY <1>2, <1>4, <2>1
<1>5. UniqueIds(V)
  BY <1>4 DEF UniqueIds
<1>6. ASSUME m.cmd = "CONNECT_CONF"
      PROVE  Pending(U, m.id) /\ ~Pending(V, m.id)
  <2>1. Place(U, p, 1, m.id)
    BY <1>6 DEF Place, Shorter
  <2>2. ASSUME NEW q, NEW j, Place(V, q, j, m.id)
        PROVE  FALSE
    <3>1. Place(U, q, Was(q, j), m.id) /\ (q = p => j \in Nat /\ j # 0)
      BY <1>2, <2>2
    <3>2. q = p /\ Was(q, j) = 1
      BY <2>1, <3>1 DEF UniqueIds
    <3>. QED BY <3>1, <3>2
  <2>. QED BY <2>1, <2>2 DEF Pending
<1>. QED BY <1>3, <1>5, <1>6

-------------------------------------------------------------------------------
(* Structures *)

LEMMA NotNull == \A x \in Plcis : x # Null
<1>1. Plcis \subseteq [plci : Plci \cup {0}, msgid : Msgids \cup {0}, state : PlciStates]
  BY DEF Plcis, CallStates
<1>. QED BY <1>1, DrvAssumption

(* A structure that has a connection changes its state, or takes a message *)
(* number that no confirmation has.                                        *)
LEMMA StructChanged ==
  ASSUME NEW P, NEW L, NEW I, NEW T, NEW D, NEW U, Agree(P, L, I, T, D, U),
         NEW c \in Chan, P[c] # Null, P[c].state # "OUTGOING",
         NEW x \in Plcis, x.plci = P[c].plci, x.state # "OUTGOING",
         x.msgid = P[c].msgid \/ ~Pending(U, x.msgid),
         NEW Q, Q = [P EXCEPT ![c] = x]
  PROVE  Agree(Q, L, I, T, D, U)
<1>1. /\ P \in [Chan -> Plcis \cup {Null}] /\ L \in Seq(Chan)
      /\ Structures(P, L, I, T)
  BY DEF Agree, Structures
<1>2. /\ Q \in [Chan -> Plcis \cup {Null}] /\ Q[c] = x /\ x # Null
      /\ \A y \in Chan : y # c => Q[y] = P[y]
  BY <1>1, NotNull
<1>3. Structures(Q, L, I, T)
  BY <1>1, <1>2 DEF Structures
<1>4. \A y, p : Owns(Q, y, p) <=> Owns(P, y, p)
  BY <1>2 DEF Owns
<1>5. Owners(Q, I, D, U)
  BY <1>4 DEF Agree, Owners
<1>6. ASSUME NEW id, Pending(U, id)
      PROVE  id \in Msgids /\ Waits(Q, L, id)
  <2>1. id \in Msgids /\ Waits(P, L, id)
    BY <1>6 DEF Agree, Awaited
  <2>2. PICK n \in 1 .. Len(L) : /\ P[L[n]].msgid = id /\ P[L[n]].state = "OUTGOING"
                                 /\ \A j \in 1 .. n - 1 : P[L[j]].msgid # id
    BY <2>1 DEF Waits
  <2>3. \A j \in 1 .. Len(L) : L[j] \in Chan
    BY <1>1
  <2>4. x.msgid # id \/ x.msgid = P[c].msgid
    BY <1>6
  <2>5. Q[L[n]] = P[L[n]]
    BY <1>2, <2>2, <2>3
  <2>6. \A j \in 1 .. n - 1 : j \in 1 .. Len(L)
    BY <1>1
  <2>7. \A j \in 1 .. n - 1 : Q[L[j]].msgid # id
    BY <1>2, <2>2, <2>3, <2>4, <2>6
  <2>. QED BY <2>1, <2>2, <2>5, <2>7 DEF Waits
<1>. QED BY <1>3, <1>5, <1>6 DEF Agree, Awaited

(* A structure is freed, unless it waits for a confirmation that is on its *)
(* way.                                                                    *)
Frees(P, L, I, T, Q, M, J, W, c) ==
  /\ Q = [P EXCEPT ![c] = Null] /\ M = Without(L, {c}) /\ J = I \ {c}
  /\ DOMAIN W = Chan /\ W[c] # "ringing"
  /\ \A y \in Chan : y # c => W[y] = T[y]

LEMMA StructFreed ==
  ASSUME NEW P, NEW L, NEW I, NEW T, NEW D, NEW U, Agree(P, L, I, T, D, U),
         NEW c \in Chan, P[c].state = "OUTGOING" => ~Pending(U, P[c].msgid),
         NEW Q, NEW M, NEW J, NEW W, Frees(P, L, I, T, Q, M, J, W, c)
  PROVE  Agree(Q, M, J, W, D, U) /\ \A p : ~Owns(Q, c, p)
<1>0. /\ Q = [P EXCEPT ![c] = Null] /\ M = Without(L, {c}) /\ J = I \ {c}
      /\ DOMAIN W = Chan /\ W[c] # "ringing"
      /\ \A y \in Chan : y # c => W[y] = T[y]
  BY DEF Frees
<1>1. /\ P \in [Chan -> Plcis \cup {Null}] /\ L \in Seq(Chan) /\ Len(L) \in Nat
      /\ Structures(P, L, I, T)
  BY DEF Agree, Structures
<1>2. /\ Q \in [Chan -> Plcis \cup {Null}] /\ Q[c] = Null
      /\ \A y \in Chan : y # c => Q[y] = P[y]
  BY <1>0, <1>1
<1>3. M \in Seq(Chan) /\ Removal(L, c, M)
  <2>1. Distinct(L)
    BY <1>1 DEF Structures
  <2>. QED BY <1>0, <1>1, <2>1, WithoutOne
<1>4. ASSUME NEW i \in 1 .. Len(M) PROVE M[i] \in Chan /\ M[i] # c
  <2>1. (\E j \in 1 .. Len(M) : M[j] = M[i]) => M[i] # c
    BY <1>3 DEF Removal
  <2>2. M[i] \in Chan
    BY <1>3
  <2>. QED BY <2>1, <2>2
<1>8. \A y \in Chan : Q[y] # Null <=> \E i \in 1 .. Len(M) : M[i] = y
  <2>1. \A y \in Chan : P[y] # Null <=> \E i \in 1 .. Len(L) : L[i] = y
    BY <1>1 DEF Structures
  <2>. QED BY <1>2, <1>3, <2>1 DEF Removal
<1>9. Structures(Q, M, J, W)
  BY <1>0, <1>1, <1>2, <1>3, <1>8 DEF Removal, Structures
<1>10. \A y, p : Owns(Q, y, p) <=> Owns(P, y, p) /\ y # c
  BY <1>2 DEF Owns
<1>11. Owners(Q, J, D, U)
  <2>1. ASSUME NEW y \in Chan, NEW p \in Plci, Owns(Q, y, p)
        PROVE  /\ D[p] # "idle" /\ (D[p] = "gone" => HasEnd(U[p])) /\ ~HasBegin(U[p])
               /\ D[p] \in Outgoing => y \notin J
               /\ D[p] \in Incoming => y \in J
               /\ \A z \in Chan : Owns(Q, z, p) => z = y
    <3>1. Owns(P, y, p) /\ y # c /\ Owners(P, I, D, U)
      BY <1>10, <2>1 DEF Agree
    <3>2. /\ D[p] # "idle" /\ (D[p] = "gone" => HasEnd(U[p])) /\ ~HasBegin(U[p])
          /\ D[p] \in Outgoing => y \notin I
          /\ D[p] \in Incoming => y \in I
          /\ \A z \in Chan : Owns(P, z, p) => z = y
      BY <3>1 DEF Owners
    <3>. QED BY <1>0, <1>10, <3>1, <3>2
  <2>. QED BY <2>1 DEF Owners
<1>12. ASSUME NEW id, Pending(U, id)
       PROVE  id \in Msgids /\ Waits(Q, M, id)
  <2>1. id \in Msgids /\ Waits(P, L, id)
    BY <1>12 DEF Agree, Awaited
  <2>2. PICK n \in 1 .. Len(L) : /\ P[L[n]].msgid = id /\ P[L[n]].state = "OUTGOING"
                                 /\ \A j \in 1 .. n - 1 : P[L[j]].msgid # id
    BY <2>1 DEF Waits
  <2>3. L[n] # c
    BY <1>12, <2>2
  <2>4. PICK m \in 1 .. Len(M) : M[m] = L[n]
    BY <1>3, <2>2, <2>3 DEF Removal
  <2>5. PICK a \in 1 .. Len(L) :
          M[m] = L[a] /\ \A j \in 1 .. m - 1 : \E k \in 1 .. a - 1 : M[j] = L[k]
    BY <1>3, <2>4 DEF Removal, Behind
  <2>6. a = n
    <3>1. Distinct(L)
      BY <1>1 DEF Structures
    <3>. QED BY <2>2, <2>4, <2>5, <3>1 DEF Distinct
  <2>8. ASSUME NEW j \in 1 .. m - 1 PROVE Q[M[j]].msgid # id
    <3>1. j \in 1 .. Len(M)
      BY <1>3
    <3>2. P[M[j]].msgid # id
      BY <2>2, <2>5, <2>6
    <3>. QED BY <1>2, <1>4, <3>1, <3>2
  <2>9. Q[M[m]].msgid = id /\ Q[M[m]].state = "OUTGOING"
    BY <1>2, <1>4, <2>2, <2>4
  <2>. QED BY <2>1, <2>8, <2>9 DEF Waits
<1>. QED BY <1>9, <1>10, <1>11, <1>12 DEF Agree, Awaited

(* A callback that offers no call. *)
LEMMA ToldChanged ==
  ASSUME NEW P, NEW L, NEW I, NEW T, NEW D, NEW U, Agree(P, L, I, T, D, U),
         NEW W, DOMAIN W = Chan, \A y \in Chan : W[y] = "ringing" => T[y] = "ringing"
  PROVE  Agree(P, L, I, W, D, U)
<1>1. Structures(P, L, I, W)
  BY DEF Agree, Structures
<1>. QED BY <1>1 DEF Agree

(* A structure of a channel without one, in front of the others. *)
InFront(P, L, I, T, Q, M, J, W, c, x) ==
  /\ c \in Chan /\ P[c] = Null
  /\ x \in Plcis /\ (x.plci = 0 <=> x.state = "OUTGOING")
  /\ Q = [P EXCEPT ![c] = x] /\ M = <<c>> \o L
  /\ J = I \/ (J = I \cup {c} /\ x.plci # 0)
  /\ DOMAIN W = Chan /\ (W[c] = "ringing" => c \in J \/ T[c] = "ringing")
  /\ \A y \in Chan : y # c => W[y] = T[y]

LEMMA StructInFront ==
  ASSUME NEW P, NEW L, NEW I, NEW T, NEW D, NEW U, Agree(P, L, I, T, D, U),
         NEW c, NEW x, NEW Q, NEW M, NEW J, NEW W, InFront(P, L, I, T, Q, M, J, W, c, x),
         ~Pending(U, x.msgid), Owners(Q, J, D, U)
  PROVE  Agree(Q, M, J, W, D, U) /\ (x.state = "OUTGOING" => Waits(Q, M, x.msgid))
<1>0. /\ c \in Chan /\ P[c] = Null
      /\ x \in Plcis /\ (x.plci = 0 <=> x.state = "OUTGOING")
      /\ Q = [P EXCEPT ![c] = x] /\ M = <<c>> \o L
      /\ J = I \/ (J = I \cup {c} /\ x.plci # 0)
      /\ DOMAIN W = Chan /\ (W[c] = "ringing" => c \in J \/ T[c] = "ringing")
      /\ \A y \in Chan : y # c => W[y] = T[y]
  BY DEF InFront
<1>1. /\ P \in [Chan -> Plcis \cup {Null}] /\ L \in Seq(Chan) /\ Len(L) \in Nat
      /\ Structures(P, L, I, T)
  BY DEF Agree, Structures
<1>2. /\ Q \in [Chan -> Plcis \cup {Null}] /\ Q[c] = x /\ x # Null
      /\ \A y \in Chan : y # c => Q[y] = P[y]
  BY <1>0, <1>1, NotNull
<1>3. /\ M \in Seq(Chan) /\ Len(M) = Len(L) + 1 /\ M[1] = c
      /\ \A i \in 1 .. Len(L) : M[1 + i] = L[i]
  <2>1. PICK s : s = <<c>>
    BY <1>0
  <2>2. s \in Seq(Chan) /\ Len(s) = 1 /\ s[1] = c
    BY <1>0, <2>1
  <2>3. M = s \o L
    BY <1>0, <2>1
  <2>4. 1 \in 1 .. Len(s)
    BY <1>0, <2>2
  <2>. QED BY <1>0, <1>1, <2>2, <2>3, <2>4, ConcatEntries
<1>4. \A i \in 1 .. Len(M) : i = 1 \/ (i - 1 \in 1 .. Len(L) /\ M[i] = L[i - 1])
  <2>1. ASSUME NEW i \in 1 .. Len(M), i # 1 PROVE i - 1 \in 1 .. Len(L) /\ M[i] = L[i - 1]
    <3>1. i - 1 \in 1 .. Len(L) /\ 1 + (i - 1) = i
      BY <1>0, <1>1, <1>3, <2>1
    <3>. QED BY <1>0, <1>3, <3>1
  <2>. QED BY <1>0, <2>1
<1>5. \A i \in 1 .. Len(L) : L[i] # c /\ L[i] \in Chan
  BY <1>0, <1>1 DEF Structures
<1>6. Distinct(M)
  <2>1. ASSUME NEW i \in 1 .. Len(M), NEW j \in 1 .. Len(M), M[i] = M[j] PROVE i = j
    <3>1. CASE i = 1 \/ j = 1
      BY <1>0, <1>3, <1>4, <1>5, <2>1, <3>1
    <3>2. CASE i # 1 /\ j # 1
      <4>1. i - 1 = j - 1
        BY <1>1, <1>4, <2>1, <3>2 DEF Structures, Distinct
      <4>. QED BY <1>0, <4>1
    <3>. QED BY <1>0, <3>1, <3>2
  <2>. QED BY <1>0, <2>1 DEF Distinct
<1>7. \A y \in Chan : Q[y] # Null <=> \E i \in 1 .. Len(M) : M[i] = y
  <2>1. ASSUME NEW y \in Chan, y # c
        PROVE  Q[y] # Null <=> \E i \in 1 .. Len(M) : M[i] = y
    <3>1. Q[y] # Null <=> \E i \in 1 .. Len(L) : L[i] = y
      BY <1>0, <1>1, <1>2, <2>1 DEF Structures
    <3>2. \A i \in 1 .. Len(L) : 1 + i \in 1 .. Len(M)
      BY <1>0, <1>1, <1>3
    <3>3. ASSUME NEW i \in 1 .. Len(L), L[i] = y PROVE \E j \in 1 .. Len(M) : M[j] = y
      <4>1. 1 + i \in 1 .. Len(M) /\ M[1 + i] = L[i]
        BY <1>3, <3>2
      <4>. QED BY <3>3, <4>1
    <3>4. ASSUME NEW j \in 1 .. Len(M), M[j] = y PROVE \E i \in 1 .. Len(L) : L[i] = y
      <4>1. j # 1
        BY <1>3, <2>1, <3>4
      <4>2. j - 1 \in 1 .. Len(L) /\ M[j] = L[j - 1]
        BY <1>4, <4>1
      <4>. QED BY <3>4, <4>2
    <3>. QED BY <3>1, <3>3, <3>4
  <2>2. 1 \in 1 .. Len(M)
    BY <1>0, <1>1, <1>3
  <2>. QED BY <1>0, <1>2, <1>3, <2>1, <2>2
<1>8. /\ J \subseteq Chan
      /\ \A y \in J : Q[y] # Null /\ Q[y].plci # 0
      /\ \A y \in Chan : W[y] = "ringing" => y \in J
  BY <1>0, <1>1, <1>2 DEF Structures
<1>9. \A y \in Chan : Q[y] # Null => (Q[y].plci = 0 <=> Q[y].state = "OUTGOING")
  BY <1>0, <1>1, <1>2 DEF Structures
<1>10. Structures(Q, M, J, W)
  BY <1>0, <1>2, <1>3, <1>6, <1>7, <1>8, <1>9 DEF Structures
<1>11. ASSUME NEW id, Pending(U, id)
       PROVE  id \in Msgids /\ Waits(Q, M, id)
  <2>1. id \in Msgids /\ Waits(P, L, id)
    BY <1>0, <1>11 DEF Agree, Awaited
  <2>2. PICK n \in 1 .. Len(L) : /\ P[L[n]].msgid = id /\ P[L[n]].state = "OUTGOING"
                                 /\ \A j \in 1 .. n - 1 : P[L[j]].msgid # id
    BY <1>0, <2>1 DEF Waits
  <2>3. 1 + n \in 1 .. Len(M) /\ M[1 + n] = L[n] /\ Q[L[n]] = P[L[n]]
    BY <1>0, <1>1, <1>2, <1>3, <1>5, <2>2
  <2>4. x.msgid # id
    BY <1>0, <1>11
  <2>5. ASSUME NEW j \in 1 .. (1 + n) - 1 PROVE Q[M[j]].msgid # id
    <3>1. j \in 1 .. Len(M)
      BY <1>0, <1>1, <1>3
    <3>2. CASE j = 1
      BY <1>0, <1>2, <1>3, <2>4, <3>2
    <3>3. CASE j # 1
      <4>1. j - 1 \in 1 .. Len(L) /\ M[j] = L[j - 1] /\ j - 1 \in 1 .. n - 1
        BY <1>0, <1>4, <3>1, <3>3
      <4>. QED BY <1>0, <1>2, <1>5, <2>2, <4>1
    <3>. QED BY <1>0, <3>2, <3>3
  <2>. QED BY <1>0, <2>1, <2>2, <2>3, <2>5 DEF Waits
<1>12. x.state = "OUTGOING" => Waits(Q, M, x.msgid)
  <2>1. 1 \in 1 .. Len(M) /\ \A j \in 1 .. 1 - 1 : FALSE
    BY <1>0, <1>1, <1>3
  <2>. QED BY <1>0, <1>2, <1>3, <2>1 DEF Waits
<1>. QED BY <1>0, <1>10, <1>11, <1>12 DEF Agree, Awaited

(* Whoever gets the number of a connection that no structure has. *)
LEMMA NewOwner ==
  ASSUME NEW P, NEW I, NEW D, NEW U, Owners(P, I, D, U),
         NEW c \in Chan, NEW x \in Plcis, NEW Q, Q = [P EXCEPT ![c] = x], c \in DOMAIN P,
         NEW J, \A y : y # c => (y \in J <=> y \in I),
         x.plci # 0 => /\ \A y : ~Owns(P, y, x.plci)
                       /\ D[x.plci] # "idle" /\ (D[x.plci] = "gone" => HasEnd(U[x.plci]))
                       /\ ~HasBegin(U[x.plci])
                       /\ D[x.plci] \in Outgoing => c \notin J
                       /\ D[x.plci] \in Incoming => c \in J
  PROVE  Owners(Q, J, D, U)
<1>1. Q[c] = x /\ \A y : y # c => Q[y] = P[y]
  OBVIOUS
<1>2. \A y, p : y # c => (Owns(Q, y, p) <=> Owns(P, y, p))
  BY <1>1 DEF Owns
<1>3. \A p : Owns(Q, c, p) => p = x.plci /\ p # 0
  BY <1>1, DrvAssumption DEF Owns
<1>4. ASSUME NEW y \in Chan, NEW p \in Plci, Owns(Q, y, p)
      PROVE  /\ D[p] # "idle" /\ (D[p] = "gone" => HasEnd(U[p])) /\ ~HasBegin(U[p])
             /\ D[p] \in Outgoing => y \notin J
             /\ D[p] \in Incoming => y \in J
  <2>1. CASE y = c
    BY <1>3, <1>4, <2>1
  <2>2. CASE y # c
    BY <1>2, <1>4, <2>2 DEF Owners
  <2>. QED BY <2>1, <2>2
<1>5. ASSUME NEW y \in Chan, NEW p \in Plci, Owns(Q, y, p), NEW z \in Chan, Owns(Q, z, p)
      PROVE  y = z
  <2>0. ASSUME Owns(Q, c, p) PROVE \A w : ~Owns(P, w, p)
    BY <1>3, <2>0
  <2>1. CASE y = c /\ z # c
    BY <1>2, <1>5, <2>0, <2>1
  <2>2. CASE z = c /\ y # c
    BY <1>2, <1>5, <2>0, <2>2
  <2>3. CASE y # c /\ z # c
    <3>1. Owns(P, y, p) /\ Owns(P, z, p)
      BY <1>2, <1>5, <2>3
    <3>. QED BY <3>1 DEF Owners
  <2>. QED BY <2>1, <2>2, <2>3
<1>. QED BY <1>4, <1>5 DEF Owners

(* The structure that waited gets its connection.                          *)
LEMMA StructConfirmed ==
  ASSUME NEW P, NEW L, NEW I, NEW T, NEW D, NEW U, Agree(P, L, I, T, D, U),
         NEW c \in Chan, P[c] # Null, ~Pending(U, P[c].msgid),
         NEW x \in Plcis, x.plci # 0, x.state # "OUTGOING", x.msgid = P[c].msgid,
         NEW Q, Q = [P EXCEPT ![c] = x], Owners(Q, I, D, U)
  PROVE  Agree(Q, L, I, T, D, U)
<1>1. /\ P \in [Chan -> Plcis \cup {Null}] /\ L \in Seq(Chan)
      /\ Structures(P, L, I, T)
  BY DEF Agree, Structures
<1>2. /\ Q \in [Chan -> Plcis \cup {Null}] /\ Q[c] = x /\ x # Null
      /\ \A y \in Chan : y # c => Q[y] = P[y]
  BY <1>1, NotNull
<1>3. Structures(Q, L, I, T)
  BY <1>1, <1>2 DEF Structures
<1>4. ASSUME NEW id, Pending(U, id)
      PROVE  id \in Msgids /\ Waits(Q, L, id)
  <2>1. id \in Msgids /\ Waits(P, L, id)
    BY <1>4 DEF Agree, Awaited
  <2>2. PICK n \in 1 .. Len(L) : /\ P[L[n]].msgid = id /\ P[L[n]].state = "OUTGOING"
                                 /\ \A j \in 1 .. n - 1 : P[L[j]].msgid # id
    BY <2>1 DEF Waits
  <2>3. \A j \in 1 .. Len(L) : L[j] \in Chan
    BY <1>1
  <2>4. x.msgid # id /\ P[c].msgid # id
    BY <1>4
  <2>5. Q[L[n]] = P[L[n]]
    BY <1>2, <2>2, <2>3, <2>4
  <2>6. \A j \in 1 .. n - 1 : j \in 1 .. Len(L)
    BY <1>1
  <2>7. \A j \in 1 .. n - 1 : Q[L[j]].msgid # id
    BY <1>2, <2>2, <2>3, <2>4, <2>6
  <2>. QED BY <2>1, <2>2, <2>5, <2>7 DEF Waits
<1>. QED BY <1>3, <1>4 DEF Agree, Awaited

-------------------------------------------------------------------------------
(* The line *)

(* The connection p in the state e and with the queue r suits its          *)
(* structure.                                                              *)
Suits(P, I, p, e, r) ==
  \A c : Owns(P, c, p) => /\ e # "idle" /\ (e = "gone" => HasEnd(r)) /\ ~HasBegin(r)
                          /\ e \in Outgoing => c \notin I
                          /\ e \in Incoming => c \in I

(* A connection whose state becomes e and whose queue becomes r.           *)
LEMMA LineChanged ==
  ASSUME NEW P, NEW L, NEW I, NEW T, NEW D, NEW U, Agree(P, L, I, T, D, U),
         NEW p \in Plci, NEW e \in DStates, NEW r, Queue(r, e),
         NEW E, E = [D EXCEPT ![p] = e], NEW V, V = [U EXCEPT ![p] = r],
         Follows(P, L, U, V), Suits(P, I, p, e, r)
  PROVE  Agree(P, L, I, T, E, V)
<1>1. /\ D \in [Plci -> DStates] /\ DOMAIN U = Plci \cup {0} /\ Lines(D, U) /\ p # 0
  BY DrvAssumption DEF Agree, Lines
<1>2. /\ E \in [Plci -> DStates] /\ E[p] = e
      /\ \A q \in Plci : q # p => E[q] = D[q]
  BY <1>1
<1>3. /\ DOMAIN V = Plci \cup {0} /\ V[p] = r
      /\ \A q \in Plci \cup {0} : q # p => V[q] = U[q]
  BY <1>1
<1>4. Lines(E, V)
  BY <1>1, <1>2, <1>3 DEF Lines
<1>5. Awaited(P, L, V)
  BY DEF Agree, Awaited, Follows
<1>6. ASSUME NEW c \in Chan, NEW q \in Plci, Owns(P, c, q)
      PROVE  /\ E[q] # "idle" /\ (E[q] = "gone" => HasEnd(V[q])) /\ ~HasBegin(V[q])
             /\ E[q] \in Outgoing => c \notin I
             /\ E[q] \in Incoming => c \in I
             /\ \A x \in Chan : Owns(P, x, q) => x = c
  <2>1. CASE q = p
    BY <1>2, <1>3, <1>6, <2>1 DEF Agree, Owners, Suits
  <2>2. CASE q # p
    BY <1>2, <1>3, <1>6, <2>2 DEF Agree, Owners
  <2>. QED BY <2>1, <2>2
<1>7. Owners(P, I, E, V)
  BY <1>6 DEF Owners
<1>. QED BY <1>4, <1>5, <1>7 DEF Agree, Follows

LEMMA OwnerKnown ==
  ASSUME NEW P, NEW L, NEW I, NEW T, NEW D, NEW U, Agree(P, L, I, T, D, U),
         NEW p \in Plci, NEW c, Owns(P, c, p)
  PROVE  /\ c \in Chan /\ D[p] # "idle" /\ (D[p] = "gone" => HasEnd(U[p])) /\ ~HasBegin(U[p])
         /\ D[p] \in Outgoing => c \notin I
         /\ D[p] \in Incoming => c \in I
         /\ \A x : Owns(P, x, p) => x = c
  BY DEF Agree, Owners, Owns

LEMMA LineKnown ==
  ASSUME NEW P, NEW L, NEW I, NEW T, NEW D, NEW U, Agree(P, L, I, T, D, U), NEW p \in Plci
  PROVE  /\ Queue(U[p], D[p]) /\ IsSeq(U[p]) /\ D[p] \in DStates /\ p \in DOMAIN U /\ p # 0
         /\ D \in [Plci -> DStates] /\ DOMAIN U = Plci \cup {0} /\ UniqueIds(U)
         /\ U = [U EXCEPT ![p] = U[p]] /\ D = [D EXCEPT ![p] = D[p]]
  BY DrvAssumption DEF Agree, Lines, Queue

(* The connection takes a request, and keeps its direction.                *)
LEMMA LineMoves ==
  ASSUME NEW P, NEW L, NEW I, NEW T, NEW D, NEW U, Agree(P, L, I, T, D, U),
         NEW p \in Plci, NEW e, Moves(D[p], e), NEW E, E = [D EXCEPT ![p] = e]
  PROVE  Agree(P, L, I, T, E, U)
<1>1. Queue(U[p], D[p]) /\ UniqueIds(U) /\ U = [U EXCEPT ![p] = U[p]]
  BY LineKnown
<1>2. Queue(U[p], e) /\ e \in DStates
  BY <1>1, QueueMoves
<1>3. /\ e # "idle" /\ e # "gone"
      /\ e \in Outgoing => D[p] \in Outgoing
      /\ e \in Incoming => D[p] \in Incoming
  BY DEF Moves, Outgoing, Incoming
<1>4. Suits(P, I, p, e, U[p])
  BY <1>3, OwnerKnown DEF Suits
<1>5. Follows(P, L, U, U)
  BY <1>1 DEF Follows
<1>. QED BY <1>1, <1>2, <1>4, <1>5, LineChanged

(* A message that begins and ends nothing.                                 *)
LEMMA LineGrows ==
  ASSUME NEW P, NEW L, NEW I, NEW T, NEW D, NEW U, Agree(P, L, I, T, D, U),
         NEW p \in Plci, NEW m, Neutral(m), NEW V, V = [U EXCEPT ![p] = Append(U[p], m)]
  PROVE  Agree(P, L, I, T, D, V)
<1>1. /\ Queue(U[p], D[p]) /\ IsSeq(U[p]) /\ D[p] \in DStates /\ p \in DOMAIN U /\ UniqueIds(U)
      /\ D = [D EXCEPT ![p] = D[p]]
  BY LineKnown
<1>2. PICK r : r = Append(U[p], m)
  OBVIOUS
<1>3. Longer(U[p], m, r) /\ m.cmd # "CONNECT_CONF"
  BY <1>1, <1>2, QueueAppend DEF Neutral, Begins
<1>4. Queue(r, D[p]) /\ (HasBegin(r) <=> HasBegin(U[p])) /\ (HasEnd(r) <=> HasEnd(U[p]))
  BY <1>1, <1>2, QueueGrows
<1>5. V = [U EXCEPT ![p] = r]
  BY <1>2
<1>6. Follows(P, L, U, V)
  BY <1>1, <1>3, <1>5, PlacesAppend
<1>7. Suits(P, I, p, D[p], r)
  BY <1>4, OwnerKnown DEF Suits
<1>. QED BY <1>1, <1>4, <1>5, <1>6, <1>7, LineChanged

(* A connection that is not in use gets a call.                            *)
Starts(P, L, U, m, e) ==
  \/ m.cmd = "CONNECT_IND" /\ e = "in"
  \/ /\ m.cmd = "CONNECT_CONF" /\ m.ok /\ e = "out"
     /\ m.id \in Msgids /\ Waits(P, L, m.id) /\ ~Pending(U, m.id)

LEMMA LineBegins ==
  ASSUME NEW P, NEW L, NEW I, NEW T, NEW D, NEW U, Agree(P, L, I, T, D, U),
         NEW p \in Plci, D[p] = "idle", NEW m, NEW e, Starts(P, L, U, m, e),
         NEW E, E = [D EXCEPT ![p] = e], NEW V, V = [U EXCEPT ![p] = Append(U[p], m)]
  PROVE  Agree(P, L, I, T, E, V)
<1>1. Queue(U[p], "idle") /\ IsSeq(U[p]) /\ p \in DOMAIN U /\ UniqueIds(U)
  BY LineKnown
<1>2. PICK r : r = Append(U[p], m)
  OBVIOUS
<1>3. Longer(U[p], m, r)
  BY <1>1, <1>2, QueueAppend
<1>4. Queue(r, e)
  BY <1>1, <1>2, QueueBegins DEF Starts
<1>5. V = [U EXCEPT ![p] = r]
  BY <1>2
<1>6. m.cmd = "CONNECT_CONF" => m.id \in Msgids /\ Waits(P, L, m.id) /\ ~Pending(U, m.id)
  BY DEF Starts
<1>7. Follows(P, L, U, V)
  BY <1>1, <1>3, <1>5, <1>6, PlacesAppend
<1>8. Suits(P, I, p, e, r)
  BY OwnerKnown DEF Suits
<1>9. e \in DStates
  BY DEF DStates, Outgoing, Incoming, Starts
<1>. QED BY <1>4, <1>5, <1>6, <1>7, <1>8, <1>9, LineChanged

LEMMA LineEnds ==
  ASSUME NEW P, NEW L, NEW I, NEW T, NEW D, NEW U, Agree(P, L, I, T, D, U),
         NEW p \in Plci, D[p] # "idle", D[p] # "gone", NEW m, m.cmd = "DISCONNECT_IND",
         NEW E, E = [D EXCEPT ![p] = "gone"], NEW V, V = [U EXCEPT ![p] = Append(U[p], m)]
  PROVE  Agree(P, L, I, T, E, V)
<1>1. Queue(U[p], D[p]) /\ IsSeq(U[p]) /\ p \in DOMAIN U /\ UniqueIds(U)
  BY LineKnown
<1>2. PICK r : r = Append(U[p], m)
  OBVIOUS
<1>3. Longer(U[p], m, r)
  BY <1>1, <1>2, QueueAppend
<1>4. Queue(r, "gone") /\ HasEnd(r) /\ (HasBegin(r) <=> HasBegin(U[p]))
  BY <1>1, <1>2, QueueEnds
<1>5. V = [U EXCEPT ![p] = r]
  BY <1>2
<1>6. Follows(P, L, U, V)
  BY <1>1, <1>3, <1>5, PlacesAppend
<1>7. "gone" \in DStates /\ "gone" \notin Outgoing /\ "gone" \notin Incoming
  BY DEF DStates, Outgoing, Incoming
<1>8. Suits(P, I, p, "gone", r)
  BY <1>4, <1>7, OwnerKnown DEF Suits
<1>. QED BY <1>4, <1>5, <1>6, <1>7, <1>8, LineChanged

(* The device may use the number of a call that has ended again.           *)
LEMMA LineReset ==
  ASSUME NEW P, NEW L, NEW I, NEW T, NEW D, NEW U, Agree(P, L, I, T, D, U),
         NEW p \in Plci, ~HasBegin(U[p]), ~HasEnd(U[p]), \A c : ~Owns(P, c, p),
         NEW E, E = [D EXCEPT ![p] = "idle"]
  PROVE  Agree(P, L, I, T, E, U)
<1>1. Queue(U[p], D[p]) /\ UniqueIds(U) /\ U = [U EXCEPT ![p] = U[p]]
  BY LineKnown
<1>2. Queue(U[p], "idle") /\ "idle" \in DStates
  BY <1>1, QueueReset DEF DStates
<1>3. Follows(P, L, U, U) /\ Suits(P, I, p, "idle", U[p])
  BY <1>1 DEF Follows, Suits
<1>. QED BY <1>1, <1>2, <1>3, LineChanged

(* A message is taken, the end of a call not before its structure is freed. *)
LEMMA LineTaken ==
  ASSUME NEW P, NEW L, NEW I, NEW T, NEW D, NEW U, Agree(P, L, I, T, D, U),
         NEW p \in Plci, U[p] # <<>>, NEW m, m = Head(U[p]),
         Finishes(m) => \A c : ~Owns(P, c, p),
         NEW V, V = [U EXCEPT ![p] = Tail(U[p])]
  PROVE  Agree(P, L, I, T, D, V)
<1>1. /\ Queue(U[p], D[p]) /\ IsSeq(U[p]) /\ D[p] \in DStates /\ p \in DOMAIN U /\ UniqueIds(U)
      /\ D = [D EXCEPT ![p] = D[p]]
  BY LineKnown
<1>2. PICK r : r = Tail(U[p])
  OBVIOUS
<1>3. Shorter(U[p], m, r)
  BY <1>1, <1>2, QueueTail
<1>4. Took(U[p], D[p], r, m)
  BY <1>1, <1>2, QueueTaken
<1>5. V = [U EXCEPT ![p] = r]
  BY <1>2
<1>6. UniqueIds(V) /\ \A id : Pending(V, id) => Pending(U, id)
  BY <1>1, <1>3, <1>5, PlacesTail
<1>7. Follows(P, L, U, V)
  BY <1>6 DEF Follows
<1>8. Suits(P, I, p, D[p], r)
  BY <1>4, OwnerKnown DEF Suits, Took
<1>. QED BY <1>1, <1>4, <1>5, <1>7, <1>8, LineChanged DEF Took

(* What is known of a message that has been taken.                         *)
TakenBegin(P, L, D, V, p, m) ==
  /\ \A c : ~Owns(P, c, p)
  /\ D[p] # "idle" /\ (D[p] = "gone" => HasEnd(V[p])) /\ ~HasBegin(V[p])
  /\ m.cmd = "CONNECT_IND" => D[p] \notin Outgoing
  /\ m.cmd = "CONNECT_CONF" => /\ m.ok /\ D[p] \notin Incoming
                               /\ m.id \in Msgids /\ Waits(P, L, m.id) /\ ~Pending(V, m.id)

LEMMA HeadKnown ==
  ASSUME NEW P, NEW L, NEW I, NEW T, NEW D, NEW U, Agree(P, L, I, T, D, U),
         NEW p \in Plci, U[p] # <<>>, NEW m, m = Head(U[p]),
         NEW V, V = [U EXCEPT ![p] = Tail(U[p])]
  PROVE  /\ m.cmd \in Commands
         /\ Begins(m) => TakenBegin(P, L, D, V, p, m)
         /\ Finishes(m) => ~HasBegin(V[p]) /\ ~HasEnd(V[p])
<1>1. Queue(U[p], D[p]) /\ IsSeq(U[p]) /\ p \in DOMAIN U /\ UniqueIds(U)
  BY LineKnown
<1>2. PICK r : r = Tail(U[p])
  OBVIOUS
<1>3. Shorter(U[p], m, r)
  BY <1>1, <1>2, QueueTail
<1>4. V = [U EXCEPT ![p] = r] /\ V[p] = r
  BY <1>1, <1>2
<1>5. Took(U[p], D[p], r, m)
  BY <1>1, <1>2, QueueTaken
<1>6. m.cmd = "CONNECT_CONF" => Pending(U, m.id) /\ ~Pending(V, m.id)
  <2>1. PICK W : W = V
    OBVIOUS
  <2>2. W = [U EXCEPT ![p] = r]
    BY <1>4, <2>1
  <2>3. m.cmd = "CONNECT_CONF" => Pending(U, m.id) /\ ~Pending(W, m.id)
    BY <1>1, <1>3, <2>2, PlacesTail
  <2>. QED BY <2>1, <2>3
<1>7. m.cmd = "CONNECT_CONF" => m.id \in Msgids /\ Waits(P, L, m.id)
  BY <1>6 DEF Agree, Awaited
<1>8. Begins(m) => \A c : ~Owns(P, c, p)
  BY <1>5, OwnerKnown DEF Took
<1>. QED BY <1>4, <1>5, <1>6, <1>7, <1>8 DEF TakenBegin, Took

(* Queue 0. *)
LEMMA ZeroKnown ==
  ASSUME NEW P, NEW L, NEW I, NEW T, NEW D, NEW U, Agree(P, L, I, T, D, U)
  PROVE  IsSeq(U[0]) /\ 0 \in DOMAIN U /\ UniqueIds(U)
  BY DEF Agree, Lines

LEMMA ZeroChanged ==
  ASSUME NEW P, NEW L, NEW I, NEW T, NEW D, NEW U, Agree(P, L, I, T, D, U),
         NEW r, IsSeq(r),
         \A i \in Entries(r) : /\ r[i].cmd \in {"LISTEN_CONF", "CONNECT_CONF"}
                               /\ r[i].cmd = "CONNECT_CONF" => ~r[i].ok,
         NEW V, V = [U EXCEPT ![0] = r], Follows(P, L, U, V)
  PROVE  Agree(P, L, I, T, D, V)
<1>1. U = [p \in Plci \cup {0} |-> U[p]] /\ Lines(D, U)
  BY DEF Agree, Lines
<1>2. V = [p \in Plci \cup {0} |-> V[p]] /\ V[0] = r /\ \A p \in Plci : V[p] = U[p]
  BY <1>1, DrvAssumption
<1>3. Lines(D, V)
  BY <1>1, <1>2 DEF Lines
<1>4. Awaited(P, L, V) /\ UniqueIds(V)
  BY DEF Agree, Awaited, Follows
<1>5. Owners(P, I, D, V)
  BY <1>2 DEF Agree, Owners
<1>. QED BY <1>3, <1>4, <1>5 DEF Agree

LEMMA ZeroGrows ==
  ASSUME NEW P, NEW L, NEW I, NEW T, NEW D, NEW U, Agree(P, L, I, T, D, U), NEW m,
         \/ m.cmd = "LISTEN_CONF"
         \/ /\ m.cmd = "CONNECT_CONF" /\ ~m.ok
            /\ m.id \in Msgids /\ Waits(P, L, m.id) /\ ~Pending(U, m.id),
         NEW V, V = [U EXCEPT ![0] = Append(U[0], m)]
  PROVE  Agree(P, L, I, T, D, V)
<1>1. IsSeq(U[0]) /\ 0 \in DOMAIN U /\ UniqueIds(U)
  BY ZeroKnown
<1>2. PICK r : r = Append(U[0], m)
  OBVIOUS
<1>3. Longer(U[0], m, r)
  BY <1>1, <1>2, QueueAppend
<1>4. V = [U EXCEPT ![0] = r]
  BY <1>2
<1>5. m.cmd = "CONNECT_CONF" => m.id \in Msgids /\ Waits(P, L, m.id) /\ ~Pending(U, m.id)
  OBVIOUS
<1>6. Follows(P, L, U, V)
  BY <1>1, <1>3, <1>4, <1>5, PlacesAppend
<1>7. ASSUME NEW i \in Entries(r)
      PROVE  /\ r[i].cmd \in {"LISTEN_CONF", "CONNECT_CONF"}
             /\ r[i].cmd = "CONNECT_CONF" => ~r[i].ok
  <2>1. CASE i \in Entries(U[0])
    BY <1>3, <2>1 DEF Longer, Agree, Lines
  <2>2. CASE i \notin Entries(U[0])
    BY <1>3, <1>7, <2>2 DEF Longer
  <2>. QED BY <2>1, <2>2
<1>. QED BY <1>3, <1>4, <1>6, <1>7, ZeroChanged DEF Longer

LEMMA ZeroTaken ==
  ASSUME NEW P, NEW L, NEW I, NEW T, NEW D, NEW U, Agree(P, L, I, T, D, U),
         U[0] # <<>>, NEW m, m = Head(U[0]), NEW V, V = [U EXCEPT ![0] = Tail(U[0])]
  PROVE  /\ Agree(P, L, I, T, D, V)
         /\ m.cmd \in {"LISTEN_CONF", "CONNECT_CONF"}
         /\ m.cmd = "CONNECT_CONF" => /\ ~m.ok /\ m.id \in Msgids
                                      /\ Waits(P, L, m.id) /\ ~Pending(V, m.id)
<1>1. IsSeq(U[0]) /\ 0 \in DOMAIN U /\ UniqueIds(U)
  BY ZeroKnown
<1>2. PICK r : r = Tail(U[0])
  OBVIOUS
<1>3. Shorter(U[0], m, r)
  BY <1>1, <1>2, QueueTail
<1>4. V = [U EXCEPT ![0] = r]
  BY <1>2
<1>5. UniqueIds(V) /\ \A id : Pending(V, id) => Pending(U, id)
  BY <1>1, <1>3, <1>4, PlacesTail
<1>6. m.cmd = "CONNECT_CONF" => Pending(U, m.id) /\ ~Pending(V, m.id)
  <2>1. PICK W : W = V
    OBVIOUS
  <2>2. W = [U EXCEPT ![0] = r]
    BY <1>4, <2>1
  <2>3. m.cmd = "CONNECT_CONF" => Pending(U, m.id) /\ ~Pending(W, m.id)
    BY <1>1, <1>3, <2>2, PlacesTail
  <2>. QED BY <2>1, <2>3
<1>7. m.cmd = "CONNECT_CONF" => m.id \in Msgids /\ Waits(P, L, m.id)
  BY <1>6 DEF Agree, Awaited
<1>8. Follows(P, L, U, V)
  BY <1>5 DEF Follows
<1>9. \A i \in Entries(U[0]) : /\ U[0][i].cmd \in {"LISTEN_CONF", "CONNECT_CONF"}
                               /\ U[0][i].cmd = "CONNECT_CONF" => ~U[0][i].ok
  BY DEF Agree, Lines
<1>10. \A i \in Entries(r) : i + 1 \in Entries(U[0]) /\ r[i] = U[0][i + 1]
  BY <1>3 DEF Shorter
<1>11. Agree(P, L, I, T, D, V)
  <2>1. \A i \in Entries(r) : /\ r[i].cmd \in {"LISTEN_CONF", "CONNECT_CONF"}
                              /\ r[i].cmd = "CONNECT_CONF" => ~r[i].ok
    BY <1>9, <1>10
  <2>2. IsSeq(r)
    BY <1>3 DEF Shorter
  <2>. QED BY <1>4, <1>8, <2>1, <2>2, ZeroChanged
<1>. QED BY <1>3, <1>6, <1>7, <1>9, <1>11 DEF Shorter

-------------------------------------------------------------------------------
(* The operators of the driver, on states t = [k |-> driver, l |-> line].  *)

Shape(t) == t = [k |-> t.k, l |-> t.l] /\ IsCard(t.k) /\ IsLine(t.l)
Sound(t) ==
  Shape(t) /\ Agree(t.k.plcip, t.k.plci_list, t.k.incoming, t.k.told, t.l.d, t.l.up)

(* u differs from t in nothing that the invariant is about. *)
Kept(t, u) ==
  /\ Shape(u)
  /\ u.k.plcip = t.k.plcip /\ u.k.plci_list = t.k.plci_list
  /\ u.k.incoming = t.k.incoming /\ u.k.told = t.k.told
  /\ u.l.d = t.l.d /\ u.l.up = t.l.up

LEMMA KeptSound ==
  ASSUME NEW t, NEW u, Sound(t), Kept(t, u)
  PROVE  Sound(u)
  BY DEF Sound, Kept

LEMMA QuietNcci ==
  ASSUME NEW s, Shape(s), NEW n
  PROVE  Kept(s, [s EXCEPT !.k.nccip = n])
  BY DEF Shape, Kept, IsCard

LEMMA QuietDisconnecting ==
  ASSUME NEW s, Shape(s), NEW n
  PROVE  Kept(s, [s EXCEPT !.k.disconnecting = n])
  BY DEF Shape, Kept, IsCard

LEMMA QuietState ==
  ASSUME NEW s, Shape(s), NEW n
  PROVE  Kept(s, [s EXCEPT !.k.state = n])
  BY DEF Shape, Kept, IsCard

LEMMA QuietLost ==
  ASSUME NEW s, Shape(s), NEW n
  PROVE  Kept(s, [s EXCEPT !.l = [s.l EXCEPT !.lost = n]])
  BY DEF Shape, Kept, IsLine

LEMMA KeptTwice ==
  ASSUME NEW s, NEW t, NEW u, Kept(s, t), Kept(t, u)
  PROVE  Kept(s, u)
  BY DEF Kept

LEMMA QuietOps ==
  ASSUME NEW s, Shape(s), NEW c
  PROVE  /\ Kept(s, s) /\ Kept(s, Disconnecting(s, c)) /\ Kept(s, free_ncci(s, c))
         /\ \A n : Kept(s, new_ncci(s, c, n)) /\ Kept(s, [s EXCEPT !.k.nccip[c].ncci = n])
         /\ \A n, o : Kept(s, [s EXCEPT !.k.nccip[c].state = n, !.k.nccip[c].oldstate = o])
         /\ \A h : Kept(s, [s EXCEPT !.k.nccip[c].acks = capidrv_del_ack(@, h)])
         /\ \A e : Kept(s, [s EXCEPT !.k = listen_change_state(@, e)])
<1>1. Kept(s, s) /\ Kept(s, Disconnecting(s, c)) /\ Kept(s, free_ncci(s, c))
  <2>1. Kept(s, s)
    BY DEF Kept
  <2>2. Kept(s, Disconnecting(s, c))
    BY QuietDisconnecting DEF Disconnecting
  <2>3. Kept(s, free_ncci(s, c))
    BY QuietNcci DEF free_ncci
  <2>. QED BY <2>1, <2>2, <2>3
<1>2. \A n : Kept(s, new_ncci(s, c, n)) /\ Kept(s, [s EXCEPT !.k.nccip[c].ncci = n])
  BY QuietNcci DEF new_ncci
<1>3. ASSUME NEW n, NEW o
      PROVE  Kept(s, [s EXCEPT !.k.nccip[c].state = n, !.k.nccip[c].oldstate = o])
  <2>1. PICK t : t = [s EXCEPT !.k.nccip[c].state = n]
    OBVIOUS
  <2>2. Kept(s, t) /\ Shape(t)
    BY <2>1, QuietNcci DEF Kept
  <2>3. Kept(t, [t EXCEPT !.k.nccip[c].oldstate = o])
    BY <2>2, QuietNcci
  <2>4. [s EXCEPT !.k.nccip[c].state = n, !.k.nccip[c].oldstate = o]
          = [t EXCEPT !.k.nccip[c].oldstate = o]
    BY <2>1
  <2>. QED BY <2>2, <2>3, <2>4, KeptTwice
<1>4. \A h : Kept(s, [s EXCEPT !.k.nccip[c].acks = capidrv_del_ack(@, h)])
  BY QuietNcci
<1>5. \A e : Kept(s, [s EXCEPT !.k = listen_change_state(@, e)])
  BY QuietState DEF listen_change_state
<1>. QED BY <1>1, <1>2, <1>3, <1>4, <1>5

(* A callback. *)
LEMMA TellEffect ==
  ASSUME NEW s, Shape(s), NEW c \in Chan, NEW what, DOMAIN s.k.told = Chan,
         NEW u, u = Tell(s, c, what)
  PROVE  /\ Shape(u) /\ u.l = s.l
         /\ u.k.plcip = s.k.plcip /\ u.k.plci_list = s.k.plci_list
         /\ u.k.incoming = s.k.incoming /\ u.k.nccip = s.k.nccip
         /\ DOMAIN u.k.told = Chan /\ u.k.told[c] \in {what, "discarded"}
         /\ \A y \in Chan : y # c => u.k.told[y] = s.k.told[y]
  BY DEF Shape, IsCard, Tell

(* u is t without the structure of c. *)
Freed(t, u, c) ==
  /\ Shape(u) /\ u.l = t.l
  /\ u.k.plcip = [t.k.plcip EXCEPT ![c] = Null]
  /\ u.k.plci_list = Without(t.k.plci_list, {c})
  /\ u.k.incoming = t.k.incoming \ {c} /\ u.k.told = t.k.told

LEMMA FreeEffect ==
  ASSUME NEW s, Shape(s), NEW c, NEW u, u = free_plci(s, c)
  PROVE  Freed(s, u, c)
<1>1. /\ u.l = s.l /\ u.k.plcip = [s.k.plcip EXCEPT ![c] = Null]
      /\ u.k.plci_list = Without(s.k.plci_list, {c})
      /\ u.k.incoming = s.k.incoming \ {c} /\ u.k.told = s.k.told
  BY DEF Shape, IsCard, free_plci
<1>2. u = [k |-> u.k, l |-> u.l] /\ IsLine(u.l)
  BY DEF Shape, free_plci
<1>3. IsCard(u.k)
  <2>1. u.k = [[[[[s.k EXCEPT !.plcip[c] = Null] EXCEPT !.plci_list = Without(@, {c})]
                 EXCEPT !.nccip[c] = Orphaned(@)] EXCEPT !.disconnecting = @ \ {c}]
                 EXCEPT !.incoming = @ \ {c}]
    BY DEF Shape, IsCard, free_plci
  <2>2. IsCard(s.k)
    BY DEF Shape
  <2>. QED BY <2>1, <2>2 DEF IsCard
<1>. QED BY <1>1, <1>2, <1>3 DEF Freed, Shape

(* The requests that begin and end no call. *)
Requests ==
  {"CONNECT_RESP", "CONNECT_REJECT", "ALERT_REQ", "DISCONNECT_REQ", "CONNECT_B3_REQ",
   "CONNECT_B3_RESP", "CONNECT_B3_REJECT", "DISCONNECT_B3_REQ", "DISCONNECT_B3_RESP"}

Moved(l, n, p) == n.d = l.d \/ \E e : Moves(l.d[p], e) /\ n.d = [l.d EXCEPT ![p] = e]
Grown(l, n, p) ==
  n.up = l.up \/ \E m : Neutral(m) /\ n.up = [l.up EXCEPT ![p] = Append(l.up[p], m)]

LEMMA NeutralConf ==
  ASSUME NEW cmd \in {"DISCONNECT_CONF", "CONNECT_B3_CONF", "DISCONNECT_B3_CONF"},
         NEW ok, NEW id
  PROVE  Neutral(Msg(cmd, ok, id))
  BY DEF Neutral, Begins, Finishes, Commands, Msg

LEMMA ConfSent ==
  ASSUME NEW l, NEW k, IsLine(k), NEW p, Moved(l, k, p), k.up = l.up,
         NEW m, Neutral(m), NEW n, n = Up(k, p, m)
  PROVE  IsLine(n) /\ Moved(l, n, p) /\ Grown(l, n, p)
<1>1. IsLine(n) /\ n.d = k.d /\ n.up = [k.up EXCEPT ![p] = Append(k.up[p], m)]
  BY DEF IsLine, Up
<1>. QED BY <1>1 DEF Moved, Grown

LEMMA TakeEffect ==
  ASSUME NEW l, IsLine(l), NEW p, p # 0, NEW id, NEW cmd \in Requests,
         NEW n \in Take(l, cmd, p, id)
  PROVE  IsLine(n) /\ Moved(l, n, p) /\ Grown(l, n, p)
<1>0. IsLine(l) /\ Moved(l, l, p) /\ Grown(l, l, p)
  BY DEF Moved, Grown
<1>1. CASE cmd \in {"CONNECT_RESP", "CONNECT_REJECT"}
  <2>1. CASE n = l
    BY <1>0, <2>1
  <2>2. CASE n # l
    <3>1. PICK e : e \in {"in_acc", "clear"} /\ n = [l EXCEPT !.d[p] = e] /\ l.d[p] = "in"
      BY <1>1, <2>2 DEF Take
    <3>2. Moves(l.d[p], e)
      BY <3>1 DEF Moves, Incoming
    <3>3. IsLine(n) /\ n.d = [l.d EXCEPT ![p] = e] /\ n.up = l.up
      BY <3>1 DEF IsLine
    <3>. QED BY <3>2, <3>3 DEF Moved, Grown
  <2>. QED BY <2>1, <2>2
<1>2. CASE cmd = "ALERT_REQ"
  <2>1. n = l
    BY <1>2 DEF Take
  <2>. QED BY <1>0, <2>1
<1>3. CASE cmd = "DISCONNECT_REQ"
  <2>1. CASE l.d[p] \in Outgoing \cup Incoming
    <3>1. PICK k : k = [l EXCEPT !.d[p] = "clear"]
      OBVIOUS
    <3>2. PICK m : m = Msg("DISCONNECT_CONF", TRUE, 0)
      OBVIOUS
    <3>3. n = Up(k, p, m)
      BY <1>3, <2>1, <3>1, <3>2 DEF Take, Conf
    <3>4. Moves(l.d[p], "clear")
      BY <2>1 DEF Moves
    <3>5. IsLine(k) /\ k.d = [l.d EXCEPT ![p] = "clear"] /\ k.up = l.up
      BY <3>1 DEF IsLine
    <3>6. Moved(l, k, p) /\ Neutral(m)
      BY <3>2, <3>4, <3>5, NeutralConf DEF Moved
    <3>. QED BY <3>3, <3>5, <3>6, ConfSent
  <2>2. CASE l.d[p] \notin Outgoing \cup Incoming
    <3>1. PICK m : m = Msg("DISCONNECT_CONF", FALSE, 0)
      OBVIOUS
    <3>2. n = Up(l, p, m)
      BY <1>3, <2>2, <3>1 DEF Take, Conf
    <3>3. Neutral(m)
      BY <3>1, NeutralConf
    <3>. QED BY <1>0, <3>2, <3>3, ConfSent
  <2>. QED BY <2>1, <2>2
<1>4. CASE cmd \in {"CONNECT_B3_REQ", "DISCONNECT_B3_REQ"}
  <2>1. PICK c : /\ c \in {"CONNECT_B3_CONF", "DISCONNECT_B3_CONF"}
                 /\ \/ n = Up(l, p, Msg(c, FALSE, 0))
                    \/ n = Up([l EXCEPT !.b[p] = "alloc"], p, Msg(c, TRUE, 0))
                    \/ n = Up([l EXCEPT !.b[p] = "clear"], p, Msg(c, TRUE, 0))
    BY <1>4 DEF Take, Conf
  <2>2. PICK a : a = [l EXCEPT !.b[p] = "alloc"]
    OBVIOUS
  <2>3. PICK z : z = [l EXCEPT !.b[p] = "clear"]
    OBVIOUS
  <2>4. /\ IsLine(a) /\ Moved(l, a, p) /\ a.up = l.up
        /\ IsLine(z) /\ Moved(l, z, p) /\ z.up = l.up
    BY <2>2, <2>3 DEF IsLine, Moved
  <2>5. Neutral(Msg(c, FALSE, 0)) /\ Neutral(Msg(c, TRUE, 0))
    BY <2>1, NeutralConf
  <2>6. CASE n = Up(l, p, Msg(c, FALSE, 0))
    BY <1>0, <2>5, <2>6, ConfSent
  <2>7. CASE n = Up(a, p, Msg(c, TRUE, 0))
    BY <2>4, <2>5, <2>7, ConfSent
  <2>8. CASE n = Up(z, p, Msg(c, TRUE, 0))
    BY <2>4, <2>5, <2>8, ConfSent
  <2>. QED BY <2>1, <2>2, <2>3, <2>6, <2>7, <2>8
<1>5. CASE cmd \in {"CONNECT_B3_RESP", "CONNECT_B3_REJECT"}
  <2>1. n = l \/ \E e : n = [l EXCEPT !.b[p] = e]
    BY <1>5 DEF Take
  <2>2. IsLine(n) /\ n.d = l.d /\ n.up = l.up
    BY <2>1 DEF IsLine
  <2>. QED BY <2>2 DEF Moved, Grown
<1>6. CASE cmd = "DISCONNECT_B3_RESP"
  <2>1. n = l \/ n = [l EXCEPT !.b[p] = "none", !.data[p] = <<>>]
    BY <1>6 DEF Take
  <2>2. IsLine(n) /\ n.d = l.d /\ n.up = l.up
    BY <2>1 DEF IsLine
  <2>. QED BY <2>2 DEF Moved, Grown
<1>. QED BY <1>1, <1>2, <1>3, <1>4, <1>5, <1>6 DEF Requests

-------------------------------------------------------------------------------
(* Messages that are sent. *)

Fits(t, n) ==
  IsLine(n) /\ Agree(t.k.plcip, t.k.plci_list, t.k.incoming, t.k.told, n.d, n.up)

LEMMA LineSet ==
  ASSUME NEW s, Sound(s), NEW n, Fits(s, n), NEW u, u = [s EXCEPT !.l = n]
  PROVE  Sound(u) /\ u.k = s.k /\ u.l = n
<1>1. u = [k |-> u.k, l |-> u.l] /\ u.k = s.k /\ u.l = n
  BY DEF Sound, Shape
<1>. QED BY <1>1 DEF Sound, Shape, Fits

LEMMA SendCases ==
  ASSUME NEW s, Sound(s), NEW cmd, NEW p, NEW id, NEW u \in send_message(s, cmd, p, id)
  PROVE  \E n : u = [s EXCEPT !.l = n] /\ (n \in Take(s.l, cmd, p, id) \/ Fits(s, n))
<1>1. PICK n : /\ u = [s EXCEPT !.l = n]
               /\ n \in Take(s.l, cmd, p, id) \/ n = [s.l EXCEPT !.lost = TRUE]
  BY DEF send_message, Accepted, Refused
<1>2. ASSUME n = [s.l EXCEPT !.lost = TRUE] PROVE Fits(s, n)
  <2>1. PICK yes : yes = TRUE
    OBVIOUS
  <2>2. IsLine(n) /\ n.d = s.l.d /\ n.up = s.l.up
    <3>1. n = [s.l EXCEPT !.lost = yes]
      BY <1>2, <2>1
    <3>2. IsLine(s.l)
      BY DEF Sound, Shape
    <3>. QED BY <3>1, <3>2 DEF IsLine
  <2>3. Fits(s, n)
    BY <2>2 DEF Fits, Sound
  <2>. QED BY <2>3
<1>3. n \in Take(s.l, cmd, p, id) \/ Fits(s, n)
  BY <1>1, <1>2
<1>. QED BY <1>1, <1>3

LEMMA MovedSound ==
  ASSUME NEW s, Sound(s), NEW p \in Plci, NEW n, IsLine(n), Moved(s.l, n, p), Grown(s.l, n, p)
  PROVE  Fits(s, n)
<1>1. PICK P, L, I, T, D, U : /\ P = s.k.plcip /\ L = s.k.plci_list /\ I = s.k.incoming
                              /\ T = s.k.told /\ D = s.l.d /\ U = s.l.up
  OBVIOUS
<1>2. Agree(P, L, I, T, D, U)
  BY <1>1 DEF Sound
<1>3. Agree(P, L, I, T, n.d, U)
  <2>1. CASE n.d = D
    BY <1>2, <2>1
  <2>2. CASE n.d # D
    <3>1. PICK e : Moves(D[p], e) /\ n.d = [D EXCEPT ![p] = e]
      BY <1>1, <2>2 DEF Moved
    <3>. QED BY <1>2, <3>1, LineMoves
  <2>. QED BY <2>1, <2>2
<1>4. Agree(P, L, I, T, n.d, n.up)
  <2>1. CASE n.up = U
    BY <1>3, <2>1
  <2>2. CASE n.up # U
    <3>1. PICK m : Neutral(m) /\ n.up = [U EXCEPT ![p] = Append(U[p], m)]
      BY <1>1, <2>2 DEF Grown
    <3>. QED BY <1>3, <3>1, LineGrows
  <2>. QED BY <2>1, <2>2
<1>. QED BY <1>1, <1>4 DEF Fits

LEMMA SendSound ==
  ASSUME NEW s, Sound(s), NEW cmd \in Requests, NEW p \in Plci, NEW id,
         NEW u \in send_message(s, cmd, p, id)
  PROVE  Sound(u) /\ u.k = s.k
<1>1. PICK n : u = [s EXCEPT !.l = n] /\ (n \in Take(s.l, cmd, p, id) \/ Fits(s, n))
  BY SendCases
<1>2. IsLine(s.l) /\ p # 0
  BY DrvAssumption DEF Sound, Shape
<1>3. Fits(s, n)
  BY <1>1, <1>2, TakeEffect, MovedSound
<1>. QED BY <1>1, <1>3, LineSet

(* DISCONNECT_B3_REQ of an NCCI whose PLCI may be gone.                    *)
LEMMA SendToOrphan ==
  ASSUME NEW s, Sound(s), NEW p, NEW u \in send_message(s, "DISCONNECT_B3_REQ", p, 0)
  PROVE  Sound(u) /\ u.k = s.k
<1>1. PICK n : /\ u = [s EXCEPT !.l = n]
               /\ n \in Take(s.l, "DISCONNECT_B3_REQ", p, 0) \/ Fits(s, n)
  BY SendCases
<1>2. Fits(s, s.l) /\ IsLine(s.l)
  BY DEF Sound, Shape, Fits
<1>3. CASE p = 0
  <2>1. n = s.l \/ Fits(s, n)
    BY <1>1, <1>3 DEF Take
  <2>. QED BY <1>1, <1>2, <2>1, LineSet
<1>4. CASE p \in Plci
  BY <1>4, SendSound DEF Requests
<1>5. CASE p # 0 /\ p \notin Plci /\ ~Fits(s, n)
  <2>1. IsLine(n) /\ Moved(s.l, n, p) /\ Grown(s.l, n, p)
    BY <1>1, <1>2, <1>5, TakeEffect DEF Requests
  <2>2. s.l.d \in [Plci -> DStates] /\ s.l.up = [q \in Plci \cup {0} |-> s.l.up[q]]
    BY DEF Sound, Agree, Lines
  <2>3. n.d = s.l.d
    BY <1>5, <2>1, <2>2 DEF Moved
  <2>4. n.up = s.l.up
    <3>1. PICK U : U = s.l.up
      OBVIOUS
    <3>2. \A x : [U EXCEPT ![p] = x] = U
      BY <1>5, <2>2, <3>1
    <3>. QED BY <2>1, <3>1, <3>2 DEF Grown
  <2>5. Fits(s, n)
    BY <2>1, <2>3, <2>4 DEF Fits, Sound
  <2>. QED BY <1>5, <2>5
<1>. QED BY <1>1, <1>3, <1>4, <1>5, LineSet

LEMMA TakeListen ==
  ASSUME NEW s, Sound(s), NEW n \in Take(s.l, "LISTEN_REQ", 0, 0)
  PROVE  Fits(s, n)
<1>1. PICK k, m : n = Up(k, 0, m) /\ m.cmd = "LISTEN_CONF" /\ IsLine(k) /\ k.d = s.l.d /\ k.up = s.l.up
  <2>1. IsLine(s.l)
    BY DEF Sound, Shape
  <2>2. PICK k : k = [s.l EXCEPT !.listening = TRUE]
    OBVIOUS
  <2>3. IsLine(k) /\ k.d = s.l.d /\ k.up = s.l.up
    <3>1. PICK yes : yes = TRUE
      OBVIOUS
    <3>2. k = [s.l EXCEPT !.listening = yes]
      BY <2>2, <3>1
    <3>. QED BY <2>1, <3>2 DEF IsLine
  <2>4. \/ n = Up(k, 0, Msg("LISTEN_CONF", TRUE, 0))
        \/ n = Up(s.l, 0, Msg("LISTEN_CONF", FALSE, 0))
    BY <2>2 DEF Take, Conf
  <2>5. /\ Msg("LISTEN_CONF", TRUE, 0).cmd = "LISTEN_CONF"
        /\ Msg("LISTEN_CONF", FALSE, 0).cmd = "LISTEN_CONF"
    BY DEF Msg
  <2>. QED BY <2>1, <2>3, <2>4, <2>5
<1>2. IsLine(n) /\ n.d = s.l.d /\ n.up = [s.l.up EXCEPT ![0] = Append(s.l.up[0], m)]
  BY <1>1 DEF IsLine, Up
<1>. QED BY <1>1, <1>2, ZeroGrows DEF Fits, Sound

LEMMA SendListen ==
  ASSUME NEW s, Sound(s), NEW u \in send_message(s, "LISTEN_REQ", 0, 0)
  PROVE  Sound(u) /\ u.k = s.k
<1>1. PICK n : u = [s EXCEPT !.l = n] /\ (n \in Take(s.l, "LISTEN_REQ", 0, 0) \/ Fits(s, n))
  BY SendCases
<1>. QED BY <1>1, TakeListen, LineSet

(* CONNECT_REQ of the structure that waits for the answer to id.           *)
LEMMA SendConnect ==
  ASSUME NEW s, Sound(s), NEW id \in Msgids,
         Waits(s.k.plcip, s.k.plci_list, id), ~Pending(s.l.up, id),
         NEW u \in send_message(s, "CONNECT_REQ", 0, id)
  PROVE  Sound(u) /\ u.k = s.k
<1>1. PICK n : u = [s EXCEPT !.l = n] /\ (n \in Take(s.l, "CONNECT_REQ", 0, id) \/ Fits(s, n))
  BY SendCases
<1>2. IsLine(s.l)
  BY DEF Sound, Shape
<1>3. CASE n = Conf(s.l, 0, "CONNECT_CONF", FALSE, id)
  <2>1. PICK m : m = Msg("CONNECT_CONF", FALSE, id)
    OBVIOUS
  <2>2. m.cmd = "CONNECT_CONF" /\ ~m.ok /\ m.id = id
    BY <2>1 DEF Msg
  <2>3. IsLine(n) /\ n.d = s.l.d /\ n.up = [s.l.up EXCEPT ![0] = Append(s.l.up[0], m)]
    BY <1>2, <1>3, <2>1 DEF IsLine, Conf, Up
  <2>4. Fits(s, n)
    BY <2>2, <2>3, ZeroGrows DEF Fits, Sound
  <2>. QED BY <1>1, <2>4, LineSet
<1>4. CASE \E q \in Plci : s.l.d[q] = "idle" /\ n = Conf([s.l EXCEPT !.d[q] = "out"], q, "CONNECT_CONF", TRUE, id)
  <2>1. PICK q \in Plci : s.l.d[q] = "idle" /\ n = Conf([s.l EXCEPT !.d[q] = "out"], q, "CONNECT_CONF", TRUE, id)
    BY <1>4
  <2>2. PICK m : m = Msg("CONNECT_CONF", TRUE, id)
    OBVIOUS
  <2>3. m.cmd = "CONNECT_CONF" /\ m.ok /\ m.id = id
    BY <2>2 DEF Msg
  <2>4. PICK k : k = [s.l EXCEPT !.d[q] = "out"]
    OBVIOUS
  <2>5. IsLine(k) /\ k.d = [s.l.d EXCEPT ![q] = "out"] /\ k.up = s.l.up
    BY <1>2, <2>4 DEF IsLine
  <2>6. n = Up(k, q, m)
    BY <2>1, <2>2, <2>4 DEF Conf
  <2>7. IsLine(n) /\ n.d = k.d /\ n.up = [k.up EXCEPT ![q] = Append(k.up[q], m)]
    BY <2>5, <2>6 DEF IsLine, Up
  <2>8. Agree(s.k.plcip, s.k.plci_list, s.k.incoming, s.k.told, s.l.d, s.l.up)
    BY DEF Sound
  <2>9. Agree(s.k.plcip, s.k.plci_list, s.k.incoming, s.k.told, n.d, n.up)
    <3>1. PICK P, L, I, T, D, U : /\ P = s.k.plcip /\ L = s.k.plci_list /\ I = s.k.incoming
                                  /\ T = s.k.told /\ D = s.l.d /\ U = s.l.up
      OBVIOUS
    <3>2. PICK e : e = "out"
      OBVIOUS
    <3>3. PICK E, V : E = n.d /\ V = n.up
      OBVIOUS
    <3>4. E = [D EXCEPT ![q] = e] /\ V = [U EXCEPT ![q] = Append(U[q], m)] /\ D[q] = "idle"
      BY <2>1, <2>5, <2>7, <3>1, <3>2, <3>3
    <3>5. Starts(P, L, U, m, e)
      BY <2>3, <3>1, <3>2 DEF Starts
    <3>6. Agree(P, L, I, T, D, U)
      BY <2>8, <3>1
    <3>7. Agree(P, L, I, T, E, V)
      BY <3>4, <3>5, <3>6, LineBegins
    <3>. QED BY <3>1, <3>3, <3>7
  <2>10. Fits(s, n)
    BY <2>7, <2>9 DEF Fits
  <2>. QED BY <1>1, <2>10, LineSet
<1>5. n \in Take(s.l, "CONNECT_REQ", 0, id) =>
        \/ n = Conf(s.l, 0, "CONNECT_CONF", FALSE, id)
        \/ \E q \in Plci : s.l.d[q] = "idle" /\ n = Conf([s.l EXCEPT !.d[q] = "out"], q, "CONNECT_CONF", TRUE, id)
  BY DEF Take
<1>. QED BY <1>1, <1>3, <1>4, <1>5, LineSet

(* DISCONNECT_RESP of a connection that no structure has.                  *)
LEMMA SendReset ==
  ASSUME NEW s, Sound(s), NEW p \in Plci, \A c : ~Owns(s.k.plcip, c, p),
         ~HasBegin(s.l.up[p]), ~HasEnd(s.l.up[p]),
         NEW u \in send_message(s, "DISCONNECT_RESP", p, 0)
  PROVE  Sound(u) /\ u.k = s.k
<1>1. PICK n : u = [s EXCEPT !.l = n] /\ (n \in Take(s.l, "DISCONNECT_RESP", p, 0) \/ Fits(s, n))
  BY SendCases
<1>2. IsLine(s.l) /\ Fits(s, s.l)
  BY DEF Sound, Shape, Fits
<1>3. CASE n = [s.l EXCEPT !.d[p] = "idle", !.b[p] = "none", !.data[p] = <<>>]
  <2>1. IsLine(n) /\ n.d = [s.l.d EXCEPT ![p] = "idle"] /\ n.up = s.l.up
    BY <1>2, <1>3 DEF IsLine
  <2>2. Fits(s, n)
    BY <2>1, LineReset DEF Fits, Sound
  <2>. QED BY <1>1, <2>2, LineSet
<1>4. n \in Take(s.l, "DISCONNECT_RESP", p, 0) =>
        n = s.l \/ n = [s.l EXCEPT !.d[p] = "idle", !.b[p] = "none", !.data[p] = <<>>]
  BY DEF Take
<1>. QED BY <1>1, <1>2, <1>3, <1>4, LineSet

-------------------------------------------------------------------------------
(* The structures that messages are for. *)

LEMMA FirstFound ==
  ASSUME NEW list \in Seq(Chan), NEW found, NEW c, c = FirstOf(list, found)
  PROVE  \/ c = Null /\ \A i \in 1 .. Len(list) : list[i] \notin found
         \/ \E i \in 1 .. Len(list) : /\ c = list[i] /\ c \in found /\ c \in Chan
                                      /\ \A j \in 1 .. i - 1 : list[j] \notin found
<1>1. PICK hits : hits = {i \in 1 .. Len(list) : list[i] \in found}
  OBVIOUS
<1>2. DOMAIN list = 1 .. Len(list) /\ Len(list) \in Nat
  OBVIOUS
<1>3. c = IF hits = {} THEN Null ELSE list[CHOOSE i \in hits : \A j \in hits : i <= j]
  BY <1>1, <1>2 DEF FirstOf
<1>4. CASE hits = {}
  BY <1>1, <1>3, <1>4
<1>5. CASE hits # {}
  <2>1. hits \in SUBSET Nat
    BY <1>1
  <2>2. \E i \in hits : \A j \in hits : i <= j
    BY <1>5, <2>1, LeastExists
  <2>3. PICK i : i = CHOOSE x \in hits : \A j \in hits : x <= j
    OBVIOUS
  <2>4. i \in hits /\ \A j \in hits : i <= j
    BY <2>2, <2>3
  <2>5. c = list[i] /\ i \in 1 .. Len(list) /\ list[i] \in found
    BY <1>1, <1>3, <1>5, <2>3, <2>4
  <2>6. c \in Chan
    BY <2>5
  <2>7. ASSUME NEW j \in 1 .. i - 1 PROVE list[j] \notin found
    <3>1. j \in 1 .. Len(list) /\ ~(i <= j)
      BY <1>2, <2>5
    <3>. QED BY <1>1, <2>4, <3>1
  <2>. QED BY <2>5, <2>6, <2>7
<1>. QED BY <1>4, <1>5

LEMMA FoundByPlci ==
  ASSUME NEW s, Sound(s), NEW p \in Plci, NEW c, c = find_plci_by_plci(s.k, p)
  PROVE  (c = Null /\ \A y : ~Owns(s.k.plcip, y, p)) \/ (c # Null /\ Owns(s.k.plcip, c, p))
<1>1. PICK P, L : P = s.k.plcip /\ L = s.k.plci_list
  OBVIOUS
<1>2. L \in Seq(Chan) /\ \A y \in Chan : P[y] # Null <=> \E i \in 1 .. Len(L) : L[i] = y
  BY <1>1 DEF Sound, Agree, Structures
<1>3. PICK found : found = {y \in Chan : P[y] # Null /\ P[y].plci = p}
  OBVIOUS
<1>4. found = {y \in Calls(s.k) : s.k.plcip[y].plci = p}
  BY <1>1, <1>3 DEF Calls
<1>5. c = FirstOf(L, found)
  BY <1>1, <1>4 DEF find_plci_by_plci
<1>6. \A y : y \in found <=> Owns(P, y, p)
  BY <1>3 DEF Owns
<1>7. \A y : Owns(P, y, p) => \E i \in 1 .. Len(L) : L[i] = y
  BY <1>2 DEF Owns
<1>8. \/ c = Null /\ \A i \in 1 .. Len(L) : L[i] \notin found
      \/ c \in found /\ c \in Chan
  BY <1>2, <1>5, FirstFound
<1>9. CASE c = Null /\ \A i \in 1 .. Len(L) : L[i] \notin found
  BY <1>1, <1>6, <1>7, <1>9
<1>10. CASE c \in found /\ c \in Chan
  BY <1>1, <1>6, <1>10, DrvAssumption
<1>. QED BY <1>8, <1>9, <1>10

LEMMA FoundByMsgid ==
  ASSUME NEW s, Sound(s), NEW id, Waits(s.k.plcip, s.k.plci_list, id),
         NEW c, c = find_plci_by_msgid(s.k, id)
  PROVE  /\ c # Null /\ c \in Chan /\ s.k.plcip[c] # Null
         /\ s.k.plcip[c].msgid = id /\ s.k.plcip[c].state = "OUTGOING"
<1>1. PICK P, L : P = s.k.plcip /\ L = s.k.plci_list
  OBVIOUS
<1>2. L \in Seq(Chan) /\ \A y \in Chan : P[y] # Null <=> \E i \in 1 .. Len(L) : L[i] = y
  BY <1>1 DEF Sound, Agree, Structures
<1>3. PICK found : found = {y \in Chan : P[y] # Null /\ P[y].msgid = id}
  OBVIOUS
<1>4. found = {y \in Calls(s.k) : s.k.plcip[y].msgid = id}
  BY <1>1, <1>3 DEF Calls
<1>5. c = FirstOf(L, found)
  BY <1>1, <1>4 DEF find_plci_by_msgid
<1>6. PICK n \in 1 .. Len(L) : /\ P[L[n]].msgid = id /\ P[L[n]].state = "OUTGOING"
                               /\ \A j \in 1 .. n - 1 : P[L[j]].msgid # id
  BY <1>1 DEF Waits
<1>7. L[n] \in Chan /\ P[L[n]] # Null /\ L[n] \in found
  BY <1>2, <1>3, <1>6
<1>8. PICK i \in 1 .. Len(L) : /\ c = L[i] /\ c \in found /\ c \in Chan
                               /\ \A j \in 1 .. i - 1 : L[j] \notin found
  BY <1>2, <1>5, <1>7, FirstFound
<1>9. ~(n < i) /\ ~(i < n)
  <2>1. i \in Nat /\ n \in Nat /\ i # 0 /\ n # 0
    BY <1>2
  <2>2. n < i => n \in 1 .. i - 1
    BY <2>1
  <2>3. i < n => i \in 1 .. n - 1
    BY <2>1
  <2>. QED BY <1>3, <1>6, <1>7, <1>8, <2>2, <2>3
<1>10. i = n
  BY <1>2, <1>9
<1>. QED BY <1>1, <1>6, <1>7, <1>8, <1>10, DrvAssumption

-------------------------------------------------------------------------------
(* A call through a handler: channel c has connection p. *)

OnCall(t, c, p, I) == Sound(t) /\ Owns(t.k.plcip, c, p) /\ t.k.incoming = I

LEMMA CallKept ==
  ASSUME NEW t, NEW u, NEW c, NEW p, NEW I, OnCall(t, c, p, I), Kept(t, u)
  PROVE  OnCall(u, c, p, I)
<1>1. Sound(u)
  BY KeptSound DEF OnCall
<1>. QED BY <1>1 DEF OnCall, Kept

LEMMA CallSends ==
  ASSUME NEW t, NEW c, NEW p, NEW I, OnCall(t, c, p, I),
         NEW cmd \in Requests, NEW id, NEW u \in send_message(t, cmd, p, id)
  PROVE  OnCall(u, c, p, I)
<1>1. Sound(t) /\ p \in Plci
  BY DEF OnCall, Owns
<1>2. Sound(u) /\ u.k = t.k
  BY <1>1, SendSound
<1>. QED BY <1>2 DEF OnCall

LEMMA TellSound ==
  ASSUME NEW s, Sound(s), NEW c \in Chan, NEW what, what # "ringing",
         NEW u, u = Tell(s, c, what)
  PROVE  /\ Sound(u) /\ u.l = s.l /\ u.k.plcip = s.k.plcip
         /\ u.k.incoming = s.k.incoming /\ u.k.plci_list = s.k.plci_list
         /\ u.k.told[c] # "ringing"
<1>1. Shape(s) /\ DOMAIN s.k.told = Chan
  BY DEF Sound, Agree, Structures
<1>2. /\ Shape(u) /\ u.l = s.l
      /\ u.k.plcip = s.k.plcip /\ u.k.plci_list = s.k.plci_list
      /\ u.k.incoming = s.k.incoming
      /\ DOMAIN u.k.told = Chan /\ u.k.told[c] \in {what, "discarded"}
      /\ \A y \in Chan : y # c => u.k.told[y] = s.k.told[y]
  BY <1>1, TellEffect
<1>3. \A y \in Chan : u.k.told[y] = "ringing" => s.k.told[y] = "ringing"
  BY <1>2
<1>4. Agree(s.k.plcip, s.k.plci_list, s.k.incoming, u.k.told, s.l.d, s.l.up)
  BY <1>2, <1>3, ToldChanged DEF Sound
<1>. QED BY <1>2, <1>4 DEF Sound

LEMMA CallTells ==
  ASSUME NEW t, NEW c, NEW p, NEW I, OnCall(t, c, p, I), NEW what, what # "ringing"
  PROVE  OnCall(Tell(t, c, what), c, p, I)
<1>1. PICK u : u = Tell(t, c, what)
  OBVIOUS
<1>2. c \in Chan /\ Sound(t)
  BY DEF OnCall, Owns
<1>3. Sound(u) /\ u.k.plcip = t.k.plcip /\ u.k.incoming = t.k.incoming
  BY <1>1, <1>2, TellSound
<1>. QED BY <1>1, <1>3 DEF OnCall

(* The events of a call that has a connection and keeps it. *)
CallEvents ==
  {"CONNECT_ACTIVE_IND", "DISCONNECT_REQ", "CONNECT_REJECT", "CONNECT_RESP", "DISCONNECT_IND"}

LEMMA TableKeepsCall ==
  ASSUME NEW t \in plcitable, t[2] \in CallEvents
  PROVE  t[3] \in CallStates /\ t[3] # "OUTGOING" /\ t[3] # "NONE"
  BY DEF plcitable, CallEvents, CallStates, PlciStates, InCall

LEMMA StructRecords ==
  ASSUME NEW x \in Plcis, NEW n \in CallStates, NEW y, y = [x EXCEPT !.state = n]
  PROVE  y \in Plcis /\ y.plci = x.plci /\ y.msgid = x.msgid /\ y.state = n
  BY DEF Plcis

LEMMA CallSteps ==
  ASSUME NEW t, NEW c, NEW p, NEW I, OnCall(t, c, p, I), NEW event \in CallEvents
  PROVE  OnCall(plci_change_state(t, c, event), c, p, I)
<1>1. PICK x : x = t.k.plcip[c]
  OBVIOUS
<1>2. c \in Chan /\ p \in Plci /\ x # Null /\ x.plci = p /\ Sound(t)
  BY <1>1 DEF OnCall, Owns
<1>3. PICK next : next = {r[3] : r \in {r \in plcitable : r[1] = x.state /\ r[2] = event}}
  OBVIOUS
<1>4. \A n \in next : n \in CallStates /\ n # "OUTGOING" /\ n # "NONE"
  BY <1>3, TableKeepsCall
<1>5. CASE next = {}
  <2>1. plci_change_state(t, c, event) = t
    BY <1>1, <1>3, <1>5 DEF plci_change_state
  <2>. QED BY <2>1
<1>6. CASE next # {}
  <2>1. PICK n : n = CHOOSE m \in next : TRUE
    OBVIOUS
  <2>2. n \in next
    BY <1>6, <2>1
  <2>3. PICK u : u = [t EXCEPT !.k.plcip[c].state = n]
    OBVIOUS
  <2>4. plci_change_state(t, c, event) = u
    BY <1>1, <1>3, <1>4, <1>6, <2>1, <2>3 DEF plci_change_state
  <2>5. /\ Shape(u) /\ u.l = t.l
        /\ u.k.plcip = [t.k.plcip EXCEPT ![c] = [t.k.plcip[c] EXCEPT !.state = n]]
        /\ u.k.plci_list = t.k.plci_list /\ u.k.incoming = t.k.incoming
        /\ u.k.told = t.k.told
    <3>1. Shape(t)
      BY <1>2 DEF Sound
    <3>. QED BY <2>3, <3>1 DEF Shape, IsCard
  <2>6. Agree(t.k.plcip, t.k.plci_list, t.k.incoming, t.k.told, t.l.d, t.l.up)
    BY <1>2 DEF Sound
  <2>7. t.k.plcip \in [Chan -> Plcis \cup {Null}] /\ x \in Plcis /\ x.state # "OUTGOING"
    BY <1>1, <1>2, <2>6, DrvAssumption DEF Agree, Structures
  <2>8. PICK y : y = [x EXCEPT !.state = n]
    OBVIOUS
  <2>9. n \in CallStates /\ n # "OUTGOING"
    BY <1>4, <2>2
  <2>10. y \in Plcis /\ y.plci = x.plci /\ y.msgid = x.msgid /\ y.state = n
    BY <2>7, <2>8, <2>9, StructRecords
  <2>11. u.k.plcip = [t.k.plcip EXCEPT ![c] = y]
    BY <1>1, <2>5, <2>8
  <2>12. Agree(u.k.plcip, t.k.plci_list, t.k.incoming, t.k.told, t.l.d, t.l.up)
    BY <1>1, <1>2, <2>6, <2>7, <2>9, <2>10, <2>11, StructChanged
  <2>13. Sound(u)
    BY <2>5, <2>12 DEF Sound
  <2>14. Owns(u.k.plcip, c, p)
    BY <1>2, <2>7, <2>10, <2>11, NotNull DEF Owns
  <2>. QED BY <2>4, <2>5, <2>13, <2>14 DEF OnCall
<1>. QED BY <1>5, <1>6

LEMMA CallB3Ends ==
  ASSUME NEW t, NEW c, NEW p, NEW I, OnCall(t, c, p, I), NEW u \in n0(t, c)
  PROVE  OnCall(u, c, p, I)
<1>1. t.k.plcip[c].plci = p
  BY DEF OnCall, Owns
<1>2. PICK v \in send_message(t, "DISCONNECT_REQ", p, 0) :
        u = free_ncci(Tell(plci_change_state(v, c, "DISCONNECT_REQ"), c, "connected"), c)
  BY <1>1 DEF n0
<1>3. OnCall(v, c, p, I)
  BY CallSends DEF Requests
<1>4. PICK w : w = plci_change_state(v, c, "DISCONNECT_REQ")
  OBVIOUS
<1>5. OnCall(w, c, p, I)
  BY <1>3, <1>4, CallSteps DEF CallEvents
<1>6. PICK z : z = Tell(w, c, "connected")
  OBVIOUS
<1>7. OnCall(z, c, p, I)
  BY <1>5, <1>6, CallTells
<1>8. Kept(z, free_ncci(z, c))
  BY <1>7, QuietOps DEF OnCall, Sound
<1>. QED BY <1>2, <1>4, <1>6, <1>7, <1>8, CallKept

LEMMA NcciCases ==
  ASSUME NEW t, Sound(t), NEW c, NEW event, NEW u \in ncci_change_state(t, c, event)
  PROVE  Kept(t, u) \/ (u \in n0(t, c) /\ event # "DISCONNECT_B3_REQ")
<1>1. PICK n : n = t.k.nccip[c]
  OBVIOUS
<1>2. PICK next : next = {r[3] : r \in {r \in nccitable : r[1] = n.state /\ r[2] = event}}
  OBVIOUS
<1>3. \/ u = t
      \/ "NONE" \in next /\ u \in n0(t, c)
      \/ \E m : u = [t EXCEPT !.k.nccip[c].state = m, !.k.nccip[c].oldstate = n.state]
  BY <1>1, <1>2 DEF ncci_change_state
<1>4. \A r \in nccitable : r[3] = "NONE" => r[2] # "DISCONNECT_B3_REQ"
  BY DEF nccitable, Linked
<1>5. "NONE" \in next => event # "DISCONNECT_B3_REQ"
  BY <1>2, <1>4
<1>6. Shape(t)
  BY DEF Sound
<1>7. CASE u = t
  BY <1>6, <1>7, QuietOps
<1>8. CASE \E m : u = [t EXCEPT !.k.nccip[c].state = m, !.k.nccip[c].oldstate = n.state]
  <2>1. PICK m, o : u = [t EXCEPT !.k.nccip[c].state = m, !.k.nccip[c].oldstate = o]
    BY <1>8
  <2>2. \A a, b : Kept(t, [t EXCEPT !.k.nccip[c].state = a, !.k.nccip[c].oldstate = b])
    BY <1>6, QuietOps
  <2>. QED BY <2>1, <2>2
<1>. QED BY <1>3, <1>5, <1>7, <1>8

LEMMA CallNccis ==
  ASSUME NEW t, NEW c, NEW p, NEW I, OnCall(t, c, p, I), NEW event,
         NEW u \in ncci_change_state(t, c, event)
  PROVE  OnCall(u, c, p, I)
<1>1. Kept(t, u) \/ u \in n0(t, c)
  BY NcciCases DEF OnCall
<1>. QED BY <1>1, CallKept, CallB3Ends

-------------------------------------------------------------------------------
(* The handlers of messages of a connection. *)

LEMMA CallStart ==
  ASSUME NEW s, Sound(s), NEW p \in Plci, NEW c, c = find_plci_by_plci(s.k, p), c # Null
  PROVE  OnCall(s, c, p, s.k.incoming)
  BY FoundByPlci DEF OnCall

LEMMA NcciStart ==
  ASSUME NEW s, Sound(s), NEW p \in Plci, NEW c,
         c = find_ncci(s.k, p) \/ c = find_ncci_by_msgid(s.k, p), c # Null
  PROVE  OnCall(s, c, p, s.k.incoming)
<1>1. c = find_plci_by_plci(s.k, p)
  BY DEF find_ncci, find_ncci_by_msgid
<1>. QED BY <1>1, CallStart

LEMMA HandleConnectActive ==
  ASSUME NEW s, Sound(s), NEW p \in Plci, NEW u \in handle_connect_active_ind(s, p)
  PROVE  Sound(u)
<1>1. PICK c : c = find_plci_by_plci(s.k, p)
  OBVIOUS
<1>2. PICK I : I = s.k.incoming
  OBVIOUS
<1>3. CASE c = Null
  <2>1. u = s
    BY <1>1, <1>3 DEF handle_connect_active_ind
  <2>. QED BY <2>1
<1>4. CASE c # Null /\ c \in s.k.incoming
  <2>1. u = plci_change_state(s, c, "CONNECT_ACTIVE_IND")
    BY <1>1, <1>4 DEF handle_connect_active_ind
  <2>2. OnCall(s, c, p, I)
    BY <1>1, <1>2, <1>4, CallStart
  <2>. QED BY <2>1, <2>2, CallSteps DEF OnCall, CallEvents
<1>5. CASE c # Null /\ c \notin s.k.incoming /\ u # s
  <2>1. OnCall(s, c, p, I)
    BY <1>1, <1>2, <1>5, CallStart
  <2>2. PICK t : t = new_ncci(s, c, 0)
    OBVIOUS
  <2>3. PICK v \in send_message(t, "CONNECT_B3_REQ", p, 0) :
          u \in ncci_change_state(plci_change_state(Tell(v, c, "connected"), c, "CONNECT_ACTIVE_IND"),
                                  c, "CONNECT_B3_REQ")
    BY <1>1, <1>5, <2>2 DEF handle_connect_active_ind
  <2>4. Kept(s, t)
    BY <2>2, QuietOps DEF Sound
  <2>5. OnCall(t, c, p, I)
    BY <2>1, <2>4, CallKept
  <2>6. OnCall(v, c, p, I)
    BY <2>5, CallSends DEF Requests
  <2>7. PICK w : w = Tell(v, c, "connected")
    OBVIOUS
  <2>8. OnCall(w, c, p, I)
    BY <2>6, <2>7, CallTells
  <2>9. PICK z : z = plci_change_state(w, c, "CONNECT_ACTIVE_IND")
    OBVIOUS
  <2>10. OnCall(z, c, p, I)
    BY <2>8, <2>9, CallSteps DEF CallEvents
  <2>11. OnCall(u, c, p, I)
    BY <2>3, <2>7, <2>9, <2>10, CallNccis
  <2>. QED BY <2>11 DEF OnCall
<1>. QED BY <1>3, <1>4, <1>5

LEMMA HandleB3Ind ==
  ASSUME NEW s, Sound(s), NEW p \in Plci, NEW u \in handle_connect_b3_ind(s, p)
  PROVE  Sound(u)
<1>1. PICK c : c = find_plci_by_plci(s.k, p)
  OBVIOUS
<1>2. CASE u \in send_message(s, "CONNECT_B3_REJECT", p, 0)
  BY <1>2, SendSound DEF Requests
<1>3. CASE c # Null /\ u \notin send_message(s, "CONNECT_B3_REJECT", p, 0)
  <2>1. PICK I : OnCall(s, c, p, I)
    BY <1>1, <1>3, CallStart
  <2>2. PICK t : t = new_ncci(s, c, p)
    OBVIOUS
  <2>3. PICK w \in ncci_change_state(t, c, "CONNECT_B3_IND") :
          \E v \in send_message(w, "CONNECT_B3_RESP", p, 0) :
            u \in ncci_change_state(v, c, "CONNECT_B3_RESP")
    BY <1>1, <1>3, <2>2 DEF handle_connect_b3_ind
  <2>4. PICK v \in send_message(w, "CONNECT_B3_RESP", p, 0) :
          u \in ncci_change_state(v, c, "CONNECT_B3_RESP")
    BY <2>3
  <2>5. Kept(s, t)
    BY <2>2, QuietOps DEF Sound
  <2>6. OnCall(t, c, p, I)
    BY <2>1, <2>5, CallKept
  <2>7. OnCall(w, c, p, I)
    BY <2>6, CallNccis
  <2>8. OnCall(v, c, p, I)
    BY <2>7, CallSends DEF Requests
  <2>9. OnCall(u, c, p, I)
    BY <2>4, <2>8, CallNccis
  <2>. QED BY <2>9 DEF OnCall
<1>4. c = Null => u \in send_message(s, "CONNECT_B3_REJECT", p, 0)
  BY <1>1 DEF handle_connect_b3_ind
<1>. QED BY <1>2, <1>3, <1>4

LEMMA HandleB3Conf ==
  ASSUME NEW s, Sound(s), NEW p \in Plci, NEW m, NEW u \in handle_connect_b3_conf(s, p, m)
  PROVE  Sound(u)
<1>1. PICK c : c = find_ncci_by_msgid(s.k, p)
  OBVIOUS
<1>2. PICK t : t = [s EXCEPT !.k.nccip[c].ncci = p]
  OBVIOUS
<1>3. CASE c = Null
  <2>1. u = s
    BY <1>1, <1>3 DEF handle_connect_b3_conf
  <2>. QED BY <2>1
<1>4. CASE c # Null
  <2>1. PICK I : OnCall(s, c, p, I)
    BY <1>1, <1>4, NcciStart
  <2>2. Kept(s, t)
    BY <1>2, QuietOps DEF Sound
  <2>3. OnCall(t, c, p, I)
    BY <2>1, <2>2, CallKept
  <2>4. PICK event : u \in ncci_change_state(t, c, event)
    BY <1>1, <1>2, <1>4 DEF handle_connect_b3_conf
  <2>5. OnCall(u, c, p, I)
    BY <2>3, <2>4, CallNccis
  <2>. QED BY <2>5 DEF OnCall
<1>. QED BY <1>3, <1>4

LEMMA HandleB3Active ==
  ASSUME NEW s, Sound(s), NEW p \in Plci, NEW u \in handle_connect_b3_active_ind(s, p)
  PROVE  Sound(u)
<1>1. PICK c : c = find_ncci(s.k, p)
  OBVIOUS
<1>2. CASE c = Null
  <2>1. u = s
    BY <1>1, <1>2 DEF handle_connect_b3_active_ind
  <2>. QED BY <2>1
<1>3. CASE c # Null
  <2>1. PICK I : OnCall(s, c, p, I)
    BY <1>1, <1>3, NcciStart
  <2>2. PICK t \in ncci_change_state(s, c, "CONNECT_B3_ACTIVE_IND") : u = Tell(t, c, "up")
    BY <1>1, <1>3 DEF handle_connect_b3_active_ind
  <2>3. OnCall(t, c, p, I)
    BY <2>1, CallNccis
  <2>4. OnCall(u, c, p, I)
    BY <2>2, <2>3, CallTells
  <2>. QED BY <2>4 DEF OnCall
<1>. QED BY <1>2, <1>3

LEMMA HandleB3Disconnect ==
  ASSUME NEW s, Sound(s), NEW p \in Plci, NEW u \in handle_disconnect_b3_ind(s, p)
  PROVE  Sound(u)
<1>1. PICK c : c = find_ncci(s.k, p)
  OBVIOUS
<1>2. CASE c = Null
  <2>1. u = s
    BY <1>1, <1>2 DEF handle_disconnect_b3_ind
  <2>. QED BY <2>1
<1>3. CASE c # Null
  <2>1. PICK I : OnCall(s, c, p, I)
    BY <1>1, <1>3, NcciStart
  <2>2. PICK t : t = Disconnecting(s, c)
    OBVIOUS
  <2>3. PICK v \in ncci_change_state(t, c, "DISCONNECT_B3_IND") :
          \E w \in send_message(v, "DISCONNECT_B3_RESP", p, 0) :
            u \in ncci_change_state(w, c, "DISCONNECT_B3_RESP")
    BY <1>1, <1>3, <2>2 DEF handle_disconnect_b3_ind
  <2>4. PICK w \in send_message(v, "DISCONNECT_B3_RESP", p, 0) :
          u \in ncci_change_state(w, c, "DISCONNECT_B3_RESP")
    BY <2>3
  <2>5. Kept(s, t)
    BY <2>2, QuietOps DEF Sound
  <2>6. OnCall(t, c, p, I)
    BY <2>1, <2>5, CallKept
  <2>7. OnCall(v, c, p, I)
    BY <2>6, CallNccis
  <2>8. OnCall(w, c, p, I)
    BY <2>7, CallSends DEF Requests
  <2>9. OnCall(u, c, p, I)
    BY <2>4, <2>8, CallNccis
  <2>. QED BY <2>9 DEF OnCall
<1>. QED BY <1>2, <1>3

LEMMA HandleB3DisconnectConf ==
  ASSUME NEW s, Sound(s), NEW p \in Plci, NEW m,
         NEW u \in handle_disconnect_b3_conf(s, p, m)
  PROVE  Sound(u)
<1>1. PICK c : c = find_ncci(s.k, p)
  OBVIOUS
<1>2. CASE u = s
  BY <1>2
<1>3. CASE u # s
  <2>1. c # Null /\ u \in ncci_change_state(s, c, "DISCONNECT_B3_CONF_ERROR")
    BY <1>1, <1>3 DEF handle_disconnect_b3_conf
  <2>2. PICK I : OnCall(s, c, p, I)
    BY <1>1, <2>1, NcciStart
  <2>3. OnCall(u, c, p, I)
    BY <2>1, <2>2, CallNccis
  <2>. QED BY <2>3 DEF OnCall
<1>. QED BY <1>2, <1>3

LEMMA HandleQuiet ==
  ASSUME NEW s, Sound(s), NEW p, NEW m, NEW u,
         \/ u \in handle_disconnect_conf(s, p) \/ u \in handle_data_b3_conf(s, p, m)
         \/ u \in handle_listen_conf(s, m)
  PROVE  Sound(u)
<1>1. Shape(s)
  BY DEF Sound
<1>2. CASE u = s
  BY <1>2
<1>3. CASE \E c : u = Disconnecting(s, c)
  BY <1>1, <1>3, QuietOps, KeptSound
<1>4. CASE \E c, h : u = [s EXCEPT !.k.nccip[c].acks = capidrv_del_ack(@, h)]
  <2>1. PICK c, h : u = [s EXCEPT !.k.nccip[c].acks = capidrv_del_ack(@, h)]
    BY <1>4
  <2>2. Kept(s, [s EXCEPT !.k.nccip[c].acks = capidrv_del_ack(@, h)])
    BY <1>1, QuietOps
  <2>. QED BY <2>1, <2>2, KeptSound
<1>5. CASE \E e : u = [s EXCEPT !.k = listen_change_state(@, e)]
  <2>1. PICK e : u = [s EXCEPT !.k = listen_change_state(@, e)]
    BY <1>5
  <2>2. Kept(s, [s EXCEPT !.k = listen_change_state(@, e)])
    BY <1>1, QuietOps
  <2>. QED BY <2>1, <2>2, KeptSound
<1>. QED BY <1>2, <1>3, <1>4, <1>5 DEF handle_disconnect_conf, handle_data_b3_conf, handle_listen_conf

(* The queues U without the first message of p. *)
Popped(U, p) == [U EXCEPT ![p] = Tail(U[p])]

(* The message m has been taken off the queue of p, which makes t of s.    *)
TakenOff(s, t, p, m) ==
  /\ Sound(s) /\ s.l.up[p] # <<>> /\ m = Head(s.l.up[p])
  /\ t = [s EXCEPT !.l.up[p] = Tail(s.l.up[p])]

LEMMA TakenShape ==
  ASSUME NEW s, NEW t, NEW p, NEW m, TakenOff(s, t, p, m)
  PROVE  /\ Shape(t) /\ t.k = s.k /\ t.l.d = s.l.d
         /\ t.l.up = Popped(s.l.up, p)
         /\ Agree(s.k.plcip, s.k.plci_list, s.k.incoming, s.k.told, s.l.d, s.l.up)
<1>1. Shape(s)
  BY DEF TakenOff, Sound
<1>2. t.k = s.k /\ t.l = [s.l EXCEPT !.up = [s.l.up EXCEPT ![p] = Tail(s.l.up[p])]]
      /\ t = [k |-> t.k, l |-> t.l]
  BY <1>1 DEF TakenOff, Shape
<1>3. IsLine(t.l) /\ t.l.d = s.l.d /\ t.l.up = [s.l.up EXCEPT ![p] = Tail(s.l.up[p])]
  BY <1>1, <1>2 DEF Shape, IsLine
<1>4. t.l.up = Popped(s.l.up, p)
  BY <1>3 DEF Popped
<1>. QED BY <1>1, <1>2, <1>3, <1>4 DEF Shape, TakenOff, Sound

LEMMA TakenOfCall ==
  ASSUME NEW s, NEW t, NEW p \in Plci, NEW m, TakenOff(s, t, p, m)
  PROVE  /\ m.cmd \in Commands
         /\ Finishes(m) => ~HasBegin(t.l.up[p]) /\ ~HasEnd(t.l.up[p])
         /\ (Finishes(m) => \A c : ~Owns(s.k.plcip, c, p)) => Sound(t)
         /\ Begins(m) => TakenBegin(t.k.plcip, t.k.plci_list, t.l.d, t.l.up, p, m)
<1>1. PICK P, L, I, T, D, U : /\ P = s.k.plcip /\ L = s.k.plci_list /\ I = s.k.incoming
                              /\ T = s.k.told /\ D = s.l.d /\ U = s.l.up
  OBVIOUS
<1>2. PICK V : V = t.l.up
  OBVIOUS
<1>3. Agree(P, L, I, T, D, U) /\ U[p] # <<>> /\ m = Head(U[p]) /\ V = [U EXCEPT ![p] = Tail(U[p])]
  <2>1. /\ Agree(s.k.plcip, s.k.plci_list, s.k.incoming, s.k.told, s.l.d, s.l.up)
        /\ t.l.up = Popped(s.l.up, p)
    BY TakenShape
  <2>2. s.l.up[p] # <<>> /\ m = Head(s.l.up[p])
    BY DEF TakenOff
  <2>3. Agree(P, L, I, T, D, U)
    BY <1>1, <2>1
  <2>4. U = s.l.up /\ V = t.l.up
    BY <1>1, <1>2
  <2>. QED BY <2>1, <2>2, <2>3, <2>4 DEF Popped
<1>4. /\ m.cmd \in Commands
      /\ Begins(m) => TakenBegin(P, L, D, V, p, m)
      /\ Finishes(m) => ~HasBegin(V[p]) /\ ~HasEnd(V[p])
  BY <1>3, HeadKnown
<1>5. (Finishes(m) => \A c : ~Owns(P, c, p)) => Agree(P, L, I, T, D, V)
  BY <1>3, LineTaken
<1>6. Shape(t) /\ t.k = s.k /\ t.l.d = s.l.d
  BY TakenShape
<1>. QED BY <1>1, <1>2, <1>4, <1>5, <1>6 DEF Sound

LEMMA TakenOfZero ==
  ASSUME NEW s, NEW t, NEW m, TakenOff(s, t, 0, m)
  PROVE  /\ Sound(t) /\ m.cmd \in {"LISTEN_CONF", "CONNECT_CONF"}
         /\ m.cmd = "CONNECT_CONF" => /\ ~m.ok /\ m.id \in Msgids
                                      /\ Waits(t.k.plcip, t.k.plci_list, m.id)
                                      /\ ~Pending(t.l.up, m.id)
<1>1. PICK P, L, I, T, D, U : /\ P = s.k.plcip /\ L = s.k.plci_list /\ I = s.k.incoming
                              /\ T = s.k.told /\ D = s.l.d /\ U = s.l.up
  OBVIOUS
<1>2. PICK V : V = t.l.up
  OBVIOUS
<1>3. Agree(P, L, I, T, D, U) /\ U[0] # <<>> /\ m = Head(U[0]) /\ V = [U EXCEPT ![0] = Tail(U[0])]
  <2>1. /\ Agree(s.k.plcip, s.k.plci_list, s.k.incoming, s.k.told, s.l.d, s.l.up)
        /\ t.l.up = Popped(s.l.up, 0)
    BY TakenShape
  <2>2. s.l.up[0] # <<>> /\ m = Head(s.l.up[0])
    BY DEF TakenOff
  <2>3. Agree(P, L, I, T, D, U)
    BY <1>1, <2>1
  <2>4. U = s.l.up /\ V = t.l.up
    BY <1>1, <1>2
  <2>. QED BY <2>1, <2>2, <2>3, <2>4 DEF Popped
<1>4. /\ Agree(P, L, I, T, D, V)
      /\ m.cmd \in {"LISTEN_CONF", "CONNECT_CONF"}
      /\ m.cmd = "CONNECT_CONF" => /\ ~m.ok /\ m.id \in Msgids
                                   /\ Waits(P, L, m.id) /\ ~Pending(V, m.id)
  BY <1>3, ZeroTaken
<1>5. Shape(t) /\ t.k = s.k /\ t.l.d = s.l.d
  BY TakenShape
<1>. QED BY <1>1, <1>2, <1>4, <1>5 DEF Sound

(* Q is P but for the structure of c. *)
SameBut(P, Q, c) == \E x : Q = [P EXCEPT ![c] = x]

(* A structure is freed, and isdn4linux told so. *)
LEMMA FreedFrees ==
  ASSUME NEW s, Shape(s), DOMAIN s.k.told = Chan, NEW c \in Chan,
         NEW P \in [Chan -> Plcis \cup {Null}], SameBut(P, s.k.plcip, c),
         NEW u, u = p0(s, c)
  PROVE  /\ Shape(u) /\ u.l = s.l
         /\ Frees(P, s.k.plci_list, s.k.incoming, s.k.told,
                  u.k.plcip, u.k.plci_list, u.k.incoming, u.k.told, c)
<1>1. PICK t : t = Tell(s, c, "free")
  OBVIOUS
<1>2. /\ Shape(t) /\ t.l = s.l
      /\ t.k.plcip = s.k.plcip /\ t.k.plci_list = s.k.plci_list
      /\ t.k.incoming = s.k.incoming
      /\ DOMAIN t.k.told = Chan /\ t.k.told[c] \in {"free", "discarded"}
      /\ \A y \in Chan : y # c => t.k.told[y] = s.k.told[y]
  BY <1>1, TellEffect
<1>3. Freed(t, u, c)
  BY <1>1, <1>2, FreeEffect DEF p0
<1>4. u.k.plcip = [P EXCEPT ![c] = Null]
  <2>1. PICK x, Q : Q = [P EXCEPT ![c] = x] /\ Q = s.k.plcip
    BY DEF SameBut
  <2>2. [Q EXCEPT ![c] = Null] = [P EXCEPT ![c] = Null]
    BY <2>1
  <2>. QED BY <1>2, <1>3, <2>1, <2>2 DEF Freed
<1>. QED BY <1>2, <1>3, <1>4 DEF Freed, Frees

LEMMA FreedSound ==
  ASSUME NEW s, Shape(s), NEW c \in Chan, NEW P, SameBut(P, s.k.plcip, c),
         Agree(P, s.k.plci_list, s.k.incoming, s.k.told, s.l.d, s.l.up),
         P[c].state = "OUTGOING" => ~Pending(s.l.up, P[c].msgid),
         NEW u, u = p0(s, c)
  PROVE  Sound(u) /\ u.l = s.l
<1>1. DOMAIN s.k.told = Chan /\ P \in [Chan -> Plcis \cup {Null}]
  BY DEF Agree, Structures
<1>2. /\ Shape(u) /\ u.l = s.l
      /\ Frees(P, s.k.plci_list, s.k.incoming, s.k.told,
               u.k.plcip, u.k.plci_list, u.k.incoming, u.k.told, c)
  BY <1>1, FreedFrees
<1>3. Agree(u.k.plcip, u.k.plci_list, u.k.incoming, u.k.told, s.l.d, s.l.up)
  BY <1>2, StructFreed
<1>. QED BY <1>2, <1>3 DEF Sound

LEMMA TableConfirms ==
  ASSUME NEW t \in plcitable
  PROVE  /\ t[1] = "OUTGOING" /\ t[2] = "CONNECT_CONF_OK" => t[3] = "ALLOCATED"
         /\ t[1] = "OUTGOING" /\ t[2] = "CONNECT_CONF_ERROR" => t[3] = "NONE"
         /\ t[1] = "DISCONNECTED" /\ t[2] = "DISCONNECT_RESP" => t[3] = "NONE"
         /\ t[2] = "DISCONNECT_IND" => t[3] = "DISCONNECTED"
  BY DEF plcitable, InCall

LEMMA TableEntries ==
  /\ <<"OUTGOING", "CONNECT_CONF_OK", "ALLOCATED">> \in plcitable
  /\ <<"OUTGOING", "CONNECT_CONF_ERROR", "NONE">> \in plcitable
  /\ <<"DISCONNECTED", "DISCONNECT_RESP", "NONE">> \in plcitable
  /\ \A s \in CallStates \ {"OUTGOING", "DISCONNECTED"} :
       <<s, "DISCONNECT_IND", "DISCONNECTED">> \in plcitable
  BY DEF plcitable, InCall, CallStates, PlciStates

LEMMA TableRows ==
  ASSUME NEW from, NEW event, NEW to,
         <<from, event, to>> \in plcitable,
         \A r \in plcitable : r[1] = from /\ r[2] = event => r[3] = to
  PROVE  {r[3] : r \in {r \in plcitable : r[1] = from /\ r[2] = event}} = {to}
<1>1. PICK row : row = <<from, event, to>> /\ row \in plcitable
  OBVIOUS
<1>2. row[1] = from /\ row[2] = event /\ row[3] = to
  BY <1>1
<1>. QED BY <1>1, <1>2

(* The changes of state that are not changes of a call that goes on.       *)
LEMMA StateChanges ==
  ASSUME NEW s, NEW c
  PROVE  /\ s.k.plcip[c].state = "OUTGOING" =>
              /\ plci_change_state(s, c, "CONNECT_CONF_OK")
                   = [s EXCEPT !.k.plcip[c].state = "ALLOCATED"]
              /\ plci_change_state(s, c, "CONNECT_CONF_ERROR") = p0(s, c)
         /\ s.k.plcip[c].state = "DISCONNECTED" =>
              /\ plci_change_state(s, c, "DISCONNECT_RESP") = p0(s, c)
              /\ plci_change_state(s, c, "DISCONNECT_IND") = s
         /\ s.k.plcip[c].state \in CallStates \ {"OUTGOING", "DISCONNECTED"} =>
              plci_change_state(s, c, "DISCONNECT_IND")
                = [s EXCEPT !.k.plcip[c].state = "DISCONNECTED"]
<1>1. PICK x : x = s.k.plcip[c].state
  OBVIOUS
<1>2. ASSUME x = "OUTGOING"
      PROVE  plci_change_state(s, c, "CONNECT_CONF_OK") = [s EXCEPT !.k.plcip[c].state = "ALLOCATED"]
  <2>1. PICK next : next = {r[3] : r \in {r \in plcitable : r[1] = x /\ r[2] = "CONNECT_CONF_OK"}}
    OBVIOUS
  <2>2. next = {"ALLOCATED"}
    BY <1>2, <2>1, TableRows, TableConfirms, TableEntries
  <2>3. next # {} /\ "NONE" \notin next /\ (CHOOSE n \in next : TRUE) = "ALLOCATED"
    BY <2>2
  <2>. QED BY <1>1, <2>1, <2>3 DEF plci_change_state
<1>3. ASSUME x = "OUTGOING"
      PROVE  plci_change_state(s, c, "CONNECT_CONF_ERROR") = p0(s, c)
  <2>1. PICK next : next = {r[3] : r \in {r \in plcitable : r[1] = x /\ r[2] = "CONNECT_CONF_ERROR"}}
    OBVIOUS
  <2>2. next = {"NONE"}
    BY <1>3, <2>1, TableRows, TableConfirms, TableEntries
  <2>. QED BY <1>1, <2>1, <2>2 DEF plci_change_state
<1>4. ASSUME x = "DISCONNECTED"
      PROVE  plci_change_state(s, c, "DISCONNECT_RESP") = p0(s, c)
  <2>1. PICK next : next = {r[3] : r \in {r \in plcitable : r[1] = x /\ r[2] = "DISCONNECT_RESP"}}
    OBVIOUS
  <2>2. next = {"NONE"}
    BY <1>4, <2>1, TableRows, TableConfirms, TableEntries
  <2>. QED BY <1>1, <2>1, <2>2 DEF plci_change_state
<1>5. ASSUME x = "DISCONNECTED"
      PROVE  plci_change_state(s, c, "DISCONNECT_IND") = s
  <2>1. PICK next : next = {r[3] : r \in {r \in plcitable : r[1] = x /\ r[2] = "DISCONNECT_IND"}}
    OBVIOUS
  <2>2. next = {}
    BY <1>5, <2>1 DEF plcitable, InCall
  <2>. QED BY <1>1, <2>1, <2>2 DEF plci_change_state
<1>6. ASSUME x \in CallStates \ {"OUTGOING", "DISCONNECTED"}
      PROVE  plci_change_state(s, c, "DISCONNECT_IND") = [s EXCEPT !.k.plcip[c].state = "DISCONNECTED"]
  <2>1. PICK next : next = {r[3] : r \in {r \in plcitable : r[1] = x /\ r[2] = "DISCONNECT_IND"}}
    OBVIOUS
  <2>2. <<x, "DISCONNECT_IND", "DISCONNECTED">> \in plcitable
    BY <1>6, TableEntries
  <2>3. next = {"DISCONNECTED"}
    BY <2>1, <2>2, TableRows, TableConfirms
  <2>4. next # {} /\ "NONE" \notin next /\ (CHOOSE n \in next : TRUE) = "DISCONNECTED"
    BY <2>3
  <2>. QED BY <1>1, <2>1, <2>4 DEF plci_change_state
<1>. QED BY <1>1, <1>2, <1>3, <1>4, <1>5, <1>6

LEMMA HandleConnectConf ==
  ASSUME NEW t, Sound(t), NEW p, NEW m, m.cmd = "CONNECT_CONF",
         m.id \in Msgids, Waits(t.k.plcip, t.k.plci_list, m.id), ~Pending(t.l.up, m.id),
         m.ok => p \in Plci /\ TakenBegin(t.k.plcip, t.k.plci_list, t.l.d, t.l.up, p, m),
         NEW u \in handle_connect_conf(t, p, m)
  PROVE  Sound(u)
<1>1. PICK c : c = find_plci_by_msgid(t.k, m.id)
  OBVIOUS
<1>2. PICK P : P = t.k.plcip
  OBVIOUS
<1>3. /\ c # Null /\ c \in Chan /\ P[c] # Null
      /\ P[c].msgid = m.id /\ P[c].state = "OUTGOING"
  BY <1>1, <1>2, FoundByMsgid
<1>4. /\ Agree(P, t.k.plci_list, t.k.incoming, t.k.told, t.l.d, t.l.up) /\ Shape(t)
      /\ P \in [Chan -> Plcis \cup {Null}] /\ P[c] \in Plcis /\ P[c].plci = 0
      /\ c \notin t.k.incoming
  BY <1>2, <1>3 DEF Sound, Agree, Structures
<1>5. PICK x : x = [P[c] EXCEPT !.plci = p]
  OBVIOUS
<1>6. PICK v : v = [t EXCEPT !.k.plcip[c].plci = p]
  OBVIOUS
<1>7. /\ Shape(v) /\ v.l = t.l /\ v.k.plcip = [P EXCEPT ![c] = x]
      /\ v.k.plci_list = t.k.plci_list /\ v.k.incoming = t.k.incoming /\ v.k.told = t.k.told
  BY <1>2, <1>4, <1>5, <1>6 DEF Shape, IsCard
<1>8. v.k.plcip[c] = x /\ x.state = "OUTGOING" /\ x.msgid = m.id /\ x.plci = p
  BY <1>3, <1>4, <1>5, <1>7 DEF Plcis
<1>9. CASE m.ok
  <2>1. PICK y : y = [x EXCEPT !.state = "ALLOCATED"]
    OBVIOUS
  <2>2. y \in Plcis /\ y.plci = p /\ y.msgid = m.id /\ y.state = "ALLOCATED" /\ p # 0
    BY <1>4, <1>5, <1>8, <1>9, <2>1, DrvAssumption DEF Plcis, CallStates, PlciStates
  <2>3. u = [v EXCEPT !.k.plcip[c].state = "ALLOCATED"]
    <3>1. u = plci_change_state(v, c, "CONNECT_CONF_OK")
      BY <1>1, <1>3, <1>6, <1>9 DEF handle_connect_conf
    <3>. QED BY <1>8, <3>1, StateChanges
  <2>4. /\ Shape(u) /\ u.l = v.l
        /\ u.k.plcip = [v.k.plcip EXCEPT ![c] = [v.k.plcip[c] EXCEPT !.state = "ALLOCATED"]]
        /\ u.k.plci_list = v.k.plci_list /\ u.k.incoming = v.k.incoming
        /\ u.k.told = v.k.told
    BY <1>7, <2>3 DEF Shape, IsCard
  <2>5. u.k.plcip = [P EXCEPT ![c] = y]
    <3>1. PICK Q, R : Q = [P EXCEPT ![c] = x] /\ R = [Q EXCEPT ![c] = y]
      OBVIOUS
    <3>2. R = [P EXCEPT ![c] = y]
      BY <1>4, <3>1
    <3>3. u.k.plcip = R
      BY <1>7, <1>8, <2>1, <2>4, <3>1
    <3>. QED BY <3>2, <3>3
  <2>6. TakenBegin(P, t.k.plci_list, t.l.d, t.l.up, p, m) /\ p \in Plci
    BY <1>2, <1>9
  <2>7. Owners(u.k.plcip, t.k.incoming, t.l.d, t.l.up)
    <3>1. PICK D, U, I : D = t.l.d /\ U = t.l.up /\ I = t.k.incoming
      OBVIOUS
    <3>2. /\ \A z : ~Owns(P, z, p)
          /\ D[p] # "idle" /\ (D[p] = "gone" => HasEnd(U[p])) /\ ~HasBegin(U[p])
          /\ D[p] \notin Incoming /\ c \notin I
      BY <1>4, <2>6, <3>1 DEF TakenBegin
    <3>3. Owners(P, I, D, U) /\ c \in DOMAIN P
      BY <1>3, <1>4, <3>1 DEF Agree
    <3>4. PICK Q : Q = [P EXCEPT ![c] = y]
      OBVIOUS
    <3>5. Owners(Q, I, D, U)
      BY <1>3, <2>2, <3>2, <3>3, <3>4, NewOwner
    <3>. QED BY <2>5, <3>1, <3>4, <3>5
  <2>8. Agree(u.k.plcip, t.k.plci_list, t.k.incoming, t.k.told, t.l.d, t.l.up)
    <3>1. PICK Q : Q = [P EXCEPT ![c] = y] /\ Q = u.k.plcip
      BY <2>5
    <3>2. ~Pending(t.l.up, P[c].msgid) /\ y.msgid = P[c].msgid /\ y.state # "OUTGOING" /\ y.plci # 0
      BY <1>3, <2>2
    <3>. QED BY <1>3, <1>4, <2>2, <2>7, <3>1, <3>2, StructConfirmed
  <2>. QED BY <1>7, <2>4, <2>8 DEF Sound
<1>10. CASE ~m.ok
  <2>1. u = plci_change_state(v, c, "CONNECT_CONF_ERROR")
    BY <1>1, <1>3, <1>6, <1>10 DEF handle_connect_conf
  <2>2. u = p0(v, c)
    BY <1>8, <2>1, StateChanges
  <2>3. Agree(P, v.k.plci_list, v.k.incoming, v.k.told, v.l.d, v.l.up)
    BY <1>4, <1>7
  <2>4. P[c].state = "OUTGOING" => ~Pending(v.l.up, P[c].msgid)
    BY <1>3, <1>7
  <2>5. SameBut(P, v.k.plcip, c)
    BY <1>7 DEF SameBut
  <2>. QED BY <1>3, <1>7, <2>2, <2>3, <2>4, <2>5, FreedSound
<1>. QED BY <1>9, <1>10

LEMMA HandleDisconnect ==
  ASSUME NEW s, NEW t, NEW p \in Plci, NEW m, TakenOff(s, t, p, m),
         m.cmd = "DISCONNECT_IND", NEW u \in handle_disconnect_ind(t, p)
  PROVE  Sound(u)
<1>1. PICK c : c = find_plci_by_plci(s.k, p)
  OBVIOUS
<1>2. Sound(s) /\ t.k = s.k /\ Shape(t) /\ t.l.d = s.l.d /\ t.l.up = Popped(s.l.up, p)
  BY TakenShape DEF TakenOff
<1>3. Finishes(m) /\ ~HasBegin(t.l.up[p]) /\ ~HasEnd(t.l.up[p])
  BY TakenOfCall DEF Finishes
<1>4. CASE c = Null
  <2>1. \A y : ~Owns(t.k.plcip, y, p)
    BY <1>1, <1>2, <1>4, FoundByPlci
  <2>2. Sound(t)
    BY <1>2, <2>1, TakenOfCall
  <2>3. u \in send_message(t, "DISCONNECT_RESP", p, 0)
    BY <1>1, <1>2, <1>4 DEF handle_disconnect_ind
  <2>. QED BY <1>3, <2>1, <2>2, <2>3, SendReset
<1>5. CASE c # Null
  <2>1. Owns(s.k.plcip, c, p)
    BY <1>1, <1>2, <1>5, FoundByPlci
  <2>2. PICK P, L, I, T, D, U : /\ P = s.k.plcip /\ L = s.k.plci_list /\ I = s.k.incoming
                                /\ T = s.k.told /\ D = s.l.d /\ U = s.l.up
    OBVIOUS
  <2>3. Agree(P, L, I, T, D, U)
    BY <1>2, <2>2 DEF Sound
  <2>4. /\ c \in Chan /\ P[c] \in Plcis /\ P[c].state \in CallStates \ {"OUTGOING"}
        /\ P \in [Chan -> Plcis \cup {Null}] /\ DOMAIN T = Chan
    BY <2>1, <2>2, <2>3, DrvAssumption DEF Owns, Agree, Structures, Plcis
  <2>5. PICK a : a = Disconnecting(t, c)
    OBVIOUS
  <2>6. PICK b : b = plci_change_state(a, c, "DISCONNECT_IND")
    OBVIOUS
  <2>7. PICK v \in send_message(b, "DISCONNECT_RESP", p, 0) :
          u = plci_change_state(v, c, "DISCONNECT_RESP")
    BY <1>1, <1>2, <1>5, <2>5, <2>6 DEF handle_disconnect_ind
  <2>8. /\ Shape(a) /\ a.k.plcip = P /\ a.k.plci_list = L /\ a.k.incoming = I
        /\ a.k.told = T /\ a.l = t.l
    BY <1>2, <2>2, <2>5 DEF Disconnecting, Shape, IsCard
  <2>9. /\ Shape(b) /\ SameBut(P, b.k.plcip, c) /\ b.k.plcip[c].state = "DISCONNECTED"
        /\ b.k.plci_list = L /\ b.k.incoming = I /\ b.k.told = T /\ b.l = t.l
    <3>1. CASE P[c].state = "DISCONNECTED"
      <4>1. b = a
        BY <2>6, <2>8, <3>1, StateChanges
      <4>2. P = [P EXCEPT ![c] = P[c]]
        BY <2>4
      <4>. QED BY <2>8, <3>1, <4>1, <4>2 DEF SameBut
    <3>2. CASE P[c].state # "DISCONNECTED"
      <4>1. b = [a EXCEPT !.k.plcip[c].state = "DISCONNECTED"]
        BY <2>4, <2>6, <2>8, <3>2, StateChanges
      <4>2. PICK x : x = [P[c] EXCEPT !.state = "DISCONNECTED"]
        OBVIOUS
      <4>3. /\ Shape(b) /\ b.k.plcip = [P EXCEPT ![c] = x]
            /\ b.k.plci_list = L /\ b.k.incoming = I /\ b.k.told = T /\ b.l = t.l
        BY <2>8, <4>1, <4>2 DEF Shape, IsCard
      <4>4. x.state = "DISCONNECTED"
        BY <2>4, <4>2 DEF Plcis
      <4>5. b.k.plcip[c].state = "DISCONNECTED"
        BY <2>4, <4>3, <4>4
      <4>. QED BY <4>3, <4>5 DEF SameBut
    <3>. QED BY <3>1, <3>2
  <2>10. /\ v.k = b.k /\ v = [k |-> v.k, l |-> v.l] /\ IsLine(v.l) /\ v.l.up = t.l.up
         /\ v.l.d = D \/ v.l.d = [D EXCEPT ![p] = "idle"]
    <3>1. IsLine(b.l) /\ b.l.d = D /\ b.l.up = t.l.up /\ b = [k |-> b.k, l |-> b.l]
      BY <1>2, <2>2, <2>9 DEF Shape
    <3>2. PICK n : /\ v = [b EXCEPT !.l = n]
                   /\ \/ n = b.l \/ n = [b.l EXCEPT !.lost = TRUE]
                      \/ n = [b.l EXCEPT !.d[p] = "idle", !.b[p] = "none", !.data[p] = <<>>]
      BY DEF send_message, Accepted, Refused, Take
    <3>3. IsLine(n) /\ n.up = t.l.up /\ (n.d = D \/ n.d = [D EXCEPT ![p] = "idle"])
      <4>1. PICK yes : yes = TRUE
        OBVIOUS
      <4>2. CASE n = [b.l EXCEPT !.lost = yes]
        BY <3>1, <4>2 DEF IsLine
      <4>3. CASE n = [b.l EXCEPT !.d[p] = "idle", !.b[p] = "none", !.data[p] = <<>>]
        BY <3>1, <4>3 DEF IsLine
      <4>. QED BY <3>1, <3>2, <4>1, <4>2, <4>3
    <3>. QED BY <3>1, <3>2, <3>3
  <2>11. Shape(v)
    BY <2>9, <2>10 DEF Shape
  <2>12. u = p0(v, c)
    BY <2>7, <2>9, <2>10, StateChanges
  <2>13. PICK Q, M, J, W : /\ Q = u.k.plcip /\ M = u.k.plci_list /\ J = u.k.incoming /\ W = u.k.told
    OBVIOUS
  <2>14. Shape(u) /\ u.l = v.l /\ Frees(P, L, I, T, Q, M, J, W, c)
    BY <2>4, <2>9, <2>10, <2>11, <2>12, <2>13, FreedFrees
  <2>15. Agree(Q, M, J, W, D, U) /\ \A x : ~Owns(Q, c, x)
    BY <2>3, <2>4, <2>14, StructFreed
  <2>16. \A y : ~Owns(Q, y, p)
    <3>1. ASSUME NEW y, Owns(Q, y, p) PROVE FALSE
      <4>1. y # c
        BY <2>15, <3>1
      <4>2. Q[y] = P[y]
        BY <2>4, <2>14, <3>1, <4>1 DEF Frees, Owns
      <4>3. Owns(P, y, p)
        BY <3>1, <4>2 DEF Owns
      <4>. QED BY <2>1, <2>2, <2>3, <4>1, <4>3, OwnerKnown
    <3>. QED BY <3>1
  <2>17. PICK V : V = t.l.up /\ V = [U EXCEPT ![p] = Tail(U[p])]
    BY <1>2, <2>2 DEF Popped
  <2>18. U[p] # <<>>
    BY <2>2 DEF TakenOff
  <2>19. Agree(Q, M, J, W, D, V)
    BY <2>15, <2>16, <2>17, <2>18, LineTaken
  <2>20. Agree(Q, M, J, W, v.l.d, V)
    BY <1>3, <2>10, <2>16, <2>17, <2>19, LineReset
  <2>. QED BY <2>10, <2>13, <2>14, <2>17, <2>20 DEF Sound
<1>. QED BY <1>4, <1>5

(* Any message but CONNECT_IND. *)
LEMMA Handled ==
  ASSUME NEW s, NEW t, NEW p \in Plci \cup {0}, NEW m, TakenOff(s, t, p, m),
         m.cmd # "CONNECT_IND", NEW u \in handle(t, p, m)
  PROVE  Sound(u)
<1>1. CASE p = 0
  <2>1. /\ Sound(t) /\ m.cmd \in {"LISTEN_CONF", "CONNECT_CONF"}
        /\ m.cmd = "CONNECT_CONF" => /\ ~m.ok /\ m.id \in Msgids
                                     /\ Waits(t.k.plcip, t.k.plci_list, m.id)
                                     /\ ~Pending(t.l.up, m.id)
    BY <1>1, TakenOfZero
  <2>2. CASE m.cmd = "LISTEN_CONF"
    <3>1. u \in handle_listen_conf(t, m)
      BY <2>2 DEF handle
    <3>. QED BY <2>1, <3>1, HandleQuiet
  <2>3. CASE m.cmd = "CONNECT_CONF"
    <3>1. u \in handle_connect_conf(t, p, m)
      BY <2>3 DEF handle
    <3>. QED BY <2>1, <2>3, <3>1, HandleConnectConf
  <2>. QED BY <2>1, <2>2, <2>3
<1>2. CASE p \in Plci
  <2>1. /\ m.cmd \in Commands
        /\ (Finishes(m) => \A c : ~Owns(s.k.plcip, c, p)) => Sound(t)
        /\ Begins(m) => TakenBegin(t.k.plcip, t.k.plci_list, t.l.d, t.l.up, p, m)
    BY <1>2, TakenOfCall
  <2>2. CASE m.cmd = "DISCONNECT_IND"
    <3>1. u \in handle_disconnect_ind(t, p)
      BY <2>2 DEF handle
    <3>. QED BY <1>2, <2>2, <3>1, HandleDisconnect
  <2>3. CASE m.cmd = "CONNECT_CONF"
    <3>1. u \in handle_connect_conf(t, p, m)
      BY <2>3 DEF handle
    <3>2. Sound(t) /\ TakenBegin(t.k.plcip, t.k.plci_list, t.l.d, t.l.up, p, m)
      BY <2>1, <2>3 DEF Begins, Finishes
    <3>3. m.id \in Msgids /\ Waits(t.k.plcip, t.k.plci_list, m.id) /\ ~Pending(t.l.up, m.id)
      BY <2>3, <3>2 DEF TakenBegin
    <3>. QED BY <1>2, <2>3, <3>1, <3>2, <3>3, HandleConnectConf
  <2>4. CASE m.cmd \notin {"DISCONNECT_IND", "CONNECT_CONF"}
    <3>1. Sound(t)
      BY <2>1, <2>4 DEF Finishes
    <3>2. CASE m.cmd = "LISTEN_CONF"
      <4>1. u \in handle_listen_conf(t, m)
        BY <3>2 DEF handle
      <4>. QED BY <3>1, <4>1, HandleQuiet
    <3>3. CASE m.cmd = "CONNECT_ACTIVE_IND"
      <4>1. u \in handle_connect_active_ind(t, p)
        BY <3>3 DEF handle
      <4>. QED BY <1>2, <3>1, <4>1, HandleConnectActive
    <3>4. CASE m.cmd = "DISCONNECT_CONF"
      <4>1. u \in handle_disconnect_conf(t, p)
        BY <3>4 DEF handle
      <4>. QED BY <3>1, <4>1, HandleQuiet
    <3>5. CASE m.cmd = "CONNECT_B3_IND"
      <4>1. u \in handle_connect_b3_ind(t, p)
        BY <3>5 DEF handle
      <4>. QED BY <1>2, <3>1, <4>1, HandleB3Ind
    <3>6. CASE m.cmd = "CONNECT_B3_CONF"
      <4>1. u \in handle_connect_b3_conf(t, p, m)
        BY <3>6 DEF handle
      <4>. QED BY <1>2, <3>1, <4>1, HandleB3Conf
    <3>7. CASE m.cmd = "CONNECT_B3_ACTIVE_IND"
      <4>1. u \in handle_connect_b3_active_ind(t, p)
        BY <3>7 DEF handle
      <4>. QED BY <1>2, <3>1, <4>1, HandleB3Active
    <3>8. CASE m.cmd = "DISCONNECT_B3_IND"
      <4>1. u \in handle_disconnect_b3_ind(t, p)
        BY <3>8 DEF handle
      <4>. QED BY <1>2, <3>1, <4>1, HandleB3Disconnect
    <3>9. CASE m.cmd = "DISCONNECT_B3_CONF"
      <4>1. u \in handle_disconnect_b3_conf(t, p, m)
        BY <3>9 DEF handle
      <4>. QED BY <1>2, <3>1, <4>1, HandleB3DisconnectConf
    <3>10. CASE m.cmd = "DATA_B3_CONF"
      <4>1. u \in handle_data_b3_conf(t, p, m)
        BY <3>10 DEF handle
      <4>. QED BY <3>1, <4>1, HandleQuiet
    <3>11. CASE m.cmd = "DATA_B3_IND"
      <4>1. u = t
        BY <3>11 DEF handle
      <4>. QED BY <3>1, <4>1
    <3>. QED BY <2>1, <2>4, <3>2, <3>3, <3>4, <3>5, <3>6, <3>7, <3>8, <3>9, <3>10, <3>11
             DEF Commands
  <2>. QED BY <2>2, <2>3, <2>4
<1>. QED BY <1>1, <1>2

-------------------------------------------------------------------------------
(* Structures of new calls. *)

NewPlci(p, id) == [plci |-> p, msgid |-> id, state |-> "NONE"]

(* u is t with the structure x of c in front of the others, and the        *)
(* incoming calls J.                                                       *)
Entered(t, u, c, x, J) ==
  /\ Shape(u) /\ u.l = t.l
  /\ u.k.plcip = [t.k.plcip EXCEPT ![c] = x]
  /\ u.k.plci_list = <<c>> \o t.k.plci_list
  /\ u.k.incoming = J /\ u.k.told = t.k.told

LEMMA NewEffect ==
  ASSUME NEW s, Shape(s), NEW c, NEW p, NEW id, NEW u, u = new_plci(s, c, p, id)
  PROVE  Entered(s, u, c, NewPlci(p, id), s.k.incoming)
<1>1. PICK x : x = NewPlci(p, id)
  OBVIOUS
<1>2. u = [s EXCEPT !.k.plcip[c] = x, !.k.plci_list = <<c>> \o @]
  BY <1>1 DEF new_plci, NewPlci
<1>3. PICK Q, M : Q = [s.k.plcip EXCEPT ![c] = x] /\ M = <<c>> \o s.k.plci_list
  OBVIOUS
<1>4. u = [s EXCEPT !.k.plcip = Q, !.k.plci_list = M]
  BY <1>2, <1>3
<1>5. PICK v : v = [s EXCEPT !.k.plcip = Q]
  OBVIOUS
<1>6. /\ Shape(v) /\ v.l = s.l /\ v.k.plcip = Q /\ v.k.plci_list = s.k.plci_list
      /\ v.k.incoming = s.k.incoming /\ v.k.told = s.k.told
  BY <1>5 DEF Shape, IsCard
<1>7. u = [v EXCEPT !.k.plci_list = M]
  BY <1>4, <1>5
<1>8. /\ Shape(u) /\ u.l = v.l /\ u.k.plcip = v.k.plcip /\ u.k.plci_list = M
      /\ u.k.incoming = v.k.incoming /\ u.k.told = v.k.told
  BY <1>6, <1>7 DEF Shape, IsCard
<1>. QED BY <1>1, <1>3, <1>6, <1>8 DEF Entered

LEMMA TableBegins ==
  ASSUME NEW s, NEW c, s.k.plcip[c].state = "NONE"
  PROVE  /\ plci_change_state(s, c, "CONNECT_REQ") = [s EXCEPT !.k.plcip[c].state = "OUTGOING"]
         /\ plci_change_state(s, c, "CONNECT_IND") = [s EXCEPT !.k.plcip[c].state = "INCOMING"]
<1>1. ASSUME NEW event, NEW to, to # "NONE", <<"NONE", event, to>> \in plcitable,
             \A r \in plcitable : r[1] = "NONE" /\ r[2] = event => r[3] = to
      PROVE  plci_change_state(s, c, event) = [s EXCEPT !.k.plcip[c].state = to]
  <2>1. PICK next : next = {r[3] : r \in {r \in plcitable :
                                  r[1] = s.k.plcip[c].state /\ r[2] = event}}
    OBVIOUS
  <2>2. next = {to}
    BY <1>1, <2>1, TableRows
  <2>3. next # {} /\ "NONE" \notin next /\ (CHOOSE n \in next : TRUE) = to
    BY <1>1, <2>2
  <2>. QED BY <2>1, <2>3 DEF plci_change_state
<1>2. /\ <<"NONE", "CONNECT_REQ", "OUTGOING">> \in plcitable
      /\ <<"NONE", "CONNECT_IND", "INCOMING">> \in plcitable
  BY DEF plcitable
<1>3. \A r \in plcitable : r[1] = "NONE" => /\ r[2] = "CONNECT_REQ" => r[3] = "OUTGOING"
                                            /\ r[2] = "CONNECT_IND" => r[3] = "INCOMING"
  BY DEF plcitable, InCall
<1>. QED BY <1>1, <1>2, <1>3

(* A structure in its first state. *)
LEMMA EnteredState ==
  ASSUME NEW t, NEW s, NEW c, c \in DOMAIN t.k.plcip, NEW p, NEW id, NEW J,
         Entered(t, s, c, NewPlci(p, id), J), NEW state, NEW u,
         u = [s EXCEPT !.k.plcip[c].state = state]
  PROVE  Entered(t, u, c, [plci |-> p, msgid |-> id, state |-> state], J)
<1>1. PICK x, y : x = NewPlci(p, id) /\ y = [x EXCEPT !.state = state]
  OBVIOUS
<1>2. /\ Shape(s) /\ s.l = t.l /\ s.k.plcip = [t.k.plcip EXCEPT ![c] = x]
      /\ s.k.plci_list = <<c>> \o t.k.plci_list
      /\ s.k.incoming = J /\ s.k.told = t.k.told
  BY <1>1 DEF Entered
<1>3. /\ Shape(u) /\ u.l = s.l
      /\ u.k.plcip = [s.k.plcip EXCEPT ![c] = [s.k.plcip[c] EXCEPT !.state = state]]
      /\ u.k.plci_list = s.k.plci_list /\ u.k.incoming = s.k.incoming
      /\ u.k.told = s.k.told
  BY <1>2 DEF Shape, IsCard
<1>4. s.k.plcip[c] = x
  BY <1>2
<1>5. u.k.plcip = [t.k.plcip EXCEPT ![c] = y]
  BY <1>1, <1>2, <1>3, <1>4
<1>6. y = [plci |-> p, msgid |-> id, state |-> state]
  BY <1>1 DEF NewPlci
<1>. QED BY <1>2, <1>3, <1>5, <1>6 DEF Entered

LEMMA EnteredIncoming ==
  ASSUME NEW t, NEW s, NEW c, NEW x, NEW J, Entered(t, s, c, x, J), NEW K,
         NEW u, u = [s EXCEPT !.k.incoming = K]
  PROVE  Entered(t, u, c, x, K)
<1>1. /\ Shape(s) /\ s.l = t.l /\ s.k.plcip = [t.k.plcip EXCEPT ![c] = x]
      /\ s.k.plci_list = <<c>> \o t.k.plci_list /\ s.k.told = t.k.told
  BY DEF Entered
<1>2. /\ Shape(u) /\ u.l = s.l /\ u.k.plcip = s.k.plcip /\ u.k.incoming = K
      /\ u.k.plci_list = s.k.plci_list /\ u.k.told = s.k.told
  BY <1>1 DEF Shape, IsCard
<1>. QED BY <1>1, <1>2 DEF Entered

-------------------------------------------------------------------------------
(* The steps of the driver. *)

(* A call that isdn4linux is being offered has a structure.  Until the     *)
(* removal begins, an unregistered device differs only in that it is silent *)
(* and refuses every message.                                              *)
Running == pc \in {"up", "unregistered"}
UpInv == Sound(now) /\ (icall # Null => icall \in card.incoming)
DrvInv == (Running => UpInv) /\ (pc = "removed" => icall = Null)

LEMMA Became ==
  ASSUME NEW u, Sound(u), Become(u)
  PROVE  Sound(now)' /\ card' = u.k /\ line' = u.l
<1>1. now' = u
  BY DEF Sound, Shape, Become, now
<1>. QED BY <1>1 DEF Become

LEMMA NowIs ==
  ASSUME UpInv
  PROVE  Sound(now) /\ now.k = card /\ now.l = line
  BY DEF UpInv, now

LEMMA RecvMessage ==
  ASSUME Running, UpInv, NEW p \in Plci \cup {0}, capidrv_recv_message(p)
  PROVE  UpInv'
<1>1. PICK t, m : t = Taken(p) /\ m = Head(line.up[p])
  OBVIOUS
<1>2. TakenOff(now, t, p, m)
  BY <1>1, NowIs DEF TakenOff, Taken, capidrv_recv_message, Head1
<1>3. m.cmd # "CONNECT_IND" /\ \E u \in handle(t, p, m) : Become(u)
  BY <1>1 DEF capidrv_recv_message, HasCard, Running
<1>4. PICK u \in handle(t, p, m) : Become(u)
  BY <1>3
<1>5. Sound(u)
  BY <1>2, <1>3, Handled
<1>6. Sound(now)'
  BY <1>4, <1>5, Became
<1>7. icall' = Null
  BY DEF capidrv_recv_message, Idle
<1>. QED BY <1>6, <1>7 DEF UpInv

LEMMA FreshUnused ==
  ASSUME UpInv, NEW id \in FreshIds
  PROVE  id \in Msgids /\ id # 0 /\ ~Pending(line.up, id)
<1>1. Lines(line.d, line.up)
  BY NowIs DEF Sound, Agree
<1>2. ASSUME NEW p, NEW i, Place(line.up, p, i, id) PROVE FALSE
  <2>1. p \in Plci \cup {0} /\ IsSeq(line.up[p])
    BY <1>1, <1>2 DEF Lines, Queue, Place
  <2>2. i \in DOMAIN line.up[p] /\ line.up[p][i].cmd = "CONNECT_CONF" /\ line.up[p][i].id = id
    BY <1>2, <2>1 DEF Place, Entries, IsSeq
  <2>. QED BY <1>2, <2>2 DEF FreshIds, Place
<1>. QED BY <1>2, DrvAssumption DEF Pending, FreshIds

LEMMA Offered ==
  ASSUME UpInv, NEW c \in card.incoming
  PROVE  OnCall(now, c, card.plcip[c].plci, card.incoming)
<1>1. Structures(card.plcip, card.plci_list, card.incoming, card.told)
  BY NowIs DEF Sound, Agree
<1>2. c \in Chan /\ card.plcip[c] # Null /\ card.plcip[c].plci # 0 /\ card.plcip[c] \in Plcis
  BY <1>1 DEF Structures
<1>3. card.plcip[c].plci \in Plci
  BY <1>2 DEF Plcis
<1>. QED BY <1>2, <1>3, NowIs DEF OnCall, Owns

LEMMA NewBchan ==
  ASSUME UpInv, NEW c, c = new_bchan(card), c # Null
  PROVE  c \in Chan /\ card.plcip[c] = Null
<1>1. PICK open : open = {x \in 0 .. card.nbchan - 1 : card.plcip[x] = Null}
  OBVIOUS
<1>2. card.nbchan \in 0 .. NbChan
  BY NowIs DEF Sound, Shape, IsCard
<1>3. open \subseteq Chan /\ open \in SUBSET Nat
  BY <1>1, <1>2, DrvAssumption DEF Chan
<1>4. open # {} /\ c = CHOOSE x \in open : \A y \in open : x <= y
  BY <1>1 DEF new_bchan
<1>5. \E x \in open : \A y \in open : x <= y
  BY <1>3, <1>4, LeastExists
<1>6. c \in open
  BY <1>4, <1>5
<1>. QED BY <1>1, <1>3, <1>6

LEMMA ZeroUnused ==
  ASSUME NEW P, NEW L, NEW I, NEW T, NEW D, NEW U, Agree(P, L, I, T, D, U)
  PROVE  ~Pending(U, 0)
  BY DrvAssumption DEF Agree, Awaited

LEMMA IncomingCall ==
  ASSUME UpInv, NEW p \in Plci \cup {0}, handle_incoming_call(p)
  PROVE  UpInv'
<1>1. PICK t, m : t = Taken(p) /\ m = Head(line.up[p])
  OBVIOUS
<1>2. TakenOff(now, t, p, m) /\ m.cmd = "CONNECT_IND" /\ icall = Null
  BY <1>1, NowIs DEF TakenOff, Taken, handle_incoming_call, Head1, Idle
<1>3. p \in Plci
  <2>1. p # 0
    BY <1>2, TakenOfZero
  <2>. QED BY <2>1
<1>4. Sound(t) /\ TakenBegin(t.k.plcip, t.k.plci_list, t.l.d, t.l.up, p, m)
  BY <1>2, <1>3, TakenOfCall DEF Begins, Finishes
<1>5. t.k = card
  BY <1>2, TakenShape, NowIs
<1>6. PICK c : c = new_bchan(card)
  OBVIOUS
<1>7. PICK v : v = [t EXCEPT !.k.disconnecting = @ \ {c}]
  OBVIOUS
<1>8. Kept(t, v)
  BY <1>4, <1>7, QuietDisconnecting DEF Sound
<1>9. Sound(v)
  BY <1>4, <1>8, KeptSound
<1>10. CASE Become(v) /\ UNCHANGED icall
  <2>1. Sound(now)'
    BY <1>9, <1>10, Became
  <2>. QED BY <1>2, <1>10, <2>1 DEF UpInv
<1>11. CASE ~(Become(v) /\ UNCHANGED icall)
  <2>1. PICK w : w = new_plci(v, c, p, 0)
    OBVIOUS
  <2>2. PICK x : x = [w EXCEPT !.k.incoming = @ \cup {c}]
    OBVIOUS
  <2>3. PICK y : y = plci_change_state(x, c, "CONNECT_IND")
    OBVIOUS
  <2>4. PICK z : z = Tell(y, c, "ringing")
    OBVIOUS
  <2>5. c # Null /\ Become(z) /\ icall' = c
    BY <1>1, <1>6, <1>7, <1>11, <2>1, <2>2, <2>3, <2>4 DEF handle_incoming_call
  <2>6. PICK P, L, I, T, D, U : /\ P = v.k.plcip /\ L = v.k.plci_list /\ I = v.k.incoming
                                /\ T = v.k.told /\ D = v.l.d /\ U = v.l.up
    OBVIOUS
  <2>7. Agree(P, L, I, T, D, U) /\ Shape(v)
    BY <1>9, <2>6 DEF Sound
  <2>8. /\ c \in Chan /\ P[c] = Null /\ P \in [Chan -> Plcis \cup {Null}] /\ DOMAIN T = Chan
    <3>1. c \in Chan /\ card.plcip[c] = Null
      BY <1>6, <2>5, NewBchan
    <3>2. P = card.plcip
      BY <1>5, <1>8, <2>6 DEF Kept
    <3>. QED BY <2>7, <3>1, <3>2 DEF Agree, Structures
  <2>9. PICK J, a : J = I \cup {c} /\ a = [plci |-> p, msgid |-> 0, state |-> "INCOMING"]
    OBVIOUS
  <2>10. Entered(v, w, c, NewPlci(p, 0), I)
    BY <2>1, <2>6, <2>7, NewEffect
  <2>11. x = [w EXCEPT !.k.incoming = J]
    BY <2>2, <2>9, <2>10 DEF Entered
  <2>12. Entered(v, x, c, NewPlci(p, 0), J)
    BY <2>10, <2>11, EnteredIncoming
  <2>13. x.k.plcip[c].state = "NONE"
    BY <2>6, <2>8, <2>12 DEF Entered, NewPlci
  <2>14. y = [x EXCEPT !.k.plcip[c].state = "INCOMING"]
    BY <2>3, <2>13, TableBegins
  <2>15. Entered(v, y, c, a, J)
    BY <2>6, <2>8, <2>9, <2>12, <2>14, EnteredState
  <2>16. PICK Q, M, W : Q = [P EXCEPT ![c] = a] /\ M = <<c>> \o L /\ W = z.k.told
    OBVIOUS
  <2>17. /\ Shape(y) /\ y.l = v.l /\ y.k.plcip = Q /\ y.k.plci_list = M
         /\ y.k.incoming = J /\ y.k.told = T
    BY <2>6, <2>15, <2>16 DEF Entered
  <2>18. /\ Shape(z) /\ z.l = v.l /\ z.k.plcip = Q /\ z.k.plci_list = M
         /\ z.k.incoming = J /\ DOMAIN W = Chan
         /\ \A b \in Chan : b # c => W[b] = T[b]
    BY <2>4, <2>8, <2>16, <2>17, TellEffect
  <2>19. a \in Plcis /\ a.plci = p /\ a.msgid = 0 /\ a.state = "INCOMING" /\ p # 0
    BY <1>3, <2>9, DrvAssumption DEF Plcis, CallStates, PlciStates
  <2>20. TakenBegin(P, L, D, U, p, m)
    BY <1>4, <1>8, <2>6 DEF Kept
  <2>21. Owners(Q, J, D, U)
    <3>1. /\ \A b : ~Owns(P, b, p)
          /\ D[p] # "idle" /\ (D[p] = "gone" => HasEnd(U[p])) /\ ~HasBegin(U[p])
          /\ D[p] \notin Outgoing /\ c \in J
      BY <1>2, <2>9, <2>20 DEF TakenBegin
    <3>2. Owners(P, I, D, U) /\ c \in DOMAIN P
      BY <2>7, <2>8 DEF Agree
    <3>3. \A b : b # c => (b \in J <=> b \in I)
      BY <2>9
    <3>. QED BY <2>8, <2>16, <2>19, <3>1, <3>2, <3>3, NewOwner
  <2>22. Agree(Q, M, J, W, D, U)
    <3>1. ~Pending(U, a.msgid)
      BY <2>7, <2>19, ZeroUnused
    <3>2. InFront(P, L, I, T, Q, M, J, W, c, a)
      BY <2>8, <2>9, <2>16, <2>18, <2>19 DEF InFront
    <3>. QED BY <2>7, <2>21, <3>1, <3>2, StructInFront
  <2>23. Sound(z)
    BY <2>6, <2>16, <2>18, <2>22 DEF Sound
  <2>24. Sound(now)' /\ card' = z.k
    BY <2>5, <2>23, Became
  <2>. QED BY <2>5, <2>9, <2>18, <2>24 DEF UpInv
<1>. QED BY <1>10, <1>11

LEMMA IcallRejected ==
  ASSUME UpInv, icall_rejected
  PROVE  UpInv'
<1>1. PICK c, p, I : c = icall /\ p = card.plcip[c].plci /\ I = card.incoming
  OBVIOUS
<1>2. OnCall(now, c, p, I)
  BY <1>1, Offered DEF UpInv, icall_rejected
<1>3. PICK t \in send_message(now, "CONNECT_REJECT", p, 0) :
        Become(Tell(plci_change_state(t, c, "CONNECT_REJECT"), c, "rejected"))
  BY <1>1 DEF icall_rejected
<1>4. OnCall(t, c, p, I)
  BY <1>2, CallSends DEF Requests
<1>5. PICK u : u = plci_change_state(t, c, "CONNECT_REJECT")
  OBVIOUS
<1>6. OnCall(u, c, p, I)
  BY <1>4, <1>5, CallSteps DEF CallEvents
<1>7. OnCall(Tell(u, c, "rejected"), c, p, I)
  BY <1>6, CallTells
<1>8. Sound(now)'
  BY <1>3, <1>5, <1>7, Became DEF OnCall
<1>. QED BY <1>8 DEF UpInv, icall_rejected

LEMMA SendAlert ==
  ASSUME NEW s, Sound(s), NEW p, NEW id, NEW u \in send_message(s, "ALERT_REQ", p, id)
  PROVE  Kept(s, u)
<1>1. PICK n : u = [s EXCEPT !.l = n] /\ (n = s.l \/ n = [s.l EXCEPT !.lost = TRUE])
  BY DEF send_message, Accepted, Refused, Take
<1>2. Shape(s) /\ s.l = [s.l EXCEPT !.lost = s.l.lost]
  BY DEF Sound, Shape, IsLine
<1>3. PICK b : u = [s EXCEPT !.l = [s.l EXCEPT !.lost = b]]
  <2>1. PICK yes : yes = TRUE
    OBVIOUS
  <2>2. n = [s.l EXCEPT !.lost = s.l.lost] \/ n = [s.l EXCEPT !.lost = yes]
    BY <1>1, <1>2, <2>1
  <2>. QED BY <1>1, <2>2
<1>. QED BY <1>2, <1>3, QuietLost

LEMMA IcallTaken ==
  ASSUME UpInv, icall_taken
  PROVE  UpInv'
<1>1. CASE UNCHANGED <<card, line>>
  <2>1. now' = now
    BY <1>1 DEF now
  <2>. QED BY <2>1 DEF UpInv, icall_taken
<1>2. CASE ~UNCHANGED <<card, line>>
  <2>1. PICK c, p, I : c = icall /\ p = card.plcip[c].plci /\ I = card.incoming
    OBVIOUS
  <2>2. card.plcip[c].state = "INCOMING" /\ c \in I
    BY <1>2, <2>1 DEF UpInv, icall_taken
  <2>3. Sound(now) /\ OnCall(now, c, p, I)
    BY <2>1, <2>2, Offered DEF UpInv
  <2>4. PICK id \in FreshIds : \E t \in send_message(now, "ALERT_REQ", p, id) :
               Become([t EXCEPT !.k.plcip[c].msgid = id])
    BY <1>2, <2>1 DEF icall_taken
  <2>5. PICK t \in send_message(now, "ALERT_REQ", p, id) :
               Become([t EXCEPT !.k.plcip[c].msgid = id])
    BY <2>4
  <2>6. Kept(now, t)
    BY <2>3, SendAlert
  <2>7. Sound(t)
    BY <2>3, <2>6, KeptSound
  <2>8. t.k.plcip = card.plcip /\ t.l.up = line.up
    BY <2>6, NowIs DEF Kept
  <2>9. id \in Msgids /\ ~Pending(t.l.up, id)
    BY <2>8, FreshUnused
  <2>10. PICK u : u = [t EXCEPT !.k.plcip[c].msgid = id]
    OBVIOUS
  <2>11. PICK P, x : P = t.k.plcip /\ x = [P[c] EXCEPT !.msgid = id]
    OBVIOUS
  <2>12. /\ Shape(u) /\ u.l = t.l /\ u.k.plcip = [P EXCEPT ![c] = x]
         /\ u.k.plci_list = t.k.plci_list /\ u.k.incoming = t.k.incoming
         /\ u.k.told = t.k.told
    <3>1. Shape(t)
      BY <2>7 DEF Sound
    <3>. QED BY <2>10, <2>11, <3>1 DEF Shape, IsCard
  <2>13. /\ Agree(P, t.k.plci_list, t.k.incoming, t.k.told, t.l.d, t.l.up)
         /\ c \in Chan /\ P[c] # Null /\ P[c] \in Plcis /\ P[c].state # "OUTGOING"
    <3>1. Agree(P, t.k.plci_list, t.k.incoming, t.k.told, t.l.d, t.l.up)
      BY <2>7, <2>11 DEF Sound
    <3>2. c \in Chan /\ P[c] # Null /\ P[c].state # "OUTGOING"
      BY <2>2, <2>3, <2>8, <2>11, NowIs DEF OnCall, Owns
    <3>. QED BY <3>1, <3>2 DEF Agree, Structures
  <2>14. x \in Plcis /\ x.plci = P[c].plci /\ x.state = P[c].state /\ x.msgid = id
    BY <2>9, <2>11, <2>13 DEF Plcis
  <2>15. PICK Q : Q = [P EXCEPT ![c] = x]
    OBVIOUS
  <2>16. Agree(Q, t.k.plci_list, t.k.incoming, t.k.told, t.l.d, t.l.up)
    BY <2>9, <2>13, <2>14, <2>15, StructChanged
  <2>17. Sound(u)
    BY <2>12, <2>15, <2>16 DEF Sound
  <2>18. Sound(now)'
    BY <2>5, <2>10, <2>17, Became
  <2>. QED BY <2>18 DEF UpInv, icall_taken
<1>. QED BY <1>1, <1>2

LEMMA NoOwner ==
  ASSUME NEW P, NEW I, NEW D, NEW U, Owners(P, I, D, U), NEW c \in DOMAIN P, c \in Chan,
         NEW x \in Plcis, x.plci = 0, NEW Q, Q = [P EXCEPT ![c] = x]
  PROVE  Owners(Q, I, D, U)
  BY NewOwner

LEMMA CommandDial ==
  ASSUME UpInv, NEW c \in Chan, capidrv_command_dial(c)
  PROVE  UpInv'
<1>1. card.plcip[c] = Null /\ icall = Null /\ icall' = Null
  BY DEF capidrv_command_dial, Idle
<1>2. PICK id \in FreshIds :
       \E t \in send_message(plci_change_state(new_plci(now, c, 0, id), c, "CONNECT_REQ"),
                             "CONNECT_REQ", 0, id) :
         Become(Tell(t, c, "dialing"))
  BY DEF capidrv_command_dial
<1>3. id \in Msgids /\ ~Pending(line.up, id)
  BY FreshUnused
<1>4. PICK s : s = now
  OBVIOUS
<1>5. Sound(s) /\ s.k = card /\ s.l = line
  BY <1>4, NowIs
<1>6. PICK P, L, I, T, D, U : /\ P = s.k.plcip /\ L = s.k.plci_list /\ I = s.k.incoming
                              /\ T = s.k.told /\ D = s.l.d /\ U = s.l.up
  OBVIOUS
<1>7. /\ Agree(P, L, I, T, D, U) /\ Shape(s) /\ P[c] = Null
      /\ P \in [Chan -> Plcis \cup {Null}] /\ DOMAIN T = Chan
  BY <1>1, <1>5, <1>6 DEF Sound, Agree, Structures
<1>8. PICK w : w = new_plci(s, c, 0, id)
  OBVIOUS
<1>9. PICK y : y = plci_change_state(w, c, "CONNECT_REQ")
  OBVIOUS
<1>10. PICK a : a = [plci |-> 0, msgid |-> id, state |-> "OUTGOING"]
  OBVIOUS
<1>11. Entered(s, w, c, NewPlci(0, id), I)
  BY <1>6, <1>7, <1>8, NewEffect
<1>12. w.k.plcip[c].state = "NONE"
  BY <1>6, <1>7, <1>11 DEF Entered, NewPlci
<1>13. y = [w EXCEPT !.k.plcip[c].state = "OUTGOING"]
  BY <1>9, <1>12, TableBegins
<1>14. Entered(s, y, c, a, I)
  BY <1>6, <1>7, <1>10, <1>11, <1>13, EnteredState
<1>15. PICK Q, M : Q = [P EXCEPT ![c] = a] /\ M = <<c>> \o L
  OBVIOUS
<1>16. /\ Shape(y) /\ y.l = s.l /\ y.k.plcip = Q /\ y.k.plci_list = M
       /\ y.k.incoming = I /\ y.k.told = T
  BY <1>6, <1>14, <1>15 DEF Entered
<1>17. a \in Plcis /\ a.plci = 0 /\ a.msgid = id /\ a.state = "OUTGOING"
  BY <1>3, <1>10 DEF Plcis, CallStates, PlciStates
<1>18. InFront(P, L, I, T, Q, M, I, T, c, a)
  BY <1>7, <1>15, <1>17 DEF InFront
<1>19. Owners(Q, I, D, U)
  BY <1>7, <1>15, <1>17, NoOwner DEF Agree
<1>20. ~Pending(U, a.msgid)
  BY <1>3, <1>5, <1>6, <1>17
<1>21. Agree(Q, M, I, T, D, U) /\ Waits(Q, M, id)
  BY <1>7, <1>17, <1>18, <1>19, <1>20, StructInFront
<1>22. Sound(y) /\ Waits(y.k.plcip, y.k.plci_list, id) /\ ~Pending(y.l.up, id)
  BY <1>6, <1>16, <1>17, <1>20, <1>21 DEF Sound
<1>23. PICK t \in send_message(y, "CONNECT_REQ", 0, id) : Become(Tell(t, c, "dialing"))
  BY <1>2, <1>4, <1>8, <1>9
<1>24. Sound(t)
  BY <1>3, <1>22, SendConnect
<1>25. Sound(Tell(t, c, "dialing"))
  BY <1>24, TellSound
<1>26. Sound(now)'
  BY <1>23, <1>25, Became
<1>. QED BY <1>1, <1>26 DEF UpInv

LEMMA CommandAcceptd ==
  ASSUME UpInv, NEW c \in Chan, capidrv_command_acceptd(c)
  PROVE  UpInv'
<1>1. PICK p, I : p = card.plcip[c].plci /\ I = card.incoming
  OBVIOUS
<1>2. c \in card.incoming
  BY NowIs DEF capidrv_command_acceptd, Sound, Agree, Structures
<1>3. OnCall(now, c, p, I)
  BY <1>1, <1>2, Offered
<1>4. PICK s : s = plci_change_state(now, c, "CONNECT_RESP")
  OBVIOUS
<1>5. OnCall(s, c, p, I)
  BY <1>3, <1>4, CallSteps DEF CallEvents
<1>6. PICK t \in send_message(s, "CONNECT_RESP", p, 0) : Become(Tell(t, c, "connected"))
  BY <1>1, <1>4 DEF capidrv_command_acceptd
<1>7. OnCall(t, c, p, I)
  BY <1>5, CallSends DEF Requests
<1>8. PICK u : u = Tell(t, c, "connected")
  OBVIOUS
<1>9. OnCall(u, c, p, I)
  BY <1>7, <1>8, CallTells
<1>10. Sound(now)' /\ card' = u.k
  BY <1>6, <1>8, <1>9, Became DEF OnCall
<1>. QED BY <1>1, <1>9, <1>10 DEF UpInv, OnCall, capidrv_command_acceptd

LEMMA CommandHangup ==
  ASSUME UpInv, NEW c \in Chan, capidrv_command_hangup(c)
  PROVE  UpInv'
<1>1. PICK t, n, x : t = Disconnecting(now, c) /\ n = card.nccip[c] /\ x = card.plcip[c]
  OBVIOUS
<1>2. Sound(now) /\ Kept(now, t)
  BY <1>1, NowIs, QuietOps DEF Sound
<1>3. Sound(t) /\ t.k.incoming = card.incoming /\ t.k.plcip = card.plcip
  BY <1>2, NowIs, KeptSound DEF Kept
<1>4. \E u : Sound(u) /\ u.k.incoming = card.incoming /\ Become(u)
  <2>1. CASE n # Null
    <3>1. PICK u \in ncci_change_state(t, c, "DISCONNECT_B3_REQ") :
                \E v \in send_message(u, "DISCONNECT_B3_REQ", n.ncci, 0) : Become(v)
      BY <1>1, <2>1 DEF capidrv_command_hangup
    <3>2. PICK v \in send_message(u, "DISCONNECT_B3_REQ", n.ncci, 0) : Become(v)
      BY <3>1
    <3>3. Kept(t, u)
      BY <1>3, NcciCases
    <3>4. Sound(u) /\ u.k.incoming = card.incoming
      BY <1>3, <3>3, KeptSound DEF Kept
    <3>5. Sound(v) /\ v.k = u.k
      BY <3>4, SendToOrphan
    <3>. QED BY <3>2, <3>4, <3>5
  <2>2. CASE n = Null /\ ~Become(t)
    <3>1. /\ x # Null /\ x.plci # 0
          /\ \E v \in send_message(plci_change_state(t, c, "DISCONNECT_REQ"),
                                   "DISCONNECT_REQ", x.plci, 0) : Become(v)
      BY <1>1, <2>2 DEF capidrv_command_hangup
    <3>2. PICK s : s = plci_change_state(t, c, "DISCONNECT_REQ")
      OBVIOUS
    <3>3. PICK p, I : p = x.plci /\ I = card.incoming
      OBVIOUS
    <3>4. OnCall(t, c, p, I)
      <4>1. Structures(t.k.plcip, t.k.plci_list, t.k.incoming, t.k.told)
        BY <1>3 DEF Sound, Agree
      <4>2. x \in Plcis
        BY <1>1, <1>3, <3>1, <4>1 DEF Structures
      <4>3. p \in Plci
        BY <3>1, <3>3, <4>2 DEF Plcis
      <4>. QED BY <1>1, <1>3, <3>1, <3>3, <4>3 DEF OnCall, Owns
    <3>5. OnCall(s, c, p, I)
      BY <3>2, <3>4, CallSteps DEF CallEvents
    <3>6. PICK v \in send_message(s, "DISCONNECT_REQ", p, 0) : Become(v)
      BY <3>1, <3>2, <3>3
    <3>7. OnCall(v, c, p, I)
      BY <3>5, CallSends DEF Requests
    <3>. QED BY <3>3, <3>6, <3>7 DEF OnCall
  <2>. QED BY <1>3, <2>1, <2>2
<1>5. PICK u : Sound(u) /\ u.k.incoming = card.incoming /\ Become(u)
  BY <1>4
<1>6. Sound(now)' /\ card' = u.k
  BY <1>5, Became
<1>. QED BY <1>5, <1>6 DEF UpInv, capidrv_command_hangup

LEMMA SendBuf ==
  ASSUME UpInv, NEW c \in Chan, if_sendbuf(c)
  PROVE  UpInv'
<1>1. Sound(now) /\ Shape(now) /\ now.k = card /\ now.l = line
  BY NowIs DEF Sound
<1>2. PICK a, b, n : card' = [card EXCEPT !.nccip[c].acks = a, !.nccip[c].handle = b] /\ n = card'.nccip
  BY DEF if_sendbuf
<1>3. PICK i, e : line' = [line EXCEPT !.data[i] = e]
  BY DEF if_sendbuf
<1>4. /\ IsCard(card') /\ card'.plcip = card.plcip /\ card'.plci_list = card.plci_list
      /\ card'.incoming = card.incoming /\ card'.told = card.told
  <2>1. PICK k : k = [card EXCEPT !.nccip[c].acks = a]
    OBVIOUS
  <2>2. card' = [k EXCEPT !.nccip[c].handle = b]
    BY <1>2, <2>1
  <2>3. /\ IsCard(k) /\ k.plcip = card.plcip /\ k.plci_list = card.plci_list
        /\ k.incoming = card.incoming /\ k.told = card.told
    BY <1>1, <2>1 DEF Shape, IsCard
  <2>. QED BY <2>2, <2>3 DEF IsCard
<1>5. IsLine(line') /\ line'.d = line.d /\ line'.up = line.up
  BY <1>1, <1>3 DEF Shape, IsLine
<1>6. PICK u : u = [k |-> card', l |-> line'] /\ u = now'
  BY DEF now
<1>7. Kept(now, u)
  BY <1>1, <1>4, <1>5, <1>6 DEF Kept, Shape
<1>8. Sound(now)'
  BY <1>1, <1>6, <1>7, KeptSound
<1>. QED BY <1>4, <1>8 DEF UpInv, if_sendbuf

LEMMA ListenTimer ==
  ASSUME UpInv, listentimerfunc
  PROVE  UpInv'
<1>1. PICK t \in send_message(now, "LISTEN_REQ", 0, 0) :
        Become([t EXCEPT !.k = listen_change_state(@, "REQ")])
  BY DEF listentimerfunc
<1>2. Sound(t)
  BY <1>1, NowIs, SendListen
<1>3. Kept(t, [t EXCEPT !.k = listen_change_state(@, "REQ")])
  BY <1>2, QuietOps DEF Sound
<1>4. PICK u : u = [t EXCEPT !.k = listen_change_state(@, "REQ")]
  OBVIOUS
<1>5. Sound(u)
  BY <1>2, <1>3, <1>4, KeptSound
<1>6. Sound(now)'
  BY <1>1, <1>4, <1>5, Became
<1>7. icall' = Null
  BY DEF listentimerfunc, Idle
<1>. QED BY <1>6, <1>7 DEF UpInv

-------------------------------------------------------------------------------
(* The steps of the device. *)

LEMMA LineStep ==
  ASSUME UpInv, UNCHANGED <<card, icall>>, Fits(now, line')
  PROVE  UpInv'
<1>1. PICK n, u : n = line' /\ u = [now EXCEPT !.l = n]
  OBVIOUS
<1>2. Sound(u) /\ u.k = card /\ u.l = n
  BY <1>1, NowIs, LineSet
<1>3. Become(u)
  BY <1>1, <1>2 DEF Become
<1>4. Sound(now)'
  BY <1>2, <1>3, Became
<1>. QED BY <1>4 DEF UpInv

LEMMA SignalSent ==
  ASSUME UpInv, UNCHANGED <<card, icall>>, NEW p \in Plci,
         NEW l, IsLine(l), Moved(line, l, p), l.up = line.up,
         NEW cmd, NEW id, Neutral(Msg(cmd, TRUE, id)), line' = Conf(l, p, cmd, TRUE, id)
  PROVE  UpInv'
<1>1. PICK n, m : n = line' /\ m = Msg(cmd, TRUE, id)
  OBVIOUS
<1>2. n = Up(l, p, m) /\ Neutral(m)
  BY <1>1 DEF Conf
<1>3. IsLine(n) /\ Moved(line, n, p) /\ Grown(line, n, p)
  BY <1>2, ConfSent
<1>4. Fits(now, n)
  BY <1>3, NowIs, MovedSound
<1>. QED BY <1>1, <1>4, LineStep

LEMMA NeutralSignal ==
  ASSUME NEW cmd \in Commands \ {"CONNECT_IND", "CONNECT_CONF", "DISCONNECT_IND"}, NEW id
  PROVE  Neutral(Msg(cmd, TRUE, id))
  BY DEF Neutral, Begins, Finishes, Msg

LEMMA B3Signal ==
  ASSUME UpInv, NEW p \in Plci, NEW from, NEW to,
         NEW cmd \in Commands \ {"CONNECT_IND", "CONNECT_CONF", "DISCONNECT_IND"},
         ReportsB3(p, from, to, cmd)
  PROVE  UpInv'
<1>1. PICK l : l = [line EXCEPT !.b[p] = to]
  OBVIOUS
<1>2. IsLine(l) /\ Moved(line, l, p) /\ l.up = line.up
  BY <1>1, NowIs DEF Sound, Shape, IsLine, Moved
<1>3. line' = Conf(l, p, cmd, TRUE, 0) /\ UNCHANGED <<card, icall>>
  BY <1>1 DEF ReportsB3, Device, Ind, Conf
<1>. QED BY <1>2, <1>3, SignalSent, NeutralSignal

LEMMA Confirmed ==
  ASSUME UpInv, NEW p \in Plci, Confirms(p)
  PROVE  UpInv'
<1>1. PICK e : e = Tail(line.data[p])
  OBVIOUS
<1>2. PICK l : l = [line EXCEPT !.data[p] = e]
  OBVIOUS
<1>3. IsLine(l) /\ Moved(line, l, p) /\ l.up = line.up
  BY <1>2, NowIs DEF Sound, Shape, IsLine, Moved
<1>4. PICK id : line' = Conf(l, p, "DATA_B3_CONF", TRUE, id)
  BY <1>1, <1>2 DEF Confirms
<1>5. UNCHANGED <<card, icall>>
  BY DEF Confirms
<1>. QED BY <1>3, <1>4, <1>5, SignalSent, NeutralSignal DEF Commands

LEMMA CallAnswered ==
  ASSUME UpInv, NEW p \in Plci, Answered(p)
  PROVE  UpInv'
<1>1. PICK e : /\ Moves(line.d[p], e) /\ UNCHANGED <<card, icall>>
               /\ line' = Ind([line EXCEPT !.d[p] = e], p, "CONNECT_ACTIVE_IND")
  <2>1. CASE Reports(p, {"out"}, "out_act", "CONNECT_ACTIVE_IND")
    BY <2>1 DEF Reports, Device, Moves, Outgoing, Incoming
  <2>2. CASE Reports(p, {"in_acc"}, "in_act", "CONNECT_ACTIVE_IND")
    BY <2>2 DEF Reports, Device, Moves, Outgoing, Incoming
  <2>. QED BY <2>1, <2>2 DEF Answered
<1>2. PICK l : l = [line EXCEPT !.d[p] = e]
  OBVIOUS
<1>3. IsLine(l) /\ l.d = [line.d EXCEPT ![p] = e] /\ l.up = line.up
  BY <1>2, NowIs DEF Sound, Shape, IsLine
<1>4. Moved(line, l, p)
  BY <1>1, <1>3 DEF Moved
<1>5. line' = Conf(l, p, "CONNECT_ACTIVE_IND", TRUE, 0)
  BY <1>1, <1>2 DEF Ind, Conf
<1>. QED BY <1>1, <1>3, <1>4, <1>5, SignalSent, NeutralSignal DEF Commands

(* A message that begins or ends a call, with the state of the connection. *)
Reported(p, from, to, m) ==
  /\ line.d[p] \in from /\ UNCHANGED <<card, icall>> /\ IsLine(line')
  /\ line'.d = [line.d EXCEPT ![p] = to]
  /\ line'.up = [line.up EXCEPT ![p] = Append(line.up[p], m)]

LEMMA ReportEffect ==
  ASSUME UpInv, NEW p \in Plci, NEW from, NEW to, NEW cmd, Reports(p, from, to, cmd),
         NEW m, m = Msg(cmd, TRUE, 0)
  PROVE  Reported(p, from, to, m)
<1>1. PICK l : l = [line EXCEPT !.d[p] = to]
  OBVIOUS
<1>2. IsLine(l) /\ l.d = [line.d EXCEPT ![p] = to] /\ l.up = line.up
  BY <1>1, NowIs DEF Sound, Shape, IsLine
<1>3. line' = Up(l, p, m)
  BY <1>1 DEF Reports, Ind
<1>4. IsLine(line') /\ line'.d = l.d /\ line'.up = [l.up EXCEPT ![p] = Append(l.up[p], m)]
  BY <1>2, <1>3 DEF IsLine, Up
<1>. QED BY <1>2, <1>4 DEF Reported, Reports, Device

LEMMA CallRings ==
  ASSUME UpInv, NEW p \in Plci, Ring(p)
  PROVE  UpInv'
<1>1. PICK m, e : m = Msg("CONNECT_IND", TRUE, 0) /\ e = "in"
  OBVIOUS
<1>2. /\ line.d[p] = "idle" /\ UNCHANGED <<card, icall>> /\ IsLine(line')
      /\ line'.d = [line.d EXCEPT ![p] = e]
      /\ line'.up = [line.up EXCEPT ![p] = Append(line.up[p], m)]
  <2>1. Reports(p, {"idle"}, e, "CONNECT_IND")
    BY <1>1 DEF Ring
  <2>2. Reported(p, {"idle"}, e, m)
    BY <1>1, <2>1, ReportEffect
  <2>. QED BY <2>2 DEF Reported
<1>3. PICK P, L, I, T, D, U : /\ P = card.plcip /\ L = card.plci_list /\ I = card.incoming
                              /\ T = card.told /\ D = line.d /\ U = line.up
  OBVIOUS
<1>4. Agree(P, L, I, T, D, U)
  BY <1>3, NowIs DEF Sound
<1>5. Starts(P, L, U, m, e)
  BY <1>1 DEF Starts, Msg
<1>6. PICK E, V : E = line'.d /\ V = line'.up
  OBVIOUS
<1>7. Agree(P, L, I, T, E, V)
  BY <1>2, <1>3, <1>4, <1>5, <1>6, LineBegins
<1>8. Fits(now, line')
  BY <1>2, <1>3, <1>6, <1>7, NowIs DEF Fits
<1>. QED BY <1>2, <1>8, LineStep

LEMMA CallEnds ==
  ASSUME UpInv, NEW p \in Plci, NEW from, "idle" \notin from, "gone" \notin from, Ends(p, from)
  PROVE  UpInv'
<1>1. PICK m : m = Msg("DISCONNECT_IND", TRUE, 0)
  OBVIOUS
<1>2. /\ line.d[p] # "idle" /\ line.d[p] # "gone" /\ UNCHANGED <<card, icall>> /\ IsLine(line')
      /\ line'.d = [line.d EXCEPT ![p] = "gone"]
      /\ line'.up = [line.up EXCEPT ![p] = Append(line.up[p], m)]
  <2>1. Reports(p, from, "gone", "DISCONNECT_IND")
    BY DEF Ends
  <2>2. Reported(p, from, "gone", m)
    BY <1>1, <2>1, ReportEffect
  <2>. QED BY <2>2 DEF Reported
<1>3. PICK P, L, I, T, D, U : /\ P = card.plcip /\ L = card.plci_list /\ I = card.incoming
                              /\ T = card.told /\ D = line.d /\ U = line.up
  OBVIOUS
<1>4. Agree(P, L, I, T, D, U) /\ m.cmd = "DISCONNECT_IND"
  BY <1>1, <1>3, NowIs DEF Sound, Msg
<1>5. PICK E, V : E = line'.d /\ V = line'.up
  OBVIOUS
<1>6. Agree(P, L, I, T, E, V)
  BY <1>2, <1>3, <1>4, <1>5, LineEnds, SMTT(30)
<1>7. Fits(now, line')
  BY <1>2, <1>3, <1>5, <1>6, NowIs DEF Fits
<1>. QED BY <1>2, <1>7, LineStep

LEMMA DeviceSteps ==
  ASSUME UpInv, NEW p \in Plci,
         \/ Ring(p) \/ Answered(p) \/ Ends(p, Outgoing \cup Incoming)
         \/ RingB3(p) \/ ActiveB3(p) \/ EndsB3(p, {"in", "alloc", "act"})
         \/ Clears(p) \/ Confirms(p) \/ Receives(p)
  PROVE  UpInv'
<1>1. CASE Ring(p)
  BY <1>1, CallRings
<1>2. CASE Answered(p)
  BY <1>2, CallAnswered
<1>3. CASE Confirms(p)
  BY <1>3, Confirmed
<1>4. CASE Ends(p, Outgoing \cup Incoming) \/ Ends(p, {"clear"})
  <2>1. PICK from : "idle" \notin from /\ "gone" \notin from /\ Ends(p, from)
    BY <1>4 DEF Outgoing, Incoming
  <2>. QED BY <2>1, CallEnds
<1>5. CASE \E from, to : \/ ReportsB3(p, from, to, "CONNECT_B3_IND")
                         \/ ReportsB3(p, from, to, "CONNECT_B3_ACTIVE_IND")
                         \/ ReportsB3(p, from, to, "DISCONNECT_B3_IND")
                         \/ ReportsB3(p, from, to, "DATA_B3_IND")
  <2>1. PICK from, to, cmd : /\ ReportsB3(p, from, to, cmd)
                             /\ cmd \in {"CONNECT_B3_IND", "CONNECT_B3_ACTIVE_IND",
                                         "DISCONNECT_B3_IND", "DATA_B3_IND"}
    BY <1>5
  <2>2. cmd \in Commands \ {"CONNECT_IND", "CONNECT_CONF", "DISCONNECT_IND"}
    BY <2>1 DEF Commands
  <2>. QED BY <2>1, <2>2, B3Signal
<1>. QED BY <1>1, <1>2, <1>3, <1>4, <1>5 DEF RingB3, ActiveB3, EndsB3, Clears, Receives

-------------------------------------------------------------------------------
(* The specification. *)

LEMMA FirstState ==
  ASSUME NEW k, NEW l, k = [NewCard EXCEPT !.state = k.state],
         l = NewLine \/ l = [NewLine EXCEPT !.listening = l.listening],
         NEW s, s = [k |-> k, l |-> l]
  PROVE  Sound(s)
<1>1. /\ IsCard(k) /\ k.plcip = [c \in Chan |-> Null] /\ k.plci_list = <<>>
      /\ k.incoming = {} /\ k.told = [c \in Chan |-> "free"]
  BY DrvAssumption DEF IsCard, NewCard
<1>2. /\ IsLine(l) /\ l.d = [p \in Plci |-> "idle"] /\ l.up = [p \in Plci \cup {0} |-> <<>>]
  BY DEF IsLine, NewLine
<1>3. PICK P, T, D, U : P = k.plcip /\ T = k.told /\ D = l.d /\ U = l.up
  OBVIOUS
<1>5. IsSeq(<<>>) /\ Entries(<<>>) = {}
  BY DEF IsSeq, Entries
<1>6. Structures(P, <<>>, {}, T)
  <2>1. <<>> \in Seq(Chan) /\ 1 .. Len(<<>>) = {} /\ Distinct(<<>>)
    BY DEF Distinct
  <2>. QED BY <1>1, <1>3, <2>1 DEF Structures
<1>7. \A p \in Plci \cup {0} : U[p] = <<>>
  BY <1>2, <1>3
<1>8. Lines(D, U)
  <2>1. D \in [Plci -> DStates] /\ U = [p \in Plci \cup {0} |-> U[p]]
    BY <1>2, <1>3 DEF DStates
  <2>2. \A p \in Plci : Queue(U[p], D[p])
    BY <1>5, <1>7 DEF Queue, HasBegin, HasEnd
  <2>. QED BY <1>5, <1>7, <2>1, <2>2 DEF Lines
<1>9. \A id, p, i : ~Place(U, p, i, id)
  BY <1>2, <1>3, <1>5, <1>7 DEF Place
<1>10. Owners(P, {}, D, U)
  BY <1>1, <1>3 DEF Owners, Owns
<1>11. Agree(P, <<>>, {}, T, D, U)
  BY <1>6, <1>8, <1>9, <1>10 DEF Agree, UniqueIds, Awaited, Pending
<1>. QED BY <1>1, <1>2, <1>3, <1>11 DEF Sound, Shape

(* A controller that is registered, and asks to listen. *)
Begun(k, l, state) ==
  k = [NewCard EXCEPT !.state = state] /\ l \in Take(NewLine, "LISTEN_REQ", 0, 0)

LEMMA BegunSound ==
  ASSUME NEW k, NEW l, NEW state, Begun(k, l, state), NEW u, u = [k |-> k, l |-> l]
  PROVE  Sound(u)
<1>1. k = [NewCard EXCEPT !.state = k.state]
  BY DEF Begun, NewCard
<1>2. PICK s : s = [k |-> k, l |-> NewLine]
  OBVIOUS
<1>3. Sound(s)
  BY <1>1, <1>2, FirstState
<1>4. Fits(s, l)
  BY <1>2, <1>3, TakeListen DEF Begun
<1>5. u = [s EXCEPT !.l = l]
  BY <1>2
<1>. QED BY <1>3, <1>4, <1>5, LineSet

LEMMA InitInv == Init => DrvInv
<1>. SUFFICES ASSUME Init PROVE DrvInv
  OBVIOUS
<1>1. Begun(card, line, "WAIT_CONF") /\ icall = Null
  BY DEF Init, Begun
<1>2. Sound(now)
  BY <1>1, BegunSound DEF now
<1>. QED BY <1>1, <1>2 DEF DrvInv, Running, UpInv

LEMMA CallInitInv == CallInit => DrvInv
<1>. SUFFICES ASSUME CallInit PROVE DrvInv
  OBVIOUS
<1>1. /\ card = [NewCard EXCEPT !.state = card.state] /\ icall = Null
      /\ line = [NewLine EXCEPT !.listening = line.listening]
  BY DEF CallInit, NewCard, NewLine
<1>2. Sound(now)
  BY <1>1, FirstState DEF now
<1>. QED BY <1>1, <1>2 DEF DrvInv, Running, UpInv

LEMMA CallStep ==
  ASSUME DrvInv, CallNext
  PROVE  DrvInv'
<1>. USE DEF DrvInv
<1>1. pc' = pc
  BY DEF CallNext, capidrv_recv_message, handle_incoming_call, icall_rejected, icall_taken,
         capidrv_command_dial, capidrv_command_acceptd, capidrv_command_hangup,
         Ring, Answered, Ends, RingB3, ActiveB3, EndsB3, Clears, Reports, ReportsB3, Device
<1>2. CASE pc = "removed"
  <2>1. icall' = icall
    BY <1>2 DEF CallNext, capidrv_recv_message, handle_incoming_call, icall_rejected, icall_taken,
         capidrv_command_dial, capidrv_command_acceptd, capidrv_command_hangup, HasCard,
         Ring, Answered, Ends, RingB3, ActiveB3, EndsB3, Clears, Reports, ReportsB3, Device
  <2>. QED BY <1>1, <1>2, <2>1 DEF Running
<1>3. CASE Running
  <2>1. UpInv /\ (UpInv' => DrvInv')
    BY <1>1, <1>3 DEF Running
  <2>2. CASE \E p \in DOMAIN line.up : capidrv_recv_message(p) \/ handle_incoming_call(p)
    <3>1. DOMAIN line.up = Plci \cup {0}
      BY <2>1, NowIs DEF Sound, Agree, Lines
    <3>. QED BY <1>3, <2>1, <2>2, <3>1, RecvMessage, IncomingCall
  <2>3. CASE icall_rejected \/ icall_taken
    BY <1>3, <2>1, <2>3, IcallRejected, IcallTaken
  <2>4. CASE \E c \in Chan : \/ capidrv_command_dial(c) \/ capidrv_command_acceptd(c)
                             \/ capidrv_command_hangup(c)
    BY <1>3, <2>1, <2>4, CommandDial, CommandAcceptd, CommandHangup
  <2>5. CASE \E p \in Plci : \/ Ring(p) \/ Answered(p) \/ Ends(p, Outgoing \cup Incoming)
                             \/ RingB3(p) \/ ActiveB3(p)
                             \/ EndsB3(p, {"in", "alloc", "act"})
                             \/ Clears(p)
    BY <2>1, <2>5, DeviceSteps
  <2>. QED BY <2>2, <2>3, <2>4, <2>5 DEF CallNext
<1>. QED BY <1>1, <1>2, <1>3 DEF Running

LEMMA RemovalStep ==
  ASSUME DrvInv,
         \/ unregister_capi_device \/ capidrv_delcontr \/ capidrv_delcontr_disch
         \/ capidrv_delcontr_free \/ capidrv_delcontr_next \/ capidrv_delcontr_unlist
  PROVE  DrvInv'
<1>1. CASE unregister_capi_device
  <2>1. pc = "up" /\ pc' = "unregistered" /\ icall' = icall /\ card' = card /\ line' = line
    BY <1>1 DEF unregister_capi_device
  <2>2. now' = now
    BY <2>1 DEF now
  <2>. QED BY <2>1, <2>2 DEF DrvInv, Running, UpInv
<1>2. CASE \/ capidrv_delcontr \/ capidrv_delcontr_disch \/ capidrv_delcontr_free
           \/ capidrv_delcontr_next \/ capidrv_delcontr_unlist
  <2>1. pc' \notin {"up", "unregistered"} /\ (pc' = "removed" => icall' = Null)
    BY <1>2 DEF capidrv_delcontr, capidrv_delcontr_disch, capidrv_delcontr_free,
         capidrv_delcontr_next, capidrv_delcontr_unlist, Removing, Idle
  <2>. QED BY <2>1 DEF DrvInv, Running
<1>. QED BY <1>1, <1>2

LEMMA AddStep ==
  ASSUME DrvInv, capidrv_addcontr
  PROVE  DrvInv'
<1>1. Begun(card', line', "WAIT_CONF") /\ icall' = Null /\ pc' = "up"
  BY DEF capidrv_addcontr, Begun, DrvInv
<1>2. PICK u : u = [k |-> card', l |-> line'] /\ u = now'
  BY DEF now
<1>3. Sound(u)
  BY <1>1, <1>2, BegunSound
<1>4. Sound(now)'
  BY <1>2, <1>3
<1>. QED BY <1>1, <1>4 DEF DrvInv, Running, UpInv

LEMMA NextInv == DrvInv /\ [Next]_vars => DrvInv'
<1>. SUFFICES ASSUME DrvInv, [Next]_vars PROVE DrvInv'
  OBVIOUS
<1>1. CASE CallNext
  BY <1>1, CallStep
<1>2. CASE \/ \E c \in Chan : if_sendbuf(c)
           \/ \E p \in Plci : Confirms(p) \/ Receives(p)
           \/ listentimerfunc
  <2>1. pc' = pc
    BY <1>2 DEF if_sendbuf, Confirms, Receives, ReportsB3, Device, listentimerfunc
  <2>2. CASE Running
    <3>1. UpInv /\ (UpInv' => DrvInv')
      BY <2>1, <2>2 DEF DrvInv, Running
    <3>. QED BY <1>2, <2>2, <3>1, SendBuf, ListenTimer, DeviceSteps
  <2>3. CASE ~Running
    <3>1. icall' = icall
      BY <1>2 DEF if_sendbuf, Confirms, Receives, ReportsB3, Device, listentimerfunc
    <3>. QED BY <2>1, <2>3, <3>1 DEF DrvInv, Running
  <2>. QED BY <2>2, <2>3
<1>3. CASE \/ unregister_capi_device \/ capidrv_delcontr \/ capidrv_delcontr_disch
           \/ capidrv_delcontr_free \/ capidrv_delcontr_next \/ capidrv_delcontr_unlist
  BY <1>3, RemovalStep
<1>4. CASE capidrv_addcontr
  BY <1>4, AddStep
<1>5. CASE UNCHANGED vars
  <2>1. now' = now
    BY <1>5 DEF now, vars
  <2>. QED BY <1>5, <2>1 DEF vars, DrvInv, Running, UpInv
<1>. QED BY <1>1, <1>2, <1>3, <1>4, <1>5 DEF Next

(* The invariant of a controller that may leave, and return.               *)
THEOREM DrvInvariant == Spec => []DrvInv
<1>. QED BY InitInv, NextInv, PTL DEF Spec

(* The invariant of a controller that listens and stays.                   *)
THEOREM CallInvariant == CallSpec => []DrvInv
<1>1. DrvInv /\ [CallNext]_vars => DrvInv'
  BY NextInv DEF Next
<1>. QED BY <1>1, CallInitInv, PTL DEF CallSpec

-------------------------------------------------------------------------------
(* The properties. *)

LEMMA CallOwns ==
  ASSUME UpInv, NEW c \in Chan, HasCall(c)
  PROVE  /\ card.plcip[c].plci \in Plci
         /\ Owns(card.plcip, c, card.plcip[c].plci)
         /\ Owners(card.plcip, card.incoming, line.d, line.up)
<1>1. /\ Structures(card.plcip, card.plci_list, card.incoming, card.told)
      /\ Owners(card.plcip, card.incoming, line.d, line.up)
  BY NowIs DEF Sound, Agree
<1>2. card.plcip[c] \in Plcis /\ card.plcip[c] # Null /\ card.plcip[c].plci # 0
  BY <1>1 DEF Structures, HasCall
<1>3. card.plcip[c].plci \in Plci
  BY <1>2 DEF Plcis
<1>. QED BY <1>1, <1>2, <1>3 DEF Owns

LEMMA InvCallsOnLine == DrvInv => CallsAreOnLine
<1>. SUFFICES ASSUME DrvInv, pc = "up", NEW c \in Chan, HasCall(c)
              PROVE  /\ line.d[card.plcip[c].plci] # "idle"
                     /\ \A x \in Chan \ {c} : HasCall(x) => card.plcip[x].plci # card.plcip[c].plci
  BY DEF CallsAreOnLine
<1>1. UpInv
  BY DEF DrvInv, Running
<1>2. PICK p : p = card.plcip[c].plci
  OBVIOUS
<1>3. p \in Plci /\ Owns(card.plcip, c, p) /\ Owners(card.plcip, card.incoming, line.d, line.up)
  BY <1>1, <1>2, CallOwns
<1>4. line.d[p] # "idle" /\ \A x \in Chan : Owns(card.plcip, x, p) => x = c
  BY <1>3 DEF Owners
<1>5. ASSUME NEW x \in Chan \ {c}, HasCall(x) PROVE card.plcip[x].plci # p
  <2>1. Owns(card.plcip, x, card.plcip[x].plci)
    BY <1>1, <1>5, CallOwns
  <2>. QED BY <1>4, <1>5, <2>1
<1>. QED BY <1>2, <1>4, <1>5

LEMMA InvRolesAgree == DrvInv => RolesAgree
<1>. SUFFICES ASSUME DrvInv, pc = "up", NEW c \in Chan, HasCall(c)
              PROVE  /\ line.d[card.plcip[c].plci] \in Outgoing => c \notin card.incoming
                     /\ line.d[card.plcip[c].plci] \in Incoming => c \in card.incoming
  BY DEF RolesAgree
<1>1. UpInv
  BY DEF DrvInv, Running
<1>2. PICK p : p = card.plcip[c].plci
  OBVIOUS
<1>3. p \in Plci /\ Owns(card.plcip, c, p) /\ Owners(card.plcip, card.incoming, line.d, line.up)
  BY <1>1, <1>2, CallOwns
<1>. QED BY <1>2, <1>3 DEF Owners

LEMMA InvConfFindsCall == DrvInv => ConfFindsCall
<1>. SUFFICES ASSUME DrvInv, pc = "up", NEW p \in DOMAIN line.up, NEW i \in DOMAIN line.up[p],
                     line.up[p][i].cmd = "CONNECT_CONF",
                     NEW c, c = find_plci_by_msgid(card, line.up[p][i].id)
              PROVE  c # Null /\ card.plcip[c].state = "OUTGOING"
  BY DEF ConfFindsCall
<1>1. UpInv
  BY DEF DrvInv, Running
<1>2. Lines(line.d, line.up) /\ Awaited(card.plcip, card.plci_list, line.up)
  BY <1>1, NowIs DEF Sound, Agree
<1>3. PICK id : id = line.up[p][i].id
  OBVIOUS
<1>4. p \in Plci \cup {0} /\ IsSeq(line.up[p])
  BY <1>2 DEF Lines, Queue
<1>5. i \in Entries(line.up[p])
  BY <1>4 DEF Entries, IsSeq
<1>6. Pending(line.up, id)
  BY <1>3, <1>5 DEF Pending, Place
<1>7. Waits(card.plcip, card.plci_list, id)
  BY <1>2, <1>6 DEF Awaited
<1>8. PICK s : s = now
  OBVIOUS
<1>9. Sound(s) /\ s.k = card
  BY <1>1, <1>8, NowIs
<1>. QED BY <1>3, <1>7, <1>9, FoundByMsgid

(* No structure leads to a connection that the device may use again, and   *)
(* no two to the same one, through refused messages and lost memory, while *)
(* the numbers of connections repeat (plcitable, handle_disconnect_ind).   *)
THEOREM EveryCallIsOnLine == Spec => []CallsAreOnLine
<1>. QED BY DrvInvariant, InvCallsOnLine, PTL

(* A channel takes the direction of its call with the call, whatever kind  *)
(* of call it had before (handle_incoming_call, free_plci).                *)
THEOREM DirectionsAgree == Spec => []RolesAgree
<1>. QED BY DrvInvariant, InvRolesAgree, PTL

(* find_plci_by_msgid finds the call that waits for a CONNECT_CONF first,  *)
(* although message numbers repeat and older structures keep theirs.       *)
THEOREM ConfirmationsFindCalls == Spec => []ConfFindsCall
<1>. QED BY DrvInvariant, InvConfFindsCall, PTL

(* The same of the calls of a controller that listens and stays.           *)
THEOREM CallsAgree == CallSpec => [](CallsAreOnLine /\ RolesAgree /\ ConfFindsCall)
<1>. QED BY CallInvariant, InvCallsOnLine, InvRolesAgree, InvConfFindsCall, PTL

-------------------------------------------------------------------------------
(* Which messages can still create structures: a CONNECT_B3_IND is in the  *)
(* queue of a connection only before the end of its call, and never with   *)
(* the CONNECT_IND of the next one.                                        *)

Has(q, cmd) == \E i \in Entries(q) : q[i].cmd = cmd
Bare(q) == ~Has(q, "CONNECT_IND") /\ ~Has(q, "CONNECT_B3_IND")
Heralds(q, d) ==
  /\ IsSeq(q)
  /\ Has(q, "CONNECT_IND") => ~Has(q, "CONNECT_B3_IND") /\ d \in {"in", "clear", "gone"}
  /\ Has(q, "CONNECT_B3_IND") =>
       d \in {"in_act", "clear", "gone"} /\ (d = "gone" => Has(q, "DISCONNECT_IND"))
  /\ \A i, j \in Entries(q) :
       q[i].cmd = "CONNECT_B3_IND" /\ q[j].cmd = "DISCONNECT_IND" => i < j

Tidy(l) ==
  /\ l.d = [p \in Plci |-> l.d[p]] /\ l.up = [p \in Plci \cup {0} |-> l.up[p]]
  /\ IsSeq(l.up[0]) /\ \A p \in Plci : Heralds(l.up[p], l.d[p])

LEMMA HasAppend ==
  ASSUME NEW q, NEW m, NEW r, Longer(q, m, r), NEW cmd
  PROVE  Has(r, cmd) <=> Has(q, cmd) \/ m.cmd = cmd
<1>1. Len(q) + 1 \in Entries(r)
  BY DEF Longer, Entries
<1>. QED BY <1>1 DEF Longer, Has

LEMMA HasTail ==
  ASSUME NEW q, NEW m, NEW r, Shorter(q, m, r), NEW cmd
  PROVE  Has(q, cmd) <=> Has(r, cmd) \/ m.cmd = cmd
  BY DEF Shorter, Has

(* A message that creates no NCCI and begins and ends no call.             *)
LEMMA HeraldsGrow ==
  ASSUME NEW q, NEW d, Heralds(q, d), NEW m,
         m.cmd \notin {"CONNECT_IND", "CONNECT_B3_IND", "DISCONNECT_IND"},
         NEW r, r = Append(q, m)
  PROVE  Heralds(r, d)
<1>1. Longer(q, m, r)
  BY QueueAppend DEF Heralds
<1>2. \A cmd \in {"CONNECT_IND", "CONNECT_B3_IND", "DISCONNECT_IND"} : Has(r, cmd) <=> Has(q, cmd)
  BY <1>1, HasAppend
<1>3. ASSUME NEW i \in Entries(r), NEW j \in Entries(r),
             r[i].cmd = "CONNECT_B3_IND", r[j].cmd = "DISCONNECT_IND"
      PROVE  i < j
  <2>1. i \in Entries(q) /\ j \in Entries(q) /\ r[i] = q[i] /\ r[j] = q[j]
    BY <1>1, <1>3 DEF Longer
  <2>. QED BY <1>3, <2>1 DEF Heralds
<1>4. IsSeq(r)
  BY <1>1 DEF Longer
<1>. QED BY <1>2, <1>3, <1>4 DEF Heralds

LEMMA HeraldsTaken ==
  ASSUME NEW q, NEW d, Heralds(q, d), q # <<>>, NEW m, m = Head(q), NEW r, r = Tail(q)
  PROVE  /\ m.cmd = "DISCONNECT_IND" => ~Has(r, "CONNECT_B3_IND")
         /\ m.cmd = "CONNECT_IND" => ~Has(r, "CONNECT_B3_IND")
         /\ Heralds(r, d)
<1>1. Shorter(q, m, r)
  BY QueueTail DEF Heralds
<1>2. \A cmd : Has(q, cmd) <=> Has(r, cmd) \/ m.cmd = cmd
  BY <1>1, HasTail
<1>3. ASSUME m.cmd = "DISCONNECT_IND", Has(r, "CONNECT_B3_IND") PROVE FALSE
  <2>1. PICK i \in Entries(r) : r[i].cmd = "CONNECT_B3_IND"
    BY <1>3 DEF Has
  <2>2. i + 1 \in Entries(q) /\ q[i + 1].cmd = "CONNECT_B3_IND" /\ 1 \in Entries(q)
        /\ q[1].cmd = "DISCONNECT_IND" /\ i \in Nat /\ i >= 1
    BY <1>1, <1>3, <2>1 DEF Shorter, Entries
  <2>3. i + 1 < 1
    BY <2>2 DEF Heralds
  <2>. QED BY <2>2, <2>3
<1>4. ASSUME NEW i \in Entries(r), NEW j \in Entries(r),
             r[i].cmd = "CONNECT_B3_IND", r[j].cmd = "DISCONNECT_IND"
      PROVE  i < j
  <2>1. /\ i + 1 \in Entries(q) /\ j + 1 \in Entries(q) /\ i \in Nat /\ j \in Nat
        /\ r[i] = q[i + 1] /\ r[j] = q[j + 1]
    BY <1>1 DEF Shorter, Entries
  <2>2. i + 1 < j + 1
    BY <1>4, <2>1 DEF Heralds
  <2>. QED BY <2>1, <2>2
<1>5. IsSeq(r)
  BY <1>1 DEF Shorter
<1>. QED BY <1>2, <1>3, <1>4, <1>5 DEF Heralds

(* The connection of a queue in which nothing waits for it changes at will. *)
LEMMA HeraldsBare ==
  ASSUME NEW q, NEW d, Heralds(q, d), Bare(q), NEW e
  PROVE  Heralds(q, e)
  BY DEF Heralds, Bare

LEMMA HeraldsClear ==
  ASSUME NEW q, NEW d, Heralds(q, d)
  PROVE  Heralds(q, "clear")
  BY DEF Heralds

LEMMA TidyState ==
  ASSUME NEW l, IsLine(l), Tidy(l), NEW p, NEW e, p \in Plci => Heralds(l.up[p], e),
         NEW n, n = [l EXCEPT !.d[p] = e]
  PROVE  IsLine(n) /\ Tidy(n) /\ n.up = l.up
<1>1. IsLine(n) /\ n.d = [l.d EXCEPT ![p] = e] /\ n.up = l.up
  BY DEF IsLine
<1>2. /\ l.d = [q \in Plci |-> l.d[q]] /\ l.up = [q \in Plci \cup {0} |-> l.up[q]]
      /\ IsSeq(l.up[0]) /\ \A q \in Plci : Heralds(l.up[q], l.d[q])
  BY DEF Tidy
<1>3. n.d = [q \in Plci |-> n.d[q]] /\ \A q \in Plci : n.d[q] = IF q = p THEN e ELSE l.d[q]
  <2>1. PICK D : D = l.d
    OBVIOUS
  <2>2. D = [q \in Plci |-> D[q]] /\ n.d = [D EXCEPT ![p] = e]
    BY <1>1, <1>2, <2>1
  <2>3. n.d = [q \in Plci |-> n.d[q]] /\ \A q \in Plci : n.d[q] = IF q = p THEN e ELSE D[q]
    BY <2>2
  <2>. QED BY <2>1, <2>3
<1>4. \A q \in Plci : Heralds(n.up[q], n.d[q])
  BY <1>1, <1>2, <1>3
<1>. QED BY <1>1, <1>2, <1>3, <1>4 DEF Tidy

LEMMA TidyQuiet ==
  ASSUME NEW l, IsLine(l), Tidy(l)
  PROVE  /\ \A n : n = [l EXCEPT !.b = n.b] => IsLine(n) /\ Tidy(n) /\ n.up = l.up
         /\ \A n : n = [l EXCEPT !.data = n.data] => IsLine(n) /\ Tidy(n) /\ n.up = l.up
         /\ \A n : n = [l EXCEPT !.listening = n.listening] => IsLine(n) /\ Tidy(n) /\ n.up = l.up
         /\ \A n : n = [l EXCEPT !.lost = n.lost] => IsLine(n) /\ Tidy(n) /\ n.up = l.up
<1>1. ASSUME NEW n, \/ n = [l EXCEPT !.b = n.b] \/ n = [l EXCEPT !.data = n.data]
                    \/ n = [l EXCEPT !.listening = n.listening] \/ n = [l EXCEPT !.lost = n.lost]
      PROVE  IsLine(n) /\ n.d = l.d /\ n.up = l.up
  BY <1>1 DEF IsLine
<1>2. ASSUME NEW n, n.d = l.d, n.up = l.up PROVE Tidy(n)
  BY <1>2 DEF Tidy
<1>. QED BY <1>1, <1>2

LEMMA TidyConf ==
  ASSUME NEW l, IsLine(l), Tidy(l), NEW p, NEW m,
         m.cmd \notin {"CONNECT_IND", "CONNECT_B3_IND", "DISCONNECT_IND"}, NEW n, n = Up(l, p, m)
  PROVE  IsLine(n) /\ Tidy(n)
<1>1. PICK r : r = Append(l.up[p], m)
  OBVIOUS
<1>2. IsLine(n) /\ n.d = l.d /\ n.up = [l.up EXCEPT ![p] = r]
  BY <1>1 DEF IsLine, Up
<1>3. /\ l.d = [q \in Plci |-> l.d[q]] /\ l.up = [q \in Plci \cup {0} |-> l.up[q]]
      /\ IsSeq(l.up[0]) /\ \A q \in Plci : Heralds(l.up[q], l.d[q])
  BY DEF Tidy
<1>4. /\ n.up = [q \in Plci \cup {0} |-> n.up[q]]
      /\ \A q \in Plci \cup {0} : n.up[q] = IF q = p THEN r ELSE l.up[q]
  <2>1. PICK U : U = l.up
    OBVIOUS
  <2>2. U = [q \in Plci \cup {0} |-> U[q]] /\ n.up = [U EXCEPT ![p] = r]
    BY <1>2, <1>3, <2>1
  <2>3. /\ n.up = [q \in Plci \cup {0} |-> n.up[q]]
        /\ \A q \in Plci \cup {0} : n.up[q] = IF q = p THEN r ELSE U[q]
    BY <2>2
  <2>. QED BY <2>1, <2>3
<1>5. ASSUME NEW q \in Plci PROVE Heralds(n.up[q], n.d[q])
  <2>1. q = p => Heralds(r, l.d[q])
    BY <1>1, <1>3, HeraldsGrow
  <2>. QED BY <1>2, <1>3, <1>4, <2>1
<1>6. IsSeq(n.up[0])
  <2>1. IsSeq(l.up[0]) => Longer(l.up[0], m, Append(l.up[0], m))
    BY QueueAppend
  <2>2. 0 = p => IsSeq(r)
    BY <1>1, <1>3, <2>1 DEF Longer
  <2>. QED BY <1>3, <1>4, <2>2
<1>. QED BY <1>2, <1>3, <1>4, <1>5, <1>6 DEF Tidy

(* The device takes a request.  CONNECT_RESP is sent after the CONNECT_IND *)
(* was handled, and DISCONNECT_RESP when nothing else waits.               *)
LEMMA TidyTake ==
  ASSUME NEW l, IsLine(l), Tidy(l), NEW cmd, NEW p, NEW id,
         cmd = "CONNECT_RESP" /\ p \in Plci => ~Has(l.up[p], "CONNECT_IND"),
         cmd = "DISCONNECT_RESP" /\ p \in Plci => Bare(l.up[p]),
         NEW n \in Take(l, cmd, p, id)
  PROVE  IsLine(n) /\ Tidy(n)
<1>0. \A q \in Plci : Heralds(l.up[q], l.d[q])
  BY DEF Tidy
<1>1. \A k, c, q, ok, i :
        IsLine(k) /\ Tidy(k) /\ c \notin {"CONNECT_IND", "CONNECT_B3_IND", "DISCONNECT_IND"}
          => IsLine(Conf(k, q, c, ok, i)) /\ Tidy(Conf(k, q, c, ok, i))
  <2>1. ASSUME NEW k, NEW c, NEW q, NEW ok, NEW i, IsLine(k), Tidy(k),
               c \notin {"CONNECT_IND", "CONNECT_B3_IND", "DISCONNECT_IND"}
        PROVE  IsLine(Conf(k, q, c, ok, i)) /\ Tidy(Conf(k, q, c, ok, i))
    <3>1. PICK m : m = Msg(c, ok, i)
      OBVIOUS
    <3>2. Conf(k, q, c, ok, i) = Up(k, q, m) /\ m.cmd = c
      BY <3>1 DEF Conf, Msg
    <3>. QED BY <2>1, <3>2, TidyConf
  <2>. QED BY <2>1
<1>2. CASE cmd = "LISTEN_REQ"
  <2>1. PICK k : k = [l EXCEPT !.listening = TRUE]
    OBVIOUS
  <2>2. k = [l EXCEPT !.listening = k.listening]
    BY <2>1 DEF IsLine
  <2>3. IsLine(k) /\ Tidy(k)
    BY <2>2, TidyQuiet
  <2>4. n = Conf(k, 0, "LISTEN_CONF", TRUE, 0) \/ n = Conf(l, 0, "LISTEN_CONF", FALSE, 0)
    BY <1>2, <2>1 DEF Take
  <2>. QED BY <1>1, <2>3, <2>4
<1>3. CASE cmd = "CONNECT_REQ"
  <2>1. ASSUME NEW q \in Plci, l.d[q] = "idle",
               n = Conf([l EXCEPT !.d[q] = "out"], q, "CONNECT_CONF", TRUE, id)
        PROVE  IsLine(n) /\ Tidy(n)
    <3>1. PICK k : k = [l EXCEPT !.d[q] = "out"]
      OBVIOUS
    <3>2. Bare(l.up[q])
      BY <1>0, <2>1 DEF Heralds, Bare
    <3>3. Heralds(l.up[q], "out")
      BY <1>0, <2>1, <3>2, HeraldsBare
    <3>4. IsLine(k) /\ Tidy(k)
      BY <3>1, <3>3, TidyState
    <3>. QED BY <1>1, <2>1, <3>1, <3>4
  <2>2. \/ n = Conf(l, 0, "CONNECT_CONF", FALSE, id)
        \/ \E q \in Plci : l.d[q] = "idle" /\ n = Conf([l EXCEPT !.d[q] = "out"], q, "CONNECT_CONF", TRUE, id)
    BY <1>3 DEF Take
  <2>. QED BY <1>1, <2>1, <2>2
<1>4. CASE cmd \in {"CONNECT_RESP", "CONNECT_REJECT"}
  <2>1. PICK e : e = IF cmd = "CONNECT_RESP" THEN "in_acc" ELSE "clear"
    OBVIOUS
  <2>2. n = l \/ (l.d[p] = "in" /\ n = [l EXCEPT !.d[p] = e])
    BY <1>4, <2>1 DEF Take
  <2>3. p \in Plci /\ l.d[p] = "in" => Heralds(l.up[p], e)
    <3>1. ASSUME p \in Plci, l.d[p] = "in", cmd = "CONNECT_RESP" PROVE Bare(l.up[p])
      BY <1>0, <3>1 DEF Heralds, Bare
    <3>. QED BY <1>0, <1>4, <2>1, <3>1, HeraldsBare, HeraldsClear
  <2>. QED BY <2>2, <2>3, TidyState
<1>5. CASE cmd = "DISCONNECT_REQ"
  <2>1. PICK k : k = [l EXCEPT !.d[p] = "clear"]
    OBVIOUS
  <2>2. p \in Plci => Heralds(l.up[p], "clear")
    BY <1>0, HeraldsClear
  <2>3. IsLine(k) /\ Tidy(k)
    BY <2>1, <2>2, TidyState
  <2>4. \/ n = Conf(k, p, "DISCONNECT_CONF", TRUE, 0)
        \/ n = Conf(l, p, "DISCONNECT_CONF", FALSE, 0)
    BY <1>5, <2>1 DEF Take
  <2>. QED BY <1>1, <2>3, <2>4
<1>6. CASE cmd = "DISCONNECT_RESP"
  <2>1. PICK k, k2 : /\ k = [l EXCEPT !.d[p] = "idle"] /\ k2 = [k EXCEPT !.b[p] = "none"]
    OBVIOUS
  <2>2. n = l \/ n = [k2 EXCEPT !.data[p] = <<>>]
    BY <1>6, <2>1 DEF Take
  <2>3. p \in Plci => Heralds(l.up[p], "idle")
    BY <1>0, <1>6, HeraldsBare
  <2>4. IsLine(k) /\ Tidy(k)
    BY <2>1, <2>3, TidyState
  <2>5. k2 = [k EXCEPT !.b = k2.b]
    BY <2>1, <2>4 DEF IsLine
  <2>6. IsLine(k2) /\ Tidy(k2)
    BY <2>4, <2>5, TidyQuiet
  <2>7. ASSUME n = [k2 EXCEPT !.data[p] = <<>>] PROVE n = [k2 EXCEPT !.data = n.data]
    BY <2>6, <2>7 DEF IsLine
  <2>. QED BY <2>2, <2>6, <2>7, TidyQuiet
<1>7. CASE cmd \in {"CONNECT_B3_REQ", "DISCONNECT_B3_REQ"}
  <2>1. PICK c : /\ c \in {"CONNECT_B3_CONF", "DISCONNECT_B3_CONF"}
                 /\ \/ n = l
                    \/ n = Conf(l, p, c, FALSE, 0)
                    \/ n = Conf([l EXCEPT !.b[p] = "alloc"], p, c, TRUE, 0)
                    \/ n = Conf([l EXCEPT !.b[p] = "clear"], p, c, TRUE, 0)
    BY <1>7 DEF Take
  <2>2. PICK a, z : a = [l EXCEPT !.b[p] = "alloc"] /\ z = [l EXCEPT !.b[p] = "clear"]
    OBVIOUS
  <2>3. a = [l EXCEPT !.b = a.b] /\ z = [l EXCEPT !.b = z.b]
    BY <2>2 DEF IsLine
  <2>4. IsLine(a) /\ Tidy(a) /\ IsLine(z) /\ Tidy(z)
    BY <2>3, TidyQuiet
  <2>5. c \notin {"CONNECT_IND", "CONNECT_B3_IND", "DISCONNECT_IND"}
    BY <2>1
  <2>6. CASE n = Conf(l, p, c, FALSE, 0)
    BY <1>1, <2>5, <2>6
  <2>7. CASE n = Conf(a, p, c, TRUE, 0)
    BY <1>1, <2>4, <2>5, <2>7
  <2>8. CASE n = Conf(z, p, c, TRUE, 0)
    BY <1>1, <2>4, <2>5, <2>8
  <2>. QED BY <2>1, <2>2, <2>6, <2>7, <2>8
<1>8. CASE cmd \in {"CONNECT_B3_RESP", "CONNECT_B3_REJECT"}
  <2>1. n = l \/ \E e : n = [l EXCEPT !.b[p] = e]
    BY <1>8 DEF Take
  <2>2. n = l \/ n = [l EXCEPT !.b = n.b]
    BY <2>1 DEF IsLine
  <2>. QED BY <2>2, TidyQuiet
<1>9. CASE cmd = "DISCONNECT_B3_RESP"
  <2>1. PICK k : k = [l EXCEPT !.b[p] = "none"]
    OBVIOUS
  <2>2. n = l \/ n = [k EXCEPT !.data[p] = <<>>]
    BY <1>9, <2>1 DEF Take
  <2>3. k = [l EXCEPT !.b = k.b]
    BY <2>1 DEF IsLine
  <2>4. IsLine(k) /\ Tidy(k)
    BY <2>3, TidyQuiet
  <2>5. ASSUME n = [k EXCEPT !.data[p] = <<>>] PROVE n = [k EXCEPT !.data = n.data]
    BY <2>4, <2>5 DEF IsLine
  <2>. QED BY <2>2, <2>4, <2>5, TidyQuiet
<1>10. CASE cmd \notin {"LISTEN_REQ", "CONNECT_REQ", "CONNECT_RESP", "CONNECT_REJECT", "DISCONNECT_REQ",
                        "DISCONNECT_RESP", "CONNECT_B3_REQ", "DISCONNECT_B3_REQ", "CONNECT_B3_RESP",
                        "CONNECT_B3_REJECT", "DISCONNECT_B3_RESP"}
  <2>1. n = l
    BY <1>10 DEF Take
  <2>. QED BY <2>1
<1>. QED BY <1>2, <1>3, <1>4, <1>5, <1>6, <1>7, <1>8, <1>9, <1>10

-------------------------------------------------------------------------------
(* What an operator does to the structures of one channel, while the       *)
(* device is there and while it is being removed.                          *)

Records == [plci : Plci \cup {0}, msgid : Msgids \cup {0}, state : PlciStates]
Typed(t) ==
  /\ Shape(t) /\ t.k.plcip \in [Chan -> Records \cup {Null}] /\ t.k.plci_list \in Seq(Chan)
  /\ t.k.nccip = [c \in Chan |-> t.k.nccip[c]] /\ DOMAIN t.k.told = Chan
  /\ pc \in {"up", "unregistered"} =>
       \A c \in Chan : t.k.told[c] = "ringing" => t.k.plcip[c] # Null
  /\ pc = "up" => Tidy(t.l)

(* From t to u only the structures of c change.                            *)
Touch(t, u, c) ==
  /\ Typed(u) /\ u.k.nbchan = t.k.nbchan /\ (pc # "up" => u.l.up = t.l.up)
  /\ \A y \in Chan : y # c => /\ u.k.plcip[y] = t.k.plcip[y] /\ u.k.nccip[y] = t.k.nccip[y]
                              /\ y \in u.k.incoming <=> y \in t.k.incoming

(* Its PLCI is freed, or changes its state. *)
Calm(t, u, c) ==
  /\ Touch(t, u, c)
  /\ u.k.plcip[c] # Null => /\ t.k.plcip[c] # Null
                            /\ u.k.plcip[c].plci = t.k.plcip[c].plci
                            /\ u.k.plcip[c].msgid = t.k.plcip[c].msgid
                            /\ c \in t.k.incoming => c \in u.k.incoming

(* It keeps its PLCI. *)
Stays(t, u, c) == Calm(t, u, c) /\ (t.k.plcip[c] # Null => u.k.plcip[c] # Null)

(* It gets no NCCI. *)
Mild(t, u, c) == Calm(t, u, c) /\ (t.k.nccip[c] = Null => u.k.nccip[c] = Null)

LEMMA TouchTwice ==
  ASSUME NEW s, NEW t, NEW u, NEW c, Touch(s, t, c), Touch(t, u, c)
  PROVE  Touch(s, u, c)
  BY DEF Touch

LEMMA CalmTwice ==
  ASSUME NEW s, NEW t, NEW u, NEW c, Calm(s, t, c), Calm(t, u, c)
  PROVE  Calm(s, u, c)
<1>1. Touch(s, u, c)
  BY TouchTwice DEF Calm
<1>. QED BY <1>1 DEF Calm

LEMMA StaysTwice ==
  ASSUME NEW s, NEW t, NEW u, NEW c, Stays(s, t, c), Stays(t, u, c)
  PROVE  Stays(s, u, c)
  BY CalmTwice DEF Stays

LEMMA MildTwice ==
  ASSUME NEW s, NEW t, NEW u, NEW c, Mild(s, t, c), Mild(t, u, c)
  PROVE  Mild(s, u, c)
  BY CalmTwice DEF Mild

LEMMA NoTouch ==
  ASSUME NEW t, Typed(t), NEW c
  PROVE  Stays(t, t, c) /\ Mild(t, t, c)
  BY DEF Touch, Stays, Calm, Mild

(* A message is sent. *)
LEMMA SendTouches ==
  ASSUME NEW s, Typed(s), NEW cmd, NEW p, NEW id,
         pc = "up" /\ cmd = "CONNECT_RESP" /\ p \in Plci => ~Has(s.l.up[p], "CONNECT_IND"),
         pc = "up" /\ cmd = "DISCONNECT_RESP" /\ p \in Plci => Bare(s.l.up[p]),
         NEW u \in send_message(s, cmd, p, id), NEW c
  PROVE  Stays(s, u, c) /\ Mild(s, u, c) /\ u.k = s.k
<1>1. PICK n : /\ u = [s EXCEPT !.l = n]
               /\ (pc = "up" /\ n \in Take(s.l, cmd, p, id)) \/ n = [s.l EXCEPT !.lost = TRUE]
  BY DEF send_message, Accepted, Refused
<1>2. IsLine(s.l) /\ (pc = "up" => Tidy(s.l)) /\ s = [k |-> s.k, l |-> s.l] /\ IsCard(s.k)
  BY DEF Typed, Shape
<1>3. IsLine(n) /\ (pc = "up" => Tidy(n)) /\ (pc # "up" => n.up = s.l.up)
  <2>1. CASE pc = "up" /\ n \in Take(s.l, cmd, p, id)
    BY <1>2, <2>1, TidyTake
  <2>2. CASE n = [s.l EXCEPT !.lost = TRUE]
    <3>1. PICK yes : yes = TRUE
      OBVIOUS
    <3>2. n = [s.l EXCEPT !.lost = yes]
      BY <2>2, <3>1
    <3>3. IsLine(n) /\ n.d = s.l.d /\ n.up = s.l.up
      BY <1>2, <3>2 DEF IsLine
    <3>. QED BY <1>2, <3>3 DEF Tidy
  <2>. QED BY <1>1, <2>1, <2>2
<1>4. u = [k |-> s.k, l |-> n]
  BY <1>1, <1>2
<1>5. u.k = s.k /\ u.l = n /\ Shape(u)
  BY <1>2, <1>3, <1>4 DEF Shape
<1>6. Typed(u)
  BY <1>3, <1>5 DEF Typed
<1>. QED BY <1>3, <1>5, <1>6 DEF Touch, Stays, Calm, Mild

(* The NCCI of the channel changes. *)
LEMMA SetNcci ==
  ASSUME NEW s, Typed(s), NEW c \in Chan, NEW n, NEW u, u = [s EXCEPT !.k.nccip[c] = n]
  PROVE  Stays(s, u, c) /\ u.k.nccip[c] = n
<1>1. PICK N : N = [s.k.nccip EXCEPT ![c] = n]
  OBVIOUS
<1>2. u = [s EXCEPT !.k.nccip = N]
  BY <1>1
<1>3. /\ Shape(u) /\ u.l = s.l /\ u.k.nccip = N /\ u.k.plcip = s.k.plcip
      /\ u.k.incoming = s.k.incoming /\ u.k.nbchan = s.k.nbchan /\ u.k.told = s.k.told
      /\ u.k.plci_list = s.k.plci_list
  <2>1. Shape(s)
    BY DEF Typed
  <2>. QED BY <1>2, <2>1 DEF Shape, IsCard
<1>4. /\ N = [y \in Chan |-> N[y]] /\ N[c] = n
      /\ \A y \in Chan : y # c => N[y] = s.k.nccip[y]
  BY <1>1 DEF Typed
<1>5. Typed(u)
  BY <1>3, <1>4 DEF Typed
<1>. QED BY <1>3, <1>4, <1>5 DEF Touch, Stays, Calm

(* The PLCI of the channel changes. *)
LEMMA SetPlci ==
  ASSUME NEW s, Typed(s), NEW c \in Chan, NEW x \in Records,
         NEW u, u = [s EXCEPT !.k.plcip[c] = x]
  PROVE  /\ Touch(s, u, c) /\ u.k.plcip[c] = x
         /\ u.k.nccip = s.k.nccip /\ u.k.incoming = s.k.incoming
<1>1. PICK P : P = [s.k.plcip EXCEPT ![c] = x]
  OBVIOUS
<1>2. u = [s EXCEPT !.k.plcip = P]
  BY <1>1
<1>3. /\ Shape(u) /\ u.l = s.l /\ u.k.plcip = P /\ u.k.nccip = s.k.nccip
      /\ u.k.incoming = s.k.incoming /\ u.k.nbchan = s.k.nbchan /\ u.k.told = s.k.told
      /\ u.k.plci_list = s.k.plci_list
  <2>1. Shape(s)
    BY DEF Typed
  <2>. QED BY <1>2, <2>1 DEF Shape, IsCard
<1>4. /\ P \in [Chan -> Records \cup {Null}] /\ P[c] = x
      /\ \A y \in Chan : y # c => P[y] = s.k.plcip[y]
  BY <1>1 DEF Typed
<1>5. x # Null
  BY DrvAssumption DEF Records
<1>6. Typed(u)
  BY <1>3, <1>4, <1>5 DEF Typed
<1>. QED BY <1>3, <1>4, <1>6 DEF Touch

(* Fields that say nothing of a structure.                                 *)
LEMMA SetOther ==
  ASSUME NEW s, Typed(s), NEW c, NEW n, NEW u,
         \/ u = [s EXCEPT !.k.disconnecting = n] \/ u = [s EXCEPT !.k.state = n]
         \/ /\ DOMAIN n = Chan /\ u = [s EXCEPT !.k.told = n]
            /\ \A y \in Chan : n[y] = "ringing" => s.k.told[y] = "ringing" \/ s.k.plcip[y] # Null
  PROVE  Stays(s, u, c) /\ Mild(s, u, c)
<1>1. /\ Shape(u) /\ u.l = s.l /\ u.k.plcip = s.k.plcip /\ u.k.nccip = s.k.nccip
      /\ u.k.incoming = s.k.incoming /\ u.k.nbchan = s.k.nbchan
      /\ u.k.told = s.k.told \/ DOMAIN u.k.told = Chan
      /\ \A y \in Chan : u.k.told[y] = "ringing" => s.k.told[y] = "ringing" \/ s.k.plcip[y] # Null
      /\ u.k.plci_list = s.k.plci_list
  BY DEF Typed, Shape, IsCard
<1>2. Typed(u)
  BY <1>1 DEF Typed
<1>. QED BY <1>1, <1>2 DEF Touch, Stays, Calm, Mild

(* A callback. *)
LEMMA TellStays ==
  ASSUME NEW s, Typed(s), NEW c \in Chan, NEW what, what = "ringing" => s.k.plcip[c] # Null
  PROVE  Stays(s, Tell(s, c, what), c) /\ Mild(s, Tell(s, c, what), c)
<1>1. PICK T : T = [s.k.told EXCEPT ![c] = IF @ = "discarded" THEN @ ELSE what]
  OBVIOUS
<1>2. Tell(s, c, what) = [s EXCEPT !.k.told = T]
  BY <1>1 DEF Tell
<1>3. /\ DOMAIN T = Chan
      /\ \A y \in Chan : T[y] = "ringing" => s.k.told[y] = "ringing" \/ s.k.plcip[y] # Null
  BY <1>1 DEF Typed
<1>4. PICK u : u = [s EXCEPT !.k.told = T]
  OBVIOUS
<1>5. Stays(s, u, c) /\ Mild(s, u, c)
  BY <1>3, <1>4, SetOther
<1>. QED BY <1>2, <1>4, <1>5

LEMMA DisconnectingStays ==
  ASSUME NEW s, Typed(s), NEW c
  PROVE  Stays(s, Disconnecting(s, c), c) /\ Mild(s, Disconnecting(s, c), c)
<1>1. PICK n, u : n = s.k.disconnecting \cup {c} /\ u = Disconnecting(s, c)
  OBVIOUS
<1>2. u = [s EXCEPT !.k.disconnecting = n]
  BY <1>1 DEF Disconnecting
<1>. QED BY <1>1, <1>2, SetOther

LEMMA NcciStays ==
  ASSUME NEW s, Typed(s), NEW c \in Chan
  PROVE  /\ Stays(s, free_ncci(s, c), c) /\ free_ncci(s, c).k.nccip[c] = Null
         /\ \A n : Stays(s, new_ncci(s, c, n), c)
         /\ \A n : Stays(s, [s EXCEPT !.k.nccip[c].ncci = n], c)
         /\ \A n, o : Stays(s, [s EXCEPT !.k.nccip[c].state = n, !.k.nccip[c].oldstate = o], c)
         /\ \A h : Stays(s, [s EXCEPT !.k.nccip[c].acks = capidrv_del_ack(@, h)], c)
<1>1. Stays(s, free_ncci(s, c), c) /\ free_ncci(s, c).k.nccip[c] = Null
  <2>1. PICK u, n : u = free_ncci(s, c) /\ n = Null
    OBVIOUS
  <2>2. u = [s EXCEPT !.k.nccip[c] = n]
    BY <2>1 DEF free_ncci
  <2>. QED BY <2>1, <2>2, SetNcci
<1>2. \A n : Stays(s, new_ncci(s, c, n), c)
  BY SetNcci DEF new_ncci
<1>3. \A n : Stays(s, [s EXCEPT !.k.nccip[c].ncci = n], c)
  BY SetNcci
<1>4. \A h : Stays(s, [s EXCEPT !.k.nccip[c].acks = capidrv_del_ack(@, h)], c)
  BY SetNcci
<1>5. ASSUME NEW n, NEW o
      PROVE  Stays(s, [s EXCEPT !.k.nccip[c].state = n, !.k.nccip[c].oldstate = o], c)
  <2>1. PICK t : t = [s EXCEPT !.k.nccip[c].state = n]
    OBVIOUS
  <2>2. Stays(s, t, c)
    BY <2>1, SetNcci
  <2>3. Stays(t, [t EXCEPT !.k.nccip[c].oldstate = o], c)
    <3>1. Typed(t)
      BY <2>2 DEF Stays, Calm, Touch
    <3>. QED BY <3>1, SetNcci
  <2>4. [s EXCEPT !.k.nccip[c].state = n, !.k.nccip[c].oldstate = o]
          = [t EXCEPT !.k.nccip[c].oldstate = o]
    BY <2>1
  <2>. QED BY <2>2, <2>3, <2>4, StaysTwice
<1>. QED BY <1>1, <1>2, <1>3, <1>4, <1>5

LEMMA FreeMild ==
  ASSUME NEW s, Typed(s), NEW c \in Chan,
         pc \in {"up", "unregistered"} => s.k.told[c] # "ringing",
         NEW u, u = free_plci(s, c)
  PROVE  Mild(s, u, c) /\ u.k.plcip[c] = Null /\ u.l = s.l
<1>1. PICK P, L, N, J : /\ P = [s.k.plcip EXCEPT ![c] = Null] /\ L = Without(s.k.plci_list, {c})
                        /\ N = [s.k.nccip EXCEPT ![c] = Orphaned(@)] /\ J = s.k.incoming \ {c}
  OBVIOUS
<1>2. Shape(s)
  BY DEF Typed
<1>3. Shape(u) /\ u.l = s.l /\ u.k.plcip = P /\ u.k.plci_list = L /\ u.k.incoming = J /\ u.k.told = s.k.told
  <2>1. Freed(s, u, c)
    BY <1>2, FreeEffect
  <2>. QED BY <1>1, <2>1 DEF Freed
<1>4. u.k.nccip = N /\ u.k.nbchan = s.k.nbchan
  BY <1>1, <1>2 DEF Shape, IsCard, free_plci
<1>5. P \in [Chan -> Records \cup {Null}] /\ P[c] = Null /\ \A y \in Chan : y # c => P[y] = s.k.plcip[y]
  BY <1>1 DEF Typed
<1>6. /\ N = [y \in Chan |-> N[y]] /\ \A y \in Chan : y # c => N[y] = s.k.nccip[y]
      /\ s.k.nccip[c] = Null => N[c] = Null
  BY <1>1 DEF Typed, Orphaned
<1>7. L \in Seq(Chan)
  BY <1>1, WithoutEntries DEF Typed
<1>8. \A y \in Chan : y # c => (y \in J <=> y \in s.k.incoming)
  BY <1>1
<1>9. Typed(u)
  BY <1>3, <1>4, <1>5, <1>6, <1>7 DEF Typed
<1>. QED BY <1>3, <1>4, <1>5, <1>6, <1>8, <1>9 DEF Touch, Calm, Mild

LEMMA TableStates ==
  ASSUME NEW t \in plcitable
  PROVE  /\ t[3] \in PlciStates
         /\ t[2] \notin {"CONNECT_CONF_ERROR", "DISCONNECT_RESP"} => t[3] # "NONE"
  BY DEF plcitable, PlciStates, InCall

LEMMA PlciSet ==
  ASSUME NEW s, Typed(s), NEW c \in Chan
  PROVE  \A y \in Records : \A u : u = [s EXCEPT !.k.plcip[c] = y] =>
           /\ Touch(s, u, c) /\ u.k.plcip[c] = y /\ y # Null
           /\ u.k.nccip = s.k.nccip /\ u.k.incoming = s.k.incoming
<1>1. \A y \in Records : \A u : u = [s EXCEPT !.k.plcip[c] = y] =>
           /\ Touch(s, u, c) /\ u.k.plcip[c] = y
           /\ u.k.nccip = s.k.nccip /\ u.k.incoming = s.k.incoming
  BY SetPlci
<1>2. \A y \in Records : y # Null
  BY DrvAssumption DEF Records
<1>. QED BY <1>1, <1>2, Zenon

(* One field of it changes. *)
LEMMA SetState ==
  ASSUME NEW s, Typed(s), NEW c \in Chan, s.k.plcip[c] # Null, NEW n \in PlciStates,
         NEW u, u = [s EXCEPT !.k.plcip[c].state = n]
  PROVE  Stays(s, u, c) /\ Mild(s, u, c)
<1>1. PICK y, x : y = [s.k.plcip[c] EXCEPT !.state = n] /\ x = s.k.plcip[c]
  OBVIOUS
<1>2. x \in Records
  BY <1>1 DEF Typed
<1>3. y \in Records /\ y.plci = x.plci /\ y.msgid = x.msgid
  BY <1>1, <1>2 DEF Records
<1>4. /\ Touch(s, u, c) /\ u.k.plcip[c] = y /\ y # Null
      /\ u.k.nccip = s.k.nccip /\ u.k.incoming = s.k.incoming
  <2>1. PICK v : v = [s EXCEPT !.k.plcip[c] = y]
    OBVIOUS
  <2>2. u = v
    BY <1>1, <2>1
  <2>3. \A z \in Records : \A w : w = [s EXCEPT !.k.plcip[c] = z] =>
           /\ Touch(s, w, c) /\ w.k.plcip[c] = z /\ z # Null
           /\ w.k.nccip = s.k.nccip /\ w.k.incoming = s.k.incoming
    BY PlciSet
  <2>4. /\ Touch(s, v, c) /\ v.k.plcip[c] = y /\ y # Null
        /\ v.k.nccip = s.k.nccip /\ v.k.incoming = s.k.incoming
    BY <1>3, <2>1, <2>3, Zenon
  <2>. QED BY <2>2, <2>4
<1>. QED BY <1>1, <1>3, <1>4 DEF Calm, Mild, Stays

LEMMA SetAddress ==
  ASSUME NEW s, Typed(s), NEW c \in Chan, s.k.plcip[c] # Null, NEW p \in Plci \cup {0},
         NEW u, u = [s EXCEPT !.k.plcip[c].plci = p]
  PROVE  Touch(s, u, c) /\ u.k.plcip[c] # Null
<1>1. PICK y, x : y = [s.k.plcip[c] EXCEPT !.plci = p] /\ x = s.k.plcip[c]
  OBVIOUS
<1>2. x \in Records
  BY <1>1 DEF Typed
<1>3. y \in Records
  BY <1>1, <1>2 DEF Records
<1>4. PICK v : v = [s EXCEPT !.k.plcip[c] = y]
  OBVIOUS
<1>5. u = v
  BY <1>1, <1>4
<1>6. \A z \in Records : \A w : w = [s EXCEPT !.k.plcip[c] = z] =>
           /\ Touch(s, w, c) /\ w.k.plcip[c] = z /\ z # Null
           /\ w.k.nccip = s.k.nccip /\ w.k.incoming = s.k.incoming
  BY PlciSet
<1>7. Touch(s, v, c) /\ v.k.plcip[c] = y /\ y # Null
  BY <1>3, <1>4, <1>6, Zenon
<1>. QED BY <1>5, <1>7

LEMMA SetMsgid ==
  ASSUME NEW s, Typed(s), NEW c \in Chan, s.k.plcip[c] # Null, NEW id \in Msgids,
         NEW u, u = [s EXCEPT !.k.plcip[c].msgid = id]
  PROVE  /\ Touch(s, u, c) /\ u.k.plcip[c] # Null /\ u.k.plcip[c].msgid = id
         /\ u.k.plcip[c].plci = s.k.plcip[c].plci
         /\ u.k.nccip = s.k.nccip /\ u.k.incoming = s.k.incoming
<1>1. PICK y, x : y = [s.k.plcip[c] EXCEPT !.msgid = id] /\ x = s.k.plcip[c]
  OBVIOUS
<1>2. x \in Records
  BY <1>1 DEF Typed
<1>3. y \in Records /\ y.plci = x.plci /\ y.msgid = id
  BY <1>1, <1>2 DEF Records
<1>4. /\ Touch(s, u, c) /\ u.k.plcip[c] = y /\ y # Null
      /\ u.k.nccip = s.k.nccip /\ u.k.incoming = s.k.incoming
  <2>1. PICK v : v = [s EXCEPT !.k.plcip[c] = y]
    OBVIOUS
  <2>2. u = v
    BY <1>1, <2>1
  <2>3. \A z \in Records : \A w : w = [s EXCEPT !.k.plcip[c] = z] =>
           /\ Touch(s, w, c) /\ w.k.plcip[c] = z /\ z # Null
           /\ w.k.nccip = s.k.nccip /\ w.k.incoming = s.k.incoming
    BY PlciSet
  <2>4. /\ Touch(s, v, c) /\ v.k.plcip[c] = y /\ y # Null
        /\ v.k.nccip = s.k.nccip /\ v.k.incoming = s.k.incoming
    BY <1>3, <2>1, <2>3, Zenon
  <2>. QED BY <2>2, <2>4
<1>. QED BY <1>1, <1>3, <1>4

(* A structure leaves its channel with CONNECT_CONF and DISCONNECT_RESP    *)
(* only.                                                                   *)
LEMMA PlciSteps ==
  ASSUME NEW s, Typed(s), NEW c \in Chan, s.k.plcip[c] # Null, NEW event,
         NEW u, u = plci_change_state(s, c, event)
  PROVE  /\ Mild(s, u, c)
         /\ event \notin {"CONNECT_CONF_ERROR", "DISCONNECT_RESP"} => Stays(s, u, c)
<1>1. PICK x : x = s.k.plcip[c]
  OBVIOUS
<1>2. x \in Records
  BY <1>1 DEF Typed
<1>3. PICK next : next = {t[3] : t \in {t \in plcitable : t[1] = x.state /\ t[2] = event}}
  OBVIOUS
<1>4. /\ next \subseteq PlciStates
      /\ event \notin {"CONNECT_CONF_ERROR", "DISCONNECT_RESP"} => "NONE" \notin next
  BY <1>3, TableStates
<1>5. CASE next = {}
  <2>1. u = s
    BY <1>1, <1>3, <1>5 DEF plci_change_state
  <2>. QED BY <2>1, NoTouch
<1>6. CASE "NONE" \in next
  <2>1. u = p0(s, c)
    BY <1>1, <1>3, <1>6 DEF plci_change_state
  <2>2. PICK t : t = Tell(s, c, "free")
    OBVIOUS
  <2>3. Mild(s, t, c)
    BY <2>2, TellStays
  <2>4. t.k.told[c] # "ringing"
    BY <2>2, TellEffect DEF Typed
  <2>5. Mild(t, u, c)
    BY <2>1, <2>2, <2>3, <2>4, FreeMild DEF p0, Mild, Calm, Touch
  <2>. QED BY <1>4, <1>6, <2>3, <2>5, MildTwice
<1>7. CASE next # {} /\ "NONE" \notin next
  <2>1. PICK n : n = CHOOSE k \in next : TRUE
    OBVIOUS
  <2>2. n \in next
    BY <1>7, <2>1
  <2>3. u = [s EXCEPT !.k.plcip[c].state = n]
    BY <1>1, <1>3, <1>7, <2>1 DEF plci_change_state
  <2>. QED BY <1>4, <2>2, <2>3, SetState
<1>. QED BY <1>5, <1>6, <1>7

(* The B3 connection ends. *)
LEMMA B3EndStays ==
  ASSUME NEW s, Typed(s), NEW c \in Chan, s.k.plcip[c] # Null, NEW u \in n0(s, c)
  PROVE  Stays(s, u, c)
<1>1. PICK t \in send_message(s, "DISCONNECT_REQ", s.k.plcip[c].plci, 0) :
        u = free_ncci(Tell(plci_change_state(t, c, "DISCONNECT_REQ"), c, "connected"), c)
  BY DEF n0
<1>2. PICK v, w : v = plci_change_state(t, c, "DISCONNECT_REQ") /\ w = Tell(v, c, "connected")
  OBVIOUS
<1>3. Stays(s, t, c)
  BY SendTouches
<1>4. Stays(t, v, c)
  BY <1>2, <1>3, PlciSteps DEF Stays, Calm, Touch
<1>5. Stays(v, w, c)
  BY <1>2, <1>4, TellStays DEF Stays, Calm, Touch
<1>6. Stays(w, u, c)
  <2>1. Typed(w) /\ u = free_ncci(w, c)
    BY <1>1, <1>2, <1>5 DEF Stays, Calm, Touch
  <2>. QED BY <2>1, NcciStays
<1>. QED BY <1>3, <1>4, <1>5, <1>6, StaysTwice

LEMMA NcciSteps ==
  ASSUME NEW s, Typed(s), NEW c \in Chan, NEW event,
         s.k.plcip[c] # Null \/ event = "DISCONNECT_B3_REQ",
         NEW u \in ncci_change_state(s, c, event)
  PROVE  Stays(s, u, c)
<1>1. PICK n : n = s.k.nccip[c]
  OBVIOUS
<1>2. PICK next : next = {t[3] : t \in {t \in nccitable : t[1] = n.state /\ t[2] = event}}
  OBVIOUS
<1>3. \/ u = s
      \/ "NONE" \in next /\ u \in n0(s, c)
      \/ \E m : u = [s EXCEPT !.k.nccip[c].state = m, !.k.nccip[c].oldstate = n.state]
  BY <1>1, <1>2 DEF ncci_change_state
<1>4. \A t \in nccitable : t[3] = "NONE" => t[2] # "DISCONNECT_B3_REQ"
  BY DEF nccitable, Linked
<1>5. "NONE" \in next => event # "DISCONNECT_B3_REQ"
  BY <1>2, <1>4
<1>6. CASE u = s
  BY <1>6, NoTouch
<1>7. CASE "NONE" \in next /\ u \in n0(s, c)
  BY <1>5, <1>7, B3EndStays
<1>8. CASE \E m : u = [s EXCEPT !.k.nccip[c].state = m, !.k.nccip[c].oldstate = n.state]
  <2>1. PICK m, o : u = [s EXCEPT !.k.nccip[c].state = m, !.k.nccip[c].oldstate = o]
    BY <1>8
  <2>2. \A a, b : Stays(s, [s EXCEPT !.k.nccip[c].state = a, !.k.nccip[c].oldstate = b], c)
    BY NcciStays
  <2>. QED BY <2>1, <2>2
<1>. QED BY <1>3, <1>6, <1>7, <1>8

(* What the driver finds. *)
LEMMA FindsPlci ==
  ASSUME NEW s, Typed(s), NEW c, c # Null
  PROVE  /\ \A p : c = find_plci_by_plci(s.k, p) =>
                     c \in Chan /\ s.k.plcip[c] # Null /\ s.k.plcip[c].plci = p
         /\ \A id : c = find_plci_by_msgid(s.k, id) =>
                      c \in Chan /\ s.k.plcip[c] # Null /\ s.k.plcip[c].msgid = id
<1>1. PICK L : L = s.k.plci_list
  OBVIOUS
<1>2. L \in Seq(Chan)
  BY <1>1 DEF Typed
<1>3. \A found : c = FirstOf(L, found) => c \in Chan /\ c \in found
  BY <1>2, FirstFound
<1>. QED BY <1>1, <1>3 DEF find_plci_by_plci, find_plci_by_msgid, Calls

LEMMA FindsNcci ==
  ASSUME NEW s, Typed(s), NEW c, c # Null, NEW p,
         c = find_ncci(s.k, p) \/ c = find_ncci_by_msgid(s.k, p)
  PROVE  /\ c \in Chan /\ s.k.plcip[c] # Null /\ s.k.plcip[c].plci = p
         /\ s.k.nccip[c] # Null
<1>1. c = find_plci_by_plci(s.k, p) /\ HasNcci(s.k, c)
  BY DEF find_ncci, find_ncci_by_msgid
<1>. QED BY <1>1, FindsPlci DEF HasNcci

-------------------------------------------------------------------------------
(* The channels that the removal has passed.                               *)

(* The message m of p is none of those of which handle creates a structure *)
(* on the channels X, or frees what the device still needs.                *)
Quiet(s, X, p, m) ==
  /\ m.cmd = "CONNECT_B3_IND" => \A c \in X : s.k.plcip[c] # Null => s.k.plcip[c].plci # p
  /\ m.cmd = "CONNECT_CONF" => \A c \in X : s.k.plcip[c] # Null => s.k.plcip[c].msgid # m.id
  /\ m.cmd = "DISCONNECT_IND" /\ pc = "up" /\ p \in Plci => Bare(s.l.up[p])

(* The structures of X: no NCCI, and no call but an incoming one of which  *)
(* nothing more is to come that would create one.                          *)
Left(s, X) ==
  \A c \in X :
    /\ s.k.nccip[c] = Null
    /\ s.k.plcip[c] # Null => /\ c \in s.k.incoming /\ ~Pending(s.l.up, s.k.plcip[c].msgid)
                              /\ ~Has(s.l.up[s.k.plcip[c].plci], "CONNECT_B3_IND")

(* From t to u, one channel changes, and mildly if it is one of X.         *)
Spares(t, u, X) == \E c : Touch(t, u, c) /\ (c \in X => Mild(t, u, c))

LEMMA SparesLeft ==
  ASSUME NEW X \in SUBSET Chan, pc = "up" => X = {}, NEW t, NEW u, Left(t, X), Spares(t, u, X)
  PROVE  Left(u, X)
<1>1. PICK c : Touch(t, u, c) /\ (c \in X => Mild(t, u, c))
  BY DEF Spares
<1>2. SUFFICES ASSUME pc # "up", NEW y \in X
               PROVE  /\ u.k.nccip[y] = Null
                      /\ u.k.plcip[y] # Null =>
                           /\ y \in u.k.incoming /\ ~Pending(u.l.up, u.k.plcip[y].msgid)
                           /\ ~Has(u.l.up[u.k.plcip[y].plci], "CONNECT_B3_IND")
  BY DEF Left
<1>3. u.l.up = t.l.up /\ y \in Chan
  BY <1>1, <1>2 DEF Touch
<1>4. CASE y = c
  BY <1>1, <1>2, <1>3, <1>4 DEF Left, Mild, Calm
<1>5. CASE y # c
  BY <1>1, <1>2, <1>3, <1>5 DEF Left, Touch
<1>. QED BY <1>4, <1>5

(* A structure that changes its state sends nothing. *)
LEMMA QuietLine ==
  ASSUME NEW s, Typed(s), NEW c \in Chan, NEW event
  PROVE  plci_change_state(s, c, event).l = s.l
<1>1. PICK u : u = plci_change_state(s, c, event)
  OBVIOUS
<1>2. u = s \/ u = p0(s, c) \/ \E n : u = [s EXCEPT !.k.plcip[c].state = n]
  BY <1>1 DEF plci_change_state
<1>3. CASE u = p0(s, c)
  <2>1. PICK t : t = Tell(s, c, "free")
    OBVIOUS
  <2>2. Mild(s, t, c) /\ t.l = s.l /\ t.k.told[c] # "ringing"
    BY <2>1, TellStays, TellEffect DEF Typed
  <2>. QED BY <1>1, <1>3, <2>1, <2>2, FreeMild DEF p0, Mild, Calm, Touch
<1>4. CASE u = s \/ \E n : u = [s EXCEPT !.k.plcip[c].state = n]
  BY <1>1, <1>4 DEF Typed, Shape
<1>. QED BY <1>2, <1>3, <1>4

LEMMA DisconnectSpares ==
  ASSUME NEW s, Typed(s), NEW X, NEW p, NEW m, Quiet(s, X, p, m), m.cmd = "DISCONNECT_IND",
         NEW u \in handle_disconnect_ind(s, p)
  PROVE  Spares(s, u, X)
<1>1. PICK c : c = find_plci_by_plci(s.k, p)
  OBVIOUS
<1>2. pc = "up" /\ p \in Plci => Bare(s.l.up[p])
  BY DEF Quiet
<1>3. CASE c = Null
  <2>1. u \in send_message(s, "DISCONNECT_RESP", p, 0)
    BY <1>1, <1>3 DEF handle_disconnect_ind
  <2>2. Mild(s, u, c)
    BY <1>2, <2>1, SendTouches
  <2>. QED BY <2>2 DEF Spares, Mild, Calm
<1>4. CASE c # Null
  <2>1. c \in Chan /\ s.k.plcip[c] # Null
    BY <1>1, <1>4, FindsPlci
  <2>2. PICK v, w : v = Disconnecting(s, c) /\ w = plci_change_state(v, c, "DISCONNECT_IND")
    OBVIOUS
  <2>3. PICK t \in send_message(w, "DISCONNECT_RESP", p, 0) :
               u = plci_change_state(t, c, "DISCONNECT_RESP")
    BY <1>1, <1>4, <2>2 DEF handle_disconnect_ind
  <2>4. Stays(s, v, c) /\ Mild(s, v, c)
    BY <2>2, DisconnectingStays
  <2>5. Typed(v) /\ v.k.plcip[c] # Null
    BY <2>1, <2>4 DEF Stays, Calm, Touch
  <2>6. Stays(v, w, c) /\ Mild(v, w, c)
    BY <2>1, <2>2, <2>5, PlciSteps
  <2>7. Typed(w) /\ w.k.plcip[c] # Null
    BY <2>5, <2>6 DEF Stays, Calm, Touch
  <2>8. w.l = s.l
    <3>1. v.l = s.l
      BY <2>2 DEF Disconnecting, Typed, Shape
    <3>2. w.l = v.l
      BY <2>1, <2>2, <2>5, QuietLine
    <3>. QED BY <3>1, <3>2
  <2>9. Stays(w, t, c) /\ Mild(w, t, c)
    BY <1>2, <2>3, <2>7, <2>8, SendTouches
  <2>10. Typed(t) /\ t.k.plcip[c] # Null
    BY <2>7, <2>9 DEF Stays, Calm, Touch
  <2>11. Mild(t, u, c)
    BY <2>1, <2>3, <2>10, PlciSteps
  <2>12. Mild(s, u, c)
    BY <2>4, <2>6, <2>9, <2>11, MildTwice
  <2>. QED BY <2>12 DEF Spares, Mild, Calm
<1>. QED BY <1>3, <1>4

LEMMA ConfirmSpares ==
  ASSUME NEW s, Typed(s), NEW X \in SUBSET Chan, NEW p \in Plci \cup {0}, NEW m, Quiet(s, X, p, m),
         m.cmd = "CONNECT_CONF", NEW u \in handle_connect_conf(s, p, m)
  PROVE  Spares(s, u, X)
<1>1. PICK c : c = find_plci_by_msgid(s.k, m.id)
  OBVIOUS
<1>2. CASE c = Null
  <2>1. u = s
    BY <1>1, <1>2 DEF handle_connect_conf
  <2>. QED BY <2>1, NoTouch DEF Spares, Mild, Calm
<1>3. CASE c # Null
  <2>1. c \in Chan /\ s.k.plcip[c] # Null /\ s.k.plcip[c].msgid = m.id
    <3>1. PICK id : id = m.id
      OBVIOUS
    <3>2. c = find_plci_by_msgid(s.k, id)
      BY <1>1, <3>1
    <3>. QED BY <1>3, <3>1, <3>2, FindsPlci
  <2>2. c \notin X
    BY <2>1 DEF Quiet
  <2>3. PICK t : t = [s EXCEPT !.k.plcip[c].plci = p]
    OBVIOUS
  <2>4. Touch(s, t, c) /\ t.k.plcip[c] # Null
    BY <2>1, <2>3, SetAddress
  <2>5. \E event : u = plci_change_state(t, c, event)
    BY <1>1, <1>3, <2>3 DEF handle_connect_conf
  <2>6. Mild(t, u, c)
    BY <2>1, <2>4, <2>5, PlciSteps DEF Touch
  <2>7. Touch(s, u, c)
    BY <2>4, <2>6, TouchTwice DEF Mild, Calm
  <2>. QED BY <2>2, <2>7 DEF Spares
<1>. QED BY <1>2, <1>3

LEMMA ActiveSpares ==
  ASSUME NEW s, Typed(s), NEW X, Left(s, X), NEW p, NEW u \in handle_connect_active_ind(s, p)
  PROVE  Spares(s, u, X)
<1>1. PICK c : c = find_plci_by_plci(s.k, p)
  OBVIOUS
<1>2. CASE u = s
  BY <1>2, NoTouch DEF Spares, Mild, Calm
<1>3. CASE c # Null /\ c \in s.k.incoming /\ u # s
  <2>1. u = plci_change_state(s, c, "CONNECT_ACTIVE_IND")
    BY <1>1, <1>3 DEF handle_connect_active_ind
  <2>2. Mild(s, u, c)
    BY <1>1, <1>3, <2>1, FindsPlci, PlciSteps
  <2>. QED BY <2>2 DEF Spares, Mild, Calm
<1>4. CASE c # Null /\ c \notin s.k.incoming /\ u # s
  <2>1. c \in Chan /\ s.k.plcip[c] # Null
    BY <1>1, <1>4, FindsPlci
  <2>2. c \notin X
    BY <1>4, <2>1 DEF Left
  <2>3. PICK t : t = new_ncci(s, c, 0)
    OBVIOUS
  <2>4. PICK v \in send_message(t, "CONNECT_B3_REQ", p, 0) :
          u \in ncci_change_state(plci_change_state(Tell(v, c, "connected"), c, "CONNECT_ACTIVE_IND"),
                                  c, "CONNECT_B3_REQ")
    <3>1. u \in (IF MayFail THEN {s} ELSE {}) \cup
            UNION {ncci_change_state(
                     plci_change_state(Tell(w, c, "connected"), c, "CONNECT_ACTIVE_IND"),
                     c, "CONNECT_B3_REQ") :
                   w \in send_message(t, "CONNECT_B3_REQ", p, 0)}
      BY <1>1, <1>4, <2>3 DEF handle_connect_active_ind
    <3>. QED BY <1>4, <3>1
  <2>5. PICK w, x : w = Tell(v, c, "connected") /\ x = plci_change_state(w, c, "CONNECT_ACTIVE_IND")
    OBVIOUS
  <2>6. Stays(s, t, c)
    BY <2>1, <2>3, NcciStays
  <2>7. Stays(t, v, c)
    BY <2>4, <2>6, SendTouches DEF Stays, Calm, Touch
  <2>8. Stays(v, w, c)
    BY <2>1, <2>5, <2>7, TellStays DEF Stays, Calm, Touch
  <2>9. Stays(s, w, c)
    BY <2>6, <2>7, <2>8, StaysTwice
  <2>10. Stays(w, x, c)
    BY <2>1, <2>5, <2>9, PlciSteps DEF Stays, Calm, Touch
  <2>11. Stays(s, x, c)
    BY <2>9, <2>10, StaysTwice
  <2>12. Stays(x, u, c)
    BY <2>1, <2>4, <2>5, <2>11, NcciSteps DEF Stays, Calm, Touch
  <2>13. Stays(s, u, c)
    BY <2>11, <2>12, StaysTwice
  <2>. QED BY <2>2, <2>13 DEF Spares, Stays, Calm
<1>5. CASE c = Null
  BY <1>1, <1>2, <1>5 DEF handle_connect_active_ind
<1>. QED BY <1>2, <1>3, <1>4, <1>5

LEMMA B3IndSpares ==
  ASSUME NEW s, Typed(s), NEW X, NEW p, NEW m, Quiet(s, X, p, m), m.cmd = "CONNECT_B3_IND",
         NEW u \in handle_connect_b3_ind(s, p)
  PROVE  Spares(s, u, X)
<1>1. PICK c : c = find_plci_by_plci(s.k, p)
  OBVIOUS
<1>2. CASE u \in send_message(s, "CONNECT_B3_REJECT", p, 0)
  <2>1. Mild(s, u, c)
    BY <1>2, SendTouches
  <2>. QED BY <2>1 DEF Spares, Mild, Calm
<1>3. CASE u \notin send_message(s, "CONNECT_B3_REJECT", p, 0)
  <2>1. PICK t : t = new_ncci(s, c, p)
    OBVIOUS
  <2>2. c # Null /\ u \in UNION {ncci_change_state(v, c, "CONNECT_B3_RESP") : v \in
                  UNION {send_message(w, "CONNECT_B3_RESP", p, 0) :
                           w \in ncci_change_state(t, c, "CONNECT_B3_IND")}}
    BY <1>1, <1>3, <2>1 DEF handle_connect_b3_ind
  <2>3. PICK w, v : /\ w \in ncci_change_state(t, c, "CONNECT_B3_IND")
                    /\ v \in send_message(w, "CONNECT_B3_RESP", p, 0)
                    /\ u \in ncci_change_state(v, c, "CONNECT_B3_RESP")
    BY <2>2
  <2>4. c \in Chan /\ s.k.plcip[c] # Null /\ s.k.plcip[c].plci = p
    BY <1>1, <2>2, FindsPlci
  <2>5. c \notin X
    BY <2>4 DEF Quiet
  <2>6. Stays(s, t, c)
    BY <2>1, <2>4, NcciStays
  <2>7. Stays(t, w, c)
    BY <2>3, <2>4, <2>6, NcciSteps DEF Stays, Calm, Touch
  <2>8. Stays(w, v, c)
    BY <2>3, <2>7, SendTouches DEF Stays, Calm, Touch
  <2>9. Stays(s, v, c)
    BY <2>6, <2>7, <2>8, StaysTwice
  <2>10. Stays(v, u, c)
    BY <2>3, <2>4, <2>9, NcciSteps DEF Stays, Calm, Touch
  <2>11. Stays(s, u, c)
    BY <2>9, <2>10, StaysTwice
  <2>. QED BY <2>5, <2>11 DEF Spares, Stays, Calm
<1>. QED BY <1>2, <1>3

(* The handlers of messages of a B3 connection find an NCCI, which no      *)
(* structure of X has.                                                     *)
LEMMA NcciSpares ==
  ASSUME NEW s, Typed(s), NEW X, Left(s, X), NEW c, NEW p, c # Null,
         c = find_ncci(s.k, p) \/ c = find_ncci_by_msgid(s.k, p)
  PROVE  /\ c \in Chan /\ s.k.plcip[c] # Null
         /\ \A u : Stays(s, u, c) => Spares(s, u, X)
<1>1. c \in Chan /\ s.k.plcip[c] # Null /\ s.k.nccip[c] # Null
  BY FindsNcci
<1>2. c \notin X
  BY <1>1 DEF Left
<1>. QED BY <1>1, <1>2 DEF Spares, Stays, Calm

LEMMA SameSpares ==
  ASSUME NEW s, Typed(s), NEW X
  PROVE  Spares(s, s, X)
  BY NoTouch DEF Spares, Mild, Calm

LEMMA B3ConfSpares ==
  ASSUME NEW s, Typed(s), NEW X, Left(s, X), NEW p, NEW m, NEW u \in handle_connect_b3_conf(s, p, m)
  PROVE  Spares(s, u, X)
<1>1. PICK c : c = find_ncci_by_msgid(s.k, p)
  OBVIOUS
<1>2. CASE c = Null
  BY <1>1, <1>2, SameSpares DEF handle_connect_b3_conf
<1>3. CASE c # Null
  <2>1. PICK t : t = [s EXCEPT !.k.nccip[c].ncci = p]
    OBVIOUS
  <2>2. \E event : u \in ncci_change_state(t, c, event)
    BY <1>1, <1>3, <2>1 DEF handle_connect_b3_conf
  <2>3. c \in Chan /\ s.k.plcip[c] # Null
    BY <1>1, <1>3, NcciSpares
  <2>4. Stays(s, t, c)
    BY <2>1, <2>3, NcciStays
  <2>5. Stays(t, u, c)
    BY <2>2, <2>3, <2>4, NcciSteps DEF Stays, Calm, Touch
  <2>6. Stays(s, u, c)
    BY <2>4, <2>5, StaysTwice
  <2>. QED BY <1>1, <1>3, <2>6, NcciSpares
<1>. QED BY <1>2, <1>3

LEMMA B3ActiveSpares ==
  ASSUME NEW s, Typed(s), NEW X, Left(s, X), NEW p, NEW u \in handle_connect_b3_active_ind(s, p)
  PROVE  Spares(s, u, X)
<1>1. PICK c : c = find_ncci(s.k, p)
  OBVIOUS
<1>2. CASE c = Null
  BY <1>1, <1>2, SameSpares DEF handle_connect_b3_active_ind
<1>3. CASE c # Null
  <2>1. PICK t \in ncci_change_state(s, c, "CONNECT_B3_ACTIVE_IND") : u = Tell(t, c, "up")
    BY <1>1, <1>3 DEF handle_connect_b3_active_ind
  <2>2. c \in Chan /\ s.k.plcip[c] # Null
    BY <1>1, <1>3, NcciSpares
  <2>3. Stays(s, t, c)
    BY <2>1, <2>2, NcciSteps
  <2>4. Stays(t, u, c)
    BY <2>1, <2>2, <2>3, TellStays DEF Stays, Calm, Touch
  <2>5. Stays(s, u, c)
    BY <2>3, <2>4, StaysTwice
  <2>. QED BY <1>1, <1>3, <2>5, NcciSpares
<1>. QED BY <1>2, <1>3

LEMMA B3DisconnectSpares ==
  ASSUME NEW s, Typed(s), NEW X, Left(s, X), NEW p, NEW u \in handle_disconnect_b3_ind(s, p)
  PROVE  Spares(s, u, X)
<1>1. PICK c : c = find_ncci(s.k, p)
  OBVIOUS
<1>2. CASE c = Null
  BY <1>1, <1>2, SameSpares DEF handle_disconnect_b3_ind
<1>3. CASE c # Null
  <2>1. PICK t : t = Disconnecting(s, c)
    OBVIOUS
  <2>2. u \in UNION {ncci_change_state(x, c, "DISCONNECT_B3_RESP") : x \in
            UNION {send_message(w, "DISCONNECT_B3_RESP", p, 0) :
                     w \in ncci_change_state(t, c, "DISCONNECT_B3_IND")}}
    BY <1>1, <1>3, <2>1 DEF handle_disconnect_b3_ind
  <2>3. PICK w, x : /\ w \in ncci_change_state(t, c, "DISCONNECT_B3_IND")
                    /\ x \in send_message(w, "DISCONNECT_B3_RESP", p, 0)
                    /\ u \in ncci_change_state(x, c, "DISCONNECT_B3_RESP")
    BY <2>2
  <2>4. c \in Chan /\ s.k.plcip[c] # Null
    BY <1>1, <1>3, NcciSpares
  <2>5. Stays(s, t, c)
    BY <2>1, DisconnectingStays
  <2>6. Stays(t, w, c)
    BY <2>3, <2>4, <2>5, NcciSteps DEF Stays, Calm, Touch
  <2>7. Stays(w, x, c)
    BY <2>3, <2>6, SendTouches DEF Stays, Calm, Touch
  <2>8. Stays(s, x, c)
    BY <2>5, <2>6, <2>7, StaysTwice
  <2>9. Stays(x, u, c)
    BY <2>3, <2>4, <2>8, NcciSteps DEF Stays, Calm, Touch
  <2>10. Stays(s, u, c)
    BY <2>8, <2>9, StaysTwice
  <2>. QED BY <1>1, <1>3, <2>10, NcciSpares
<1>. QED BY <1>2, <1>3

LEMMA B3RefusalSpares ==
  ASSUME NEW s, Typed(s), NEW X, Left(s, X), NEW p, NEW m,
         NEW u \in handle_disconnect_b3_conf(s, p, m)
  PROVE  Spares(s, u, X)
<1>1. PICK c : c = find_ncci(s.k, p)
  OBVIOUS
<1>2. CASE u = s
  BY <1>2, SameSpares
<1>3. CASE u # s
  <2>1. c # Null /\ u \in ncci_change_state(s, c, "DISCONNECT_B3_CONF_ERROR")
    BY <1>1, <1>3 DEF handle_disconnect_b3_conf
  <2>. QED BY <1>1, <2>1, NcciSpares, NcciSteps
<1>. QED BY <1>2, <1>3

LEMMA DataConfSpares ==
  ASSUME NEW s, Typed(s), NEW X, Left(s, X), NEW p, NEW m, NEW u \in handle_data_b3_conf(s, p, m)
  PROVE  Spares(s, u, X)
<1>1. PICK c : c = find_ncci(s.k, p)
  OBVIOUS
<1>2. CASE c = Null
  BY <1>1, <1>2, SameSpares DEF handle_data_b3_conf
<1>3. CASE c # Null
  <2>1. u = [s EXCEPT !.k.nccip[c].acks = capidrv_del_ack(@, m.id)]
    BY <1>1, <1>3 DEF handle_data_b3_conf
  <2>2. c \in Chan
    BY <1>1, <1>3, NcciSpares
  <2>3. Stays(s, u, c)
    BY <2>1, <2>2, NcciStays
  <2>. QED BY <1>1, <1>3, <2>3, NcciSpares
<1>. QED BY <1>2, <1>3

LEMMA HandleSpares ==
  ASSUME NEW s, Typed(s), NEW X \in SUBSET Chan, Left(s, X), NEW p \in Plci \cup {0}, NEW m,
         m.cmd \in Commands, m.cmd # "CONNECT_IND", Quiet(s, X, p, m), NEW u \in handle(s, p, m)
  PROVE  Spares(s, u, X)
<1>1. CASE m.cmd = "LISTEN_CONF"
  <2>1. u \in handle_listen_conf(s, m)
    BY <1>1 DEF handle
  <2>2. PICK e : u = [s EXCEPT !.k = listen_change_state(@, e)]
    BY <2>1 DEF handle_listen_conf
  <2>3. PICK n : u = [s EXCEPT !.k.state = n]
    BY <2>2 DEF listen_change_state
  <2>4. Mild(s, u, n)
    BY <2>3, SetOther
  <2>. QED BY <2>4 DEF Spares, Mild, Calm
<1>2. CASE m.cmd = "CONNECT_CONF"
  <2>1. u \in handle_connect_conf(s, p, m)
    BY <1>2 DEF handle
  <2>. QED BY <1>2, <2>1, ConfirmSpares
<1>3. CASE m.cmd = "CONNECT_ACTIVE_IND"
  <2>1. u \in handle_connect_active_ind(s, p)
    BY <1>3 DEF handle
  <2>. QED BY <2>1, ActiveSpares
<1>4. CASE m.cmd = "DISCONNECT_IND"
  <2>1. u \in handle_disconnect_ind(s, p)
    BY <1>4 DEF handle
  <2>. QED BY <1>4, <2>1, DisconnectSpares
<1>5. CASE m.cmd = "DISCONNECT_CONF"
  <2>1. u \in handle_disconnect_conf(s, p)
    BY <1>5 DEF handle
  <2>2. u = s \/ \E c : u = Disconnecting(s, c)
    BY <2>1 DEF handle_disconnect_conf
  <2>. QED BY <2>2, SameSpares, DisconnectingStays DEF Spares, Mild, Calm
<1>6. CASE m.cmd = "CONNECT_B3_IND"
  <2>1. u \in handle_connect_b3_ind(s, p)
    BY <1>6 DEF handle
  <2>. QED BY <1>6, <2>1, B3IndSpares
<1>7. CASE m.cmd = "CONNECT_B3_CONF"
  <2>1. u \in handle_connect_b3_conf(s, p, m)
    BY <1>7 DEF handle
  <2>. QED BY <2>1, B3ConfSpares
<1>8. CASE m.cmd = "CONNECT_B3_ACTIVE_IND"
  <2>1. u \in handle_connect_b3_active_ind(s, p)
    BY <1>8 DEF handle
  <2>. QED BY <2>1, B3ActiveSpares
<1>9. CASE m.cmd = "DISCONNECT_B3_IND"
  <2>1. u \in handle_disconnect_b3_ind(s, p)
    BY <1>9 DEF handle
  <2>. QED BY <2>1, B3DisconnectSpares
<1>10. CASE m.cmd = "DISCONNECT_B3_CONF"
  <2>1. u \in handle_disconnect_b3_conf(s, p, m)
    BY <1>10 DEF handle
  <2>. QED BY <2>1, B3RefusalSpares
<1>11. CASE m.cmd = "DATA_B3_CONF"
  <2>1. u \in handle_data_b3_conf(s, p, m)
    BY <1>11 DEF handle
  <2>. QED BY <2>1, DataConfSpares
<1>12. CASE m.cmd = "DATA_B3_IND"
  <2>1. u = s
    BY <1>12 DEF handle
  <2>. QED BY <2>1, SameSpares
<1>. QED BY <1>1, <1>2, <1>3, <1>4, <1>5, <1>6, <1>7, <1>8, <1>9, <1>10, <1>11, <1>12 DEF Commands

-------------------------------------------------------------------------------
(* The inductive invariant of the removal.                                 *)

(* The queues that an unregistered device has left behind.                 *)
Silent(U) ==
  /\ U = [p \in Plci \cup {0} |-> U[p]]
  /\ \A p \in Plci \cup {0} :
       /\ IsSeq(U[p]) /\ \A i \in Entries(U[p]) : U[p][i].cmd \in Commands
       /\ ~(Has(U[p], "CONNECT_IND") /\ Has(U[p], "CONNECT_B3_IND"))
  /\ ~Pending(U, 0)

Passed ==
  IF pc \in {"up", "unregistered"} THEN {}
  ELSE {c \in Chan : c >= card.nbchan \/ (pc = "next" /\ c = Top)}

Phase ==
  \/ pc \in {"up", "unregistered"} /\ card.nbchan = NbChan
  \/ pc = "disch"
  \/ pc \in {"free", "next"} /\ card.nbchan > 0
  \/ pc = "removed" /\ card.nbchan = 0

OfferedCall == icall # Null => /\ icall \in Chan /\ icall \in card.incoming
                               /\ card.plcip[icall] # Null
RemInv ==
  /\ Typed(now) /\ Phase /\ OfferedCall
  /\ pc # "up" => Silent(line.up) /\ Left(now, Passed)

LEMMA PassedChannels == Passed \in SUBSET Chan /\ (pc = "up" => Passed = {})
  BY DEF Passed

LEMMA NowTyped ==
  ASSUME RemInv
  PROVE  Typed(now) /\ now.k = card /\ now.l = line /\ Left(now, Passed)
  BY PassedChannels DEF RemInv, now, Left

(* A step of the driver that the removal does not take part in.            *)
LEMMA Stepped ==
  ASSUME RemInv, NEW u, Typed(u), Become(u), pc' = pc, u.k.nbchan = card.nbchan,
         pc # "up" => Silent(u.l.up) /\ Left(u, Passed),
         icall' # Null => icall' \in Chan /\ icall' \in u.k.incoming /\ u.k.plcip[icall'] # Null
  PROVE  RemInv'
<1>1. now' = u /\ card' = u.k /\ line' = u.l
  BY DEF Typed, Shape, Become, now
<1>2. Passed' = Passed /\ Phase'
  BY <1>1 DEF Passed, Top, Phase, RemInv
<1>3. Typed(now)'
  BY <1>1 DEF Typed, Tidy, Heralds, Has, Shape, IsCard, IsLine
<1>4. OfferedCall'
  BY <1>1 DEF OfferedCall
<1>5. pc' # "up" => (Silent(line.up) /\ Left(now, Passed))'
  BY <1>1, <1>2 DEF Silent, Left
<1>. QED BY <1>2, <1>3, <1>4, <1>5 DEF RemInv

(* One that isdn4linux or the device asks for, without taking a message.   *)
LEMMA SteppedBy ==
  ASSUME RemInv, NEW u, Spares(now, u, Passed), Become(u), pc' = pc,
         icall' # Null => icall' = icall /\ icall' \in u.k.incoming /\ u.k.plcip[icall'] # Null
  PROVE  RemInv'
<1>1. /\ Typed(u) /\ u.k.nbchan = card.nbchan /\ (pc # "up" => u.l.up = line.up)
  BY NowTyped DEF Spares, Touch
<1>2. Left(u, Passed)
  BY PassedChannels, NowTyped, SparesLeft
<1>3. pc # "up" => Silent(u.l.up)
  BY <1>1 DEF RemInv
<1>4. icall' # Null => icall' \in Chan
  BY DEF RemInv, OfferedCall
<1>. QED BY <1>1, <1>2, <1>3, <1>4, Stepped

(* The first message of p is taken. *)
LEMMA TakenTyped ==
  ASSUME RemInv, DrvInv, NEW p \in Plci \cup {0}, Head1(p), NEW t, t = Taken(p),
         NEW m, m = Head(line.up[p])
  PROVE  /\ Typed(t) /\ t.k = card /\ m.cmd \in Commands
         /\ pc # "up" => Silent(t.l.up) /\ Left(t, Passed)
         /\ pc # "up" /\ m.cmd = "CONNECT_IND" => ~Has(t.l.up[p], "CONNECT_B3_IND")
         /\ Quiet(t, Passed, p, m)
<1>1. PICK U, V, r : U = line.up /\ V = [U EXCEPT ![p] = r] /\ r = Tail(U[p])
  OBVIOUS
<1>2. Typed(now) /\ now.k = card /\ now.l = line /\ Left(now, Passed)
  BY NowTyped
<1>3. /\ Shape(t) /\ t.k = card /\ t.l.up = V /\ t.l.d = line.d
  <2>1. t = [now EXCEPT !.l.up[p] = Tail(U[p])]
    BY <1>1, <1>2 DEF Taken
  <2>2. t.k = card /\ t.l = [line EXCEPT !.up = V] /\ t = [k |-> t.k, l |-> t.l]
    BY <1>1, <1>2, <2>1 DEF Typed, Shape
  <2>3. IsLine(line) /\ IsCard(card)
    BY <1>2 DEF Typed, Shape
  <2>4. IsLine(t.l) /\ t.l.up = V /\ t.l.d = line.d
    BY <2>2, <2>3 DEF IsLine
  <2>. QED BY <2>2, <2>3, <2>4 DEF Shape
<1>4. /\ U = [q \in Plci \cup {0} |-> U[q]] /\ \A q \in Plci \cup {0} : IsSeq(U[q])
  <2>1. pc = "up" => Tidy(line)
    BY <1>2 DEF Typed
  <2>. QED BY <1>1, <2>1 DEF Tidy, Heralds, RemInv, Silent
<1>5. /\ V = [q \in Plci \cup {0} |-> V[q]] /\ V[p] = r
      /\ \A q \in Plci \cup {0} : q # p => V[q] = U[q]
  <2>1. V = [q \in Plci \cup {0} |-> IF q = p THEN r ELSE U[q]]
    BY <1>1, <1>4
  <2>. QED BY <2>1
<1>6. Shorter(U[p], m, r)
  BY <1>1, <1>4, QueueTail DEF Head1
<1>7. \A cmd : Has(U[p], cmd) <=> Has(r, cmd) \/ m.cmd = cmd
  BY <1>6, HasTail
<1>8. \A q \in Plci \cup {0} : IsSeq(V[q]) /\ \A cmd : Has(V[q], cmd) => Has(U[q], cmd)
  BY <1>4, <1>5, <1>6, <1>7 DEF Shorter
<1>9. /\ \A id : Pending(V, id) => Pending(U, id)
      /\ m.cmd = "CONNECT_CONF" => Pending(U, m.id)
  <2>1. ASSUME NEW id, NEW q, NEW i, Place(V, q, i, id) PROVE Pending(U, id)
    <3>1. q \in DOMAIN U
      BY <1>4, <1>5, <2>1 DEF Place
    <3>2. CASE q # p
      BY <1>4, <1>5, <2>1, <3>1, <3>2 DEF Place, Pending
    <3>3. CASE q = p
      <4>1. i + 1 \in Entries(U[p]) /\ U[p][i + 1] = r[i]
        BY <1>5, <1>6, <2>1, <3>3 DEF Place, Shorter
      <4>2. Place(U, p, i + 1, id)
        BY <1>5, <2>1, <3>1, <3>3, <4>1 DEF Place
      <4>. QED BY <4>2 DEF Pending
    <3>. QED BY <3>2, <3>3
  <2>2. ASSUME m.cmd = "CONNECT_CONF" PROVE Place(U, p, 1, m.id)
    BY <1>4, <1>6, <2>2 DEF Place, Shorter
  <2>. QED BY <2>1, <2>2 DEF Pending
<1>10. CASE pc = "up"
  <2>1. Sound(now)
    BY <1>10 DEF DrvInv, Running, UpInv
  <2>2. TakenOff(now, t, p, m)
    BY <1>2, <2>1 DEF TakenOff, Taken, Head1
  <2>3. m.cmd \in Commands /\ (p \in Plci /\ m.cmd = "DISCONNECT_IND" => ~HasBegin(t.l.up[p]))
    BY <2>2, TakenOfCall, TakenOfZero DEF Finishes, Commands
  <2>4. Tidy(line)
    BY <1>2, <1>10 DEF Typed
  <2>5. \A q \in Plci : Heralds(V[q], line.d[q])
    <3>1. p \in Plci => Heralds(r, line.d[p])
      BY <1>1, <2>4, HeraldsTaken DEF Tidy, Head1
    <3>. QED BY <1>1, <1>5, <2>4, <3>1 DEF Tidy
  <2>6. Tidy(t.l)
    BY <1>3, <1>5, <1>8, <2>4, <2>5 DEF Tidy
  <2>7. Typed(t)
    BY <1>2, <1>3, <2>6 DEF Typed
  <2>8. p \in Plci /\ m.cmd = "DISCONNECT_IND" => Bare(t.l.up[p])
    <3>1. ASSUME p \in Plci, m.cmd = "DISCONNECT_IND" PROVE Bare(r)
      <4>1. ~Has(r, "CONNECT_B3_IND")
        BY <1>1, <2>4, <3>1, HeraldsTaken DEF Tidy, Head1
      <4>2. ~Has(r, "CONNECT_IND")
        BY <1>3, <1>5, <2>3, <3>1 DEF Has, HasBegin, Begins
      <4>. QED BY <4>1, <4>2 DEF Bare
    <3>. QED BY <1>3, <1>5, <3>1
  <2>. QED BY <1>3, <1>10, <2>3, <2>7, <2>8, PassedChannels DEF Quiet
<1>11. CASE pc # "up"
  <2>1. Silent(U) /\ Left(now, Passed)
    BY <1>1, <1>2, <1>11 DEF RemInv
  <2>2. Typed(t)
    BY <1>2, <1>3, <1>11 DEF Typed
  <2>3. m.cmd \in Commands
    BY <1>6, <2>1 DEF Silent, Shorter
  <2>4. \A q \in Plci \cup {0} : \A i \in Entries(V[q]) : V[q][i].cmd \in Commands
    <3>1. \A i \in Entries(r) : r[i].cmd \in Commands
      BY <1>6, <2>1 DEF Silent, Shorter
    <3>. QED BY <1>5, <2>1, <3>1 DEF Silent
  <2>5. Silent(V)
    BY <1>5, <1>8, <1>9, <2>1, <2>4 DEF Silent
  <2>6. ASSUME NEW c \in Passed, card.plcip[c] # Null
        PROVE  /\ c \in card.incoming /\ ~Pending(U, card.plcip[c].msgid)
               /\ card.plcip[c].plci \in Plci \cup {0} /\ ~Has(U[card.plcip[c].plci], "CONNECT_B3_IND")
    <3>1. card.plcip[c] \in Records
      BY <1>2, <2>6, PassedChannels DEF Typed
    <3>2. card.plcip[c].plci \in Plci \cup {0}
      BY <3>1 DEF Records
    <3>. QED BY <1>1, <1>2, <2>1, <2>6, <3>2 DEF Left
  <2>7. Left(t, Passed)
    <3>1. \A c \in Passed : card.nccip[c] = Null
      BY <1>2, <2>1 DEF Left
    <3>. QED BY <1>3, <1>8, <1>9, <2>6, <3>1 DEF Left
  <2>8. Quiet(t, Passed, p, m)
    <3>1. m.cmd = "CONNECT_B3_IND" => Has(U[p], "CONNECT_B3_IND")
      BY <1>7
    <3>. QED BY <1>3, <1>9, <1>11, <2>6, <3>1 DEF Quiet
  <2>9. m.cmd = "CONNECT_IND" => ~Has(r, "CONNECT_B3_IND")
    BY <1>7, <2>1 DEF Silent
  <2>. QED BY <1>3, <1>5, <2>2, <2>3, <2>5, <2>7, <2>8, <2>9
<1>. QED BY <1>10, <1>11

-------------------------------------------------------------------------------
(* The steps. *)

LEMMA QueuesNamed ==
  ASSUME RemInv
  PROVE  DOMAIN line.up = Plci \cup {0} /\ IsLine(line) /\ IsCard(card)
<1>1. Typed(now) /\ now.k = card /\ now.l = line
  BY NowTyped
<1>2. line.up = [p \in Plci \cup {0} |-> line.up[p]]
  BY <1>1 DEF Typed, Tidy, RemInv, Silent
<1>. QED BY <1>1, <1>2 DEF Typed, Shape

LEMMA RecvKeeps ==
  ASSUME RemInv, DrvInv, NEW p \in DOMAIN line.up, capidrv_recv_message(p)
  PROVE  RemInv'
<1>1. PICK t, m : t = Taken(p) /\ m = Head(line.up[p])
  OBVIOUS
<1>2. p \in Plci \cup {0} /\ Head1(p)
  BY QueuesNamed DEF capidrv_recv_message
<1>3. /\ Typed(t) /\ t.k = card /\ m.cmd \in Commands
      /\ pc # "up" => Silent(t.l.up) /\ Left(t, Passed)
      /\ Quiet(t, Passed, p, m)
  BY <1>1, <1>2, TakenTyped
<1>4. icall' = Null /\ pc' = pc
  BY DEF capidrv_recv_message, Idle
<1>5. CASE HasCard
  <2>1. m.cmd # "CONNECT_IND" /\ \E u \in handle(t, p, m) : Become(u)
    BY <1>1, <1>5 DEF capidrv_recv_message
  <2>2. PICK u \in handle(t, p, m) : Become(u)
    BY <2>1
  <2>3. Left(t, Passed) /\ Passed \in SUBSET Chan
    BY <1>3, PassedChannels DEF Left
  <2>4. Spares(t, u, Passed)
    BY <1>2, <1>3, <2>1, <2>3, HandleSpares
  <2>5. Left(u, Passed)
    BY <2>3, <2>4, PassedChannels, SparesLeft
  <2>6. Typed(u) /\ u.k.nbchan = card.nbchan /\ (pc # "up" => u.l.up = t.l.up)
    BY <1>3, <2>4 DEF Spares, Touch
  <2>7. pc # "up" => Silent(u.l.up)
    BY <1>3, <2>6
  <2>. QED BY <1>4, <2>2, <2>5, <2>6, <2>7, Stepped
<1>6. CASE ~HasCard
  <2>1. Become(t)
    BY <1>1, <1>6 DEF capidrv_recv_message
  <2>. QED BY <1>3, <1>4, <2>1, Stepped
<1>. QED BY <1>5, <1>6

(* The channel of a call keeps its structures where they are.              *)
LEMMA StayStep ==
  ASSUME RemInv, NEW c \in Chan, Commanded(c), NEW u, Stays(now, u, c), Become(u),
         UNCHANGED <<icall, pc>>
  PROVE  RemInv'
<1>1. Passed = {}
  BY DEF Commanded, Passed
<1>2. Spares(now, u, Passed)
  BY <1>1 DEF Spares, Stays, Calm
<1>3. icall' # Null => icall' = icall /\ icall = c /\ c \in card.incoming /\ card.plcip[c] # Null
  BY DEF Commanded, RemInv, OfferedCall
<1>4. now.k = card
  BY NowTyped
<1>5. icall' # Null => icall' = icall /\ icall' \in u.k.incoming /\ u.k.plcip[icall'] # Null
  BY <1>3, <1>4 DEF Stays, Calm
<1>. QED BY <1>2, <1>5, SteppedBy

LEMMA RejectedKeeps ==
  ASSUME RemInv, icall_rejected
  PROVE  RemInv'
<1>1. icall \in Chan /\ card.plcip[icall] # Null
  BY DEF icall_rejected, RemInv, OfferedCall
<1>2. Typed(now) /\ now.k = card
  BY NowTyped
<1>3. PICK t \in send_message(now, "CONNECT_REJECT", card.plcip[icall].plci, 0) :
        Become(Tell(plci_change_state(t, icall, "CONNECT_REJECT"), icall, "rejected"))
  BY DEF icall_rejected
<1>4. PICK v, u : /\ v = plci_change_state(t, icall, "CONNECT_REJECT")
                  /\ u = Tell(v, icall, "rejected")
  OBVIOUS
<1>5. Mild(now, t, icall) /\ t.k = card
  BY <1>2, <1>3, SendTouches
<1>6. Mild(t, v, icall)
  BY <1>1, <1>4, <1>5, PlciSteps DEF Mild, Calm, Touch
<1>7. Mild(v, u, icall)
  BY <1>1, <1>4, <1>6, TellStays DEF Mild, Calm, Touch
<1>8. Mild(now, u, icall)
  BY <1>5, <1>6, <1>7, MildTwice
<1>9. Spares(now, u, Passed)
  BY <1>8 DEF Spares, Mild, Calm
<1>10. Become(u) /\ icall' = Null /\ pc' = pc
  BY <1>3, <1>4 DEF icall_rejected
<1>. QED BY <1>9, <1>10, SteppedBy

LEMMA ListenKeeps ==
  ASSUME RemInv, listentimerfunc
  PROVE  RemInv'
<1>1. PICK t \in send_message(now, "LISTEN_REQ", 0, 0) :
        Become([t EXCEPT !.k = listen_change_state(@, "REQ")])
  BY DEF listentimerfunc
<1>2. PICK u : u = [t EXCEPT !.k = listen_change_state(@, "REQ")]
  OBVIOUS
<1>3. PICK n : u = [t EXCEPT !.k.state = n]
  BY <1>2 DEF listen_change_state
<1>4. Mild(now, t, n)
  BY <1>1, NowTyped, SendTouches
<1>5. Mild(t, u, n)
  <2>1. Typed(t)
    BY <1>4 DEF Mild, Calm, Touch
  <2>. QED BY <1>3, <2>1, SetOther
<1>6. Mild(now, u, n)
  BY <1>4, <1>5, MildTwice
<1>7. Spares(now, u, Passed)
  BY <1>6 DEF Spares, Mild, Calm
<1>8. Become(u) /\ icall' = Null /\ pc' = pc
  BY <1>1, <1>2 DEF listentimerfunc, Idle
<1>. QED BY <1>7, <1>8, SteppedBy

LEMMA AcceptdKeeps ==
  ASSUME RemInv, DrvInv, NEW c \in Chan, capidrv_command_acceptd(c)
  PROVE  RemInv'
<1>1. Typed(now) /\ now.k = card /\ now.l = line
  BY NowTyped
<1>2. card.plcip[c] # Null
  BY <1>1 DEF capidrv_command_acceptd, Commanded, Typed
<1>3. PICK p, v : p = card.plcip[c].plci /\ v = plci_change_state(now, c, "CONNECT_RESP")
  OBVIOUS
<1>4. PICK t \in send_message(v, "CONNECT_RESP", p, 0) : Become(Tell(t, c, "connected"))
  BY <1>3 DEF capidrv_command_acceptd
<1>5. PICK u : u = Tell(t, c, "connected")
  OBVIOUS
<1>6. Stays(now, v, c) /\ v.l = line
  BY <1>1, <1>2, <1>3, PlciSteps, QuietLine
<1>7. pc = "up" /\ p \in Plci => ~Has(line.up[p], "CONNECT_IND")
  <2>1. ASSUME pc = "up", p \in Plci PROVE ~HasBegin(line.up[p])
    <3>1. UpInv /\ HasCall(c)
      BY <1>2, <1>3, <2>1, DrvAssumption DEF DrvInv, Running, HasCall
    <3>. QED BY <1>3, <3>1, CallOwns DEF Owners
  <2>. QED BY <2>1 DEF Has, HasBegin, Begins
<1>8. Stays(v, t, c)
  BY <1>4, <1>6, <1>7, SendTouches DEF Stays, Calm, Touch
<1>9. Stays(t, u, c)
  BY <1>5, <1>8, TellStays DEF Stays, Calm, Touch
<1>10. Stays(now, u, c)
  BY <1>6, <1>8, <1>9, StaysTwice
<1>11. Become(u) /\ Commanded(c) /\ UNCHANGED <<icall, pc>>
  BY <1>4, <1>5 DEF capidrv_command_acceptd
<1>. QED BY <1>10, <1>11, StayStep

LEMMA HangupKeeps ==
  ASSUME RemInv, NEW c \in Chan, capidrv_command_hangup(c)
  PROVE  RemInv'
<1>1. Typed(now) /\ now.k = card /\ now.l = line
  BY NowTyped
<1>2. PICK t, n, x : t = Disconnecting(now, c) /\ n = card.nccip[c] /\ x = card.plcip[c]
  OBVIOUS
<1>3. Stays(now, t, c)
  BY <1>1, <1>2, DisconnectingStays
<1>4. Commanded(c) /\ UNCHANGED <<icall, pc>>
  BY DEF capidrv_command_hangup
<1>5. \/ \E u \in ncci_change_state(t, c, "DISCONNECT_B3_REQ") :
           \E v \in send_message(u, "DISCONNECT_B3_REQ", n.ncci, 0) : Become(v)
      \/ Become(t)
      \/ x # Null /\ \E v \in send_message(plci_change_state(t, c, "DISCONNECT_REQ"),
                                           "DISCONNECT_REQ", x.plci, 0) : Become(v)
  BY <1>2 DEF capidrv_command_hangup
<1>6. CASE \E u \in ncci_change_state(t, c, "DISCONNECT_B3_REQ") :
             \E v \in send_message(u, "DISCONNECT_B3_REQ", n.ncci, 0) : Become(v)
  <2>1. PICK u, v : /\ u \in ncci_change_state(t, c, "DISCONNECT_B3_REQ")
                    /\ v \in send_message(u, "DISCONNECT_B3_REQ", n.ncci, 0) /\ Become(v)
    BY <1>6
  <2>2. Stays(t, u, c)
    BY <1>3, <2>1, NcciSteps DEF Stays, Calm, Touch
  <2>3. Stays(u, v, c)
    BY <2>1, <2>2, SendTouches DEF Stays, Calm, Touch
  <2>4. Stays(now, v, c)
    BY <1>3, <2>2, <2>3, StaysTwice
  <2>. QED BY <1>4, <2>1, <2>4, StayStep
<1>7. CASE Become(t)
  BY <1>3, <1>4, <1>7, StayStep
<1>8. CASE x # Null /\ \E v \in send_message(plci_change_state(t, c, "DISCONNECT_REQ"),
                                             "DISCONNECT_REQ", x.plci, 0) : Become(v)
  <2>1. PICK u : u = plci_change_state(t, c, "DISCONNECT_REQ")
    OBVIOUS
  <2>2. PICK v \in send_message(u, "DISCONNECT_REQ", x.plci, 0) : Become(v)
    BY <1>8, <2>1
  <2>3. Stays(t, u, c)
    BY <1>1, <1>2, <1>3, <1>8, <2>1, PlciSteps DEF Stays, Calm, Touch
  <2>4. Stays(u, v, c)
    BY <2>2, <2>3, SendTouches DEF Stays, Calm, Touch
  <2>5. Stays(now, v, c)
    BY <1>3, <2>3, <2>4, StaysTwice
  <2>. QED BY <1>4, <2>2, <2>5, StayStep
<1>. QED BY <1>5, <1>6, <1>7, <1>8

LEMMA SendBufKeeps ==
  ASSUME RemInv, NEW c \in Chan, if_sendbuf(c)
  PROVE  RemInv'
<1>1. Typed(now) /\ now.k = card /\ now.l = line
  BY NowTyped
<1>2. PICK a, b : card' = [card EXCEPT !.nccip[c].acks = a, !.nccip[c].handle = b]
  BY DEF if_sendbuf
<1>3. PICK i, e : line' = [line EXCEPT !.data[i] = e]
  BY DEF if_sendbuf
<1>4. PICK t, v : /\ t = [now EXCEPT !.k.nccip[c].acks = a]
                  /\ v = [t EXCEPT !.k.nccip[c].handle = b]
  OBVIOUS
<1>5. Stays(now, t, c)
  BY <1>1, <1>4, SetNcci
<1>6. Typed(t)
  BY <1>5 DEF Stays, Calm, Touch
<1>7. Stays(t, v, c)
  BY <1>4, <1>6, SetNcci
<1>8. v.k = card' /\ v.l = line /\ Shape(v) /\ Typed(v)
  <2>1. Typed(v)
    BY <1>7 DEF Stays, Calm, Touch
  <2>2. Shape(now) /\ Shape(t) /\ Shape(v)
    BY <1>1, <1>6, <2>1 DEF Typed
  <2>3. t.l = line /\ v.l = line
    BY <1>1, <1>4, <2>2 DEF Shape
  <2>4. t.k = [card EXCEPT !.nccip[c].acks = a] /\ v.k = [t.k EXCEPT !.nccip[c].handle = b]
    BY <1>1, <1>4, <2>2 DEF Shape
  <2>5. v.k = card'
    BY <1>2, <2>4
  <2>. QED BY <2>1, <2>2, <2>3, <2>5
<1>9. IsLine(line') /\ line'.up = line.up /\ (pc = "up" => Tidy(line'))
  <2>1. IsLine(line) /\ (pc = "up" => Tidy(line))
    BY <1>1 DEF Typed, Shape
  <2>2. line' = [line EXCEPT !.data = line'.data]
    BY <1>3, <2>1 DEF IsLine
  <2>3. IsLine(line') /\ line'.up = line.up
    BY <2>1, <2>2 DEF IsLine
  <2>. QED BY <2>1, <2>2, <2>3, TidyQuiet
<1>10. PICK u : u = [k |-> card', l |-> line']
  OBVIOUS
<1>11. Stays(v, u, c)
  <2>1. Shape(u) /\ u.k = v.k /\ u.l = line'
    BY <1>8, <1>9, <1>10 DEF Shape
  <2>2. Typed(u)
    BY <1>8, <1>9, <2>1 DEF Typed
  <2>. QED BY <1>8, <1>9, <2>1, <2>2 DEF Stays, Calm, Touch
<1>12. Stays(now, u, c)
  BY <1>5, <1>7, <1>11, StaysTwice
<1>13. Become(u) /\ Commanded(c) /\ UNCHANGED <<icall, pc>>
  BY <1>10 DEF if_sendbuf, Become
<1>. QED BY <1>12, <1>13, StayStep

(* A structure for a new call is put in front of the others.               *)
LEMMA NewStruct ==
  ASSUME NEW s, Typed(s), NEW c, NEW p, NEW id, NEW w, w = new_plci(s, c, p, id)
  PROVE  /\ Entered(s, w, c, NewPlci(p, id), s.k.incoming)
         /\ w.k.nccip = s.k.nccip /\ w.k.nbchan = s.k.nbchan
<1>1. Shape(s)
  BY DEF Typed
<1>2. Entered(s, w, c, NewPlci(p, id), s.k.incoming)
  BY <1>1, NewEffect
<1>3. PICK r, M : r = [plci |-> p, msgid |-> id, state |-> "NONE"] /\ M = <<c>> \o s.k.plci_list
  OBVIOUS
<1>4. w = [s EXCEPT !.k.plcip[c] = r, !.k.plci_list = M]
  BY <1>3 DEF new_plci
<1>5. w.k.nccip = s.k.nccip /\ w.k.nbchan = s.k.nbchan
  BY <1>1, <1>4 DEF Shape, IsCard
<1>. QED BY <1>2, <1>5

LEMMA NewCall ==
  ASSUME NEW s, Typed(s), NEW c \in Chan, NEW p \in Plci \cup {0}, NEW id \in Msgids \cup {0},
         NEW K, \A z : z # c => (z \in K <=> z \in s.k.incoming),
         NEW x, Entered(s, x, c, NewPlci(p, id), K),
         x.k.nccip = s.k.nccip, x.k.nbchan = s.k.nbchan,
         NEW y, \/ y = plci_change_state(x, c, "CONNECT_REQ")
                \/ y = plci_change_state(x, c, "CONNECT_IND")
  PROVE  /\ Touch(s, y, c) /\ y.l = s.l
         /\ y.k.plcip[c] # Null /\ y.k.plcip[c].plci = p /\ y.k.plcip[c].msgid = id
         /\ y.k.incoming = K /\ y.k.nccip = s.k.nccip
<1>1. Shape(s) /\ s.k.plcip \in [Chan -> Records \cup {Null}] /\ s.k.plci_list \in Seq(Chan)
  BY DEF Typed
<1>2. x.k.plcip[c].state = "NONE"
  BY <1>1 DEF Entered, NewPlci
<1>3. PICK to : to \in {"OUTGOING", "INCOMING"} /\ y = [x EXCEPT !.k.plcip[c].state = to]
  <2>1. /\ plci_change_state(x, c, "CONNECT_REQ") = [x EXCEPT !.k.plcip[c].state = "OUTGOING"]
        /\ plci_change_state(x, c, "CONNECT_IND") = [x EXCEPT !.k.plcip[c].state = "INCOMING"]
    BY <1>2, TableBegins
  <2>. QED BY <2>1
<1>4. PICK a : a = [plci |-> p, msgid |-> id, state |-> to]
  OBVIOUS
<1>5. Entered(s, y, c, a, K)
  BY <1>1, <1>3, <1>4, EnteredState
<1>6. y.k.nccip = s.k.nccip /\ y.k.nbchan = s.k.nbchan
  <2>1. PICK P : P = [x.k.plcip EXCEPT ![c].state = to]
    OBVIOUS
  <2>2. y = [x EXCEPT !.k.plcip = P]
    BY <1>3, <2>1
  <2>3. Shape(x)
    BY DEF Entered
  <2>. QED BY <2>2, <2>3 DEF Shape, IsCard
<1>7. a \in Records /\ a.plci = p /\ a.msgid = id
  BY <1>3, <1>4 DEF Records, PlciStates
<1>8. a # Null
  BY <1>7, DrvAssumption DEF Records
<1>9. PICK Q, M : Q = [s.k.plcip EXCEPT ![c] = a] /\ M = <<c>> \o s.k.plci_list
  OBVIOUS
<1>10. /\ Shape(y) /\ y.l = s.l /\ y.k.plcip = Q /\ y.k.plci_list = M
       /\ y.k.incoming = K /\ y.k.told = s.k.told
  BY <1>5, <1>9 DEF Entered
<1>11. /\ Q \in [Chan -> Records \cup {Null}] /\ Q[c] = a
       /\ \A z \in Chan : z # c => Q[z] = s.k.plcip[z]
  BY <1>1, <1>7, <1>9
<1>12. M \in Seq(Chan)
  BY <1>1, <1>9
<1>13. Typed(y)
  <2>1. \A z \in Chan : s.k.plcip[z] # Null => Q[z] # Null
    BY <1>8, <1>11
  <2>. QED BY <1>6, <1>10, <1>11, <1>12, <2>1 DEF Typed
<1>. QED BY <1>6, <1>7, <1>8, <1>10, <1>11, <1>13 DEF Touch

LEMMA NewChannel ==
  ASSUME RemInv, NEW c, c = new_bchan(card), c # Null
  PROVE  c \in Chan /\ card.plcip[c] = Null
<1>1. PICK open : open = {x \in 0 .. card.nbchan - 1 : card.plcip[x] = Null}
  OBVIOUS
<1>2. card.nbchan \in 0 .. NbChan
  BY QueuesNamed DEF IsCard
<1>3. open \subseteq Chan /\ open \in SUBSET Nat
  BY <1>1, <1>2, DrvAssumption DEF Chan
<1>4. open # {} /\ c = CHOOSE x \in open : \A y \in open : x <= y
  BY <1>1 DEF new_bchan
<1>5. \E x \in open : \A y \in open : x <= y
  BY <1>3, <1>4, LeastExists
<1>6. c \in open
  BY <1>4, <1>5
<1>. QED BY <1>1, <1>3, <1>6

LEMMA IncomingKeeps ==
  ASSUME RemInv, DrvInv, NEW p \in DOMAIN line.up, handle_incoming_call(p)
  PROVE  RemInv'
<1>1. PICK t, m : t = Taken(p) /\ m = Head(line.up[p])
  OBVIOUS
<1>2. p \in Plci \cup {0} /\ Head1(p) /\ m.cmd = "CONNECT_IND"
  BY <1>1, QueuesNamed DEF handle_incoming_call
<1>3. /\ Typed(t) /\ t.k = card
      /\ pc # "up" => Silent(t.l.up) /\ Left(t, Passed)
      /\ pc # "up" => ~Has(t.l.up[p], "CONNECT_B3_IND")
  BY <1>1, <1>2, TakenTyped
<1>4. icall = Null /\ pc' = pc
  BY DEF handle_incoming_call, Idle
<1>5. PICK c : c = new_bchan(card)
  OBVIOUS
<1>6. PICK v : v = [t EXCEPT !.k.disconnecting = @ \ {c}]
  OBVIOUS
<1>7. Stays(t, v, c) /\ Mild(t, v, c)
  <2>1. PICK n : n = t.k.disconnecting \ {c}
    OBVIOUS
  <2>2. v = [t EXCEPT !.k.disconnecting = n]
    BY <1>6, <2>1
  <2>. QED BY <1>3, <2>2, SetOther
<1>8. Touch(t, v, c) /\ Typed(v) /\ v.k.nccip[c] = t.k.nccip[c] /\ v.l = t.l
  <2>1. v.k.nccip = t.k.nccip /\ v.l = t.l
    BY <1>3, <1>6 DEF Typed, Shape, IsCard
  <2>. QED BY <1>7, <2>1 DEF Mild, Calm, Touch
<1>9. Left(t, Passed) /\ Passed \in SUBSET Chan
  BY <1>3, PassedChannels DEF Left
<1>10. CASE Become(v) /\ UNCHANGED icall
  <2>1. Spares(t, v, Passed)
    BY <1>7, <1>8 DEF Spares
  <2>2. Left(v, Passed)
    BY <1>9, <2>1, PassedChannels, SparesLeft
  <2>3. pc # "up" => Silent(v.l.up)
    BY <1>3, <1>8
  <2>4. v.k.nbchan = card.nbchan
    BY <1>3, <1>8 DEF Touch
  <2>. QED BY <1>4, <1>8, <1>10, <2>2, <2>3, <2>4, Stepped
<1>11. CASE ~(Become(v) /\ UNCHANGED icall)
  <2>1. PICK w : w = new_plci(v, c, p, 0)
    OBVIOUS
  <2>2. PICK x : x = [w EXCEPT !.k.incoming = @ \cup {c}]
    OBVIOUS
  <2>3. PICK y : y = plci_change_state(x, c, "CONNECT_IND")
    OBVIOUS
  <2>4. PICK z : z = Tell(y, c, "ringing")
    OBVIOUS
  <2>5. c # Null /\ Become(z) /\ icall' = c
    BY <1>1, <1>5, <1>6, <1>11, <2>1, <2>2, <2>3, <2>4 DEF handle_incoming_call
  <2>6. c \in Chan
    BY <1>5, <2>5, NewChannel
  <2>7. PICK K : K = v.k.incoming \cup {c}
    OBVIOUS
  <2>8. /\ Entered(v, x, c, NewPlci(p, 0), K)
        /\ x.k.nccip = v.k.nccip /\ x.k.nbchan = v.k.nbchan
    <3>1. /\ Entered(v, w, c, NewPlci(p, 0), v.k.incoming)
          /\ w.k.nccip = v.k.nccip /\ w.k.nbchan = v.k.nbchan
      BY <1>8, <2>1, NewStruct
    <3>2. x = [w EXCEPT !.k.incoming = K]
      BY <2>2, <2>7, <3>1 DEF Entered
    <3>3. Entered(v, x, c, NewPlci(p, 0), K)
      BY <3>1, <3>2, EnteredIncoming
    <3>. QED BY <3>1, <3>2, <3>3 DEF Entered, Shape, IsCard
  <2>9. \A b : b # c => (b \in K <=> b \in v.k.incoming)
    BY <2>7
  <2>10. /\ Touch(v, y, c) /\ y.l = v.l
         /\ y.k.plcip[c] # Null /\ y.k.plcip[c].plci = p /\ y.k.plcip[c].msgid = 0
         /\ y.k.incoming = K /\ y.k.nccip = v.k.nccip
    <3>1. 0 \in Msgids \cup {0}
      OBVIOUS
    <3>. QED BY <1>2, <1>8, <2>3, <2>6, <2>8, <2>9, <3>1, NewCall
  <2>11. Typed(y)
    BY <2>10 DEF Touch
  <2>12. Stays(y, z, c) /\ Mild(y, z, c)
    BY <2>4, <2>6, <2>10, <2>11, TellStays
  <2>13. Touch(t, z, c)
    <3>1. Touch(y, z, c)
      BY <2>12 DEF Stays, Calm
    <3>. QED BY <1>8, <2>10, <3>1, TouchTwice
  <2>14. /\ z.k.plcip[c] # Null /\ z.k.plcip[c].plci = p /\ z.k.plcip[c].msgid = 0
         /\ c \in z.k.incoming /\ (y.k.nccip[c] = Null => z.k.nccip[c] = Null)
    BY <2>7, <2>10, <2>12 DEF Stays, Mild, Calm
  <2>15. Typed(z) /\ z.k.nbchan = card.nbchan /\ (pc # "up" => z.l.up = t.l.up)
    BY <1>3, <2>13 DEF Touch
  <2>16. ASSUME pc # "up", NEW b \in Passed
         PROVE  /\ z.k.nccip[b] = Null
                /\ z.k.plcip[b] # Null =>
                     /\ b \in z.k.incoming /\ ~Pending(z.l.up, z.k.plcip[b].msgid)
                     /\ ~Has(z.l.up[z.k.plcip[b].plci], "CONNECT_B3_IND")
    <3>1. t.k.nccip[b] = Null /\ b \in Chan
      BY <1>9 DEF Left
    <3>2. CASE b = c
      <4>1. z.k.nccip[c] = Null
        BY <1>8, <2>10, <2>14, <3>1, <3>2
      <4>2. ~Pending(z.l.up, 0) /\ ~Has(z.l.up[p], "CONNECT_B3_IND")
        BY <1>3, <2>15, <2>16 DEF Silent
      <4>. QED BY <2>14, <3>2, <4>1, <4>2
    <3>3. CASE b # c
      <4>1. z.k.nccip[b] = t.k.nccip[b] /\ z.k.plcip[b] = t.k.plcip[b]
            /\ (b \in z.k.incoming <=> b \in t.k.incoming) /\ z.l.up = t.l.up
        BY <2>13, <2>16, <3>1, <3>3 DEF Touch
      <4>. QED BY <1>9, <2>16, <4>1 DEF Left
    <3>. QED BY <3>2, <3>3
  <2>17. pc # "up" => Silent(z.l.up) /\ Left(z, Passed)
    BY <1>3, <2>15, <2>16 DEF Left
  <2>. QED BY <1>4, <2>5, <2>6, <2>14, <2>15, <2>17, Stepped
<1>. QED BY <1>10, <1>11

LEMMA DialKeeps ==
  ASSUME RemInv, NEW c \in Chan, capidrv_command_dial(c)
  PROVE  RemInv'
<1>1. PICK id \in FreshIds :
       \E t \in send_message(plci_change_state(new_plci(now, c, 0, id), c, "CONNECT_REQ"),
                             "CONNECT_REQ", 0, id) :
         Become(Tell(t, c, "dialing"))
  BY DEF capidrv_command_dial
<1>2. id \in Msgids \cup {0} /\ 0 \in Plci \cup {0}
  BY DEF FreshIds
<1>3. PICK s : s = now
  OBVIOUS
<1>4. Typed(s)
  BY <1>3, NowTyped
<1>5. PICK w, K : w = new_plci(s, c, 0, id) /\ K = s.k.incoming
  OBVIOUS
<1>6. /\ Entered(s, w, c, NewPlci(0, id), K)
      /\ w.k.nccip = s.k.nccip /\ w.k.nbchan = s.k.nbchan
  BY <1>4, <1>5, NewStruct
<1>7. PICK y : y = plci_change_state(w, c, "CONNECT_REQ")
  OBVIOUS
<1>8. Touch(s, y, c)
  <2>1. \A z : z # c => (z \in K <=> z \in s.k.incoming)
    BY <1>5
  <2>. QED BY <1>2, <1>4, <1>6, <1>7, <2>1, NewCall
<1>9. PICK t \in send_message(y, "CONNECT_REQ", 0, id) : Become(Tell(t, c, "dialing"))
  BY <1>1, <1>3, <1>5, <1>7
<1>10. Stays(y, t, c)
  BY <1>8, <1>9, SendTouches DEF Touch
<1>11. PICK u : u = Tell(t, c, "dialing")
  OBVIOUS
<1>12. Stays(t, u, c)
  BY <1>10, <1>11, TellStays DEF Stays, Calm, Touch
<1>13. Touch(s, u, c)
  BY <1>8, <1>10, <1>12, TouchTwice DEF Stays, Calm
<1>14. Passed = {} /\ icall' = Null /\ pc' = pc /\ Become(u)
  BY <1>9, <1>11 DEF capidrv_command_dial, Commanded, Idle, Passed
<1>15. Spares(now, u, Passed)
  BY <1>3, <1>13, <1>14 DEF Spares
<1>. QED BY <1>14, <1>15, SteppedBy

LEMMA AlertKeeps ==
  ASSUME RemInv, icall_taken
  PROVE  RemInv'
<1>1. Typed(now) /\ now.k = card /\ now.l = line /\ Left(now, Passed)
  BY NowTyped
<1>2. icall' = Null /\ pc' = pc
  BY DEF icall_taken
<1>3. PICK c, p : c = icall /\ p = card.plcip[c].plci
  OBVIOUS
<1>4. c \in Chan /\ c \in card.incoming /\ card.plcip[c] # Null
  BY <1>3 DEF icall_taken, RemInv, OfferedCall
<1>5. CASE UNCHANGED <<card, line>>
  <2>1. Become(now)
    BY <1>1, <1>5 DEF Become
  <2>2. Spares(now, now, Passed)
    BY <1>1, SameSpares
  <2>. QED BY <1>2, <2>1, <2>2, SteppedBy
<1>6. CASE ~UNCHANGED <<card, line>>
  <2>1. PICK id \in FreshIds : \E t \in send_message(now, "ALERT_REQ", p, id) :
               Become([t EXCEPT !.k.plcip[c].msgid = id])
    BY <1>3, <1>6 DEF icall_taken
  <2>2. PICK t \in send_message(now, "ALERT_REQ", p, id) :
               Become([t EXCEPT !.k.plcip[c].msgid = id])
    BY <2>1
  <2>3. Mild(now, t, c) /\ t.k = card
    BY <1>1, <2>2, SendTouches
  <2>4. PICK u : u = [t EXCEPT !.k.plcip[c].msgid = id]
    OBVIOUS
  <2>5. id \in Msgids /\ (pc # "up" => ~Pending(line.up, id))
    <3>1. ASSUME pc # "up", NEW q, NEW i, Place(line.up, q, i, id) PROVE FALSE
      <4>1. q \in Plci \cup {0} /\ IsSeq(line.up[q])
        BY <3>1, QueuesNamed DEF Place, RemInv, Silent
      <4>2. i \in DOMAIN line.up[q] /\ line.up[q][i].cmd = "CONNECT_CONF" /\ line.up[q][i].id = id
        BY <3>1, <4>1 DEF Place, Entries, IsSeq
      <4>. QED BY <3>1, <4>2 DEF FreshIds, Place
    <3>. QED BY <3>1 DEF Pending, FreshIds
  <2>6. Typed(t) /\ t.k.plcip[c] # Null /\ t.k.nbchan = card.nbchan /\ (pc # "up" => t.l.up = line.up)
    BY <1>1, <1>4, <2>3 DEF Mild, Calm, Touch
  <2>7. /\ Touch(t, u, c) /\ u.k.plcip[c] # Null /\ u.k.plcip[c].msgid = id
        /\ u.k.plcip[c].plci = t.k.plcip[c].plci
        /\ u.k.nccip = t.k.nccip /\ u.k.incoming = t.k.incoming
    <3>1. \A i \in Msgids : \A z : z = [t EXCEPT !.k.plcip[c].msgid = i] =>
            /\ Touch(t, z, c) /\ z.k.plcip[c] # Null /\ z.k.plcip[c].msgid = i
            /\ z.k.plcip[c].plci = t.k.plcip[c].plci
            /\ z.k.nccip = t.k.nccip /\ z.k.incoming = t.k.incoming
      BY <1>4, <2>6, SetMsgid
    <3>. QED BY <2>4, <2>5, <3>1, Zenon
  <2>8. Typed(u) /\ u.k.nbchan = card.nbchan /\ (pc # "up" => u.l.up = line.up)
    BY <2>6, <2>7 DEF Touch
  <2>9. ASSUME pc # "up", NEW b \in Passed
        PROVE  /\ u.k.nccip[b] = Null
               /\ u.k.plcip[b] # Null =>
                    /\ b \in u.k.incoming /\ ~Pending(u.l.up, u.k.plcip[b].msgid)
                    /\ ~Has(u.l.up[u.k.plcip[b].plci], "CONNECT_B3_IND")
    <3>1. /\ b \in Chan /\ card.nccip[b] = Null
          /\ card.plcip[b] # Null => /\ b \in card.incoming /\ ~Pending(line.up, card.plcip[b].msgid)
                                     /\ ~Has(line.up[card.plcip[b].plci], "CONNECT_B3_IND")
      BY <1>1, PassedChannels DEF Left
    <3>2. CASE b = c
      BY <1>4, <2>3, <2>5, <2>7, <2>8, <2>9, <3>1, <3>2
    <3>3. CASE b # c
      BY <2>3, <2>7, <2>8, <2>9, <3>1, <3>3 DEF Touch
    <3>. QED BY <3>2, <3>3
  <2>10. pc # "up" => Silent(u.l.up) /\ Left(u, Passed)
    BY <2>8, <2>9 DEF Left, RemInv
  <2>11. Become(u)
    BY <2>2, <2>4
  <2>. QED BY <1>2, <2>8, <2>10, <2>11, Stepped
<1>. QED BY <1>5, <1>6

-------------------------------------------------------------------------------
(* The steps of the device, which is there. *)

LEMMA DeviceKeeps ==
  ASSUME RemInv, pc = "up", UNCHANGED <<card, icall, pc>>, IsLine(line'), Tidy(line')
  PROVE  RemInv'
<1>1. Typed(now) /\ now.k = card
  BY NowTyped
<1>2. PICK u, n : n = line' /\ u = [k |-> card, l |-> n]
  OBVIOUS
<1>3. Shape(u) /\ u.k = card /\ u.l = n
  BY <1>1, <1>2 DEF Typed, Shape
<1>4. Typed(u) /\ u.k.nbchan = card.nbchan
  <2>1. Tidy(n)
    BY <1>2
  <2>. QED BY <1>1, <1>3, <2>1 DEF Typed
<1>5. Become(u)
  BY <1>2, <1>3 DEF Become
<1>6. icall' # Null => icall' \in Chan /\ icall' \in u.k.incoming /\ u.k.plcip[icall'] # Null
  BY <1>3 DEF RemInv, OfferedCall
<1>. QED BY <1>4, <1>5, <1>6, Stepped

(* A message of the connection p, whose state becomes e. *)
LEMMA ReportKeeps ==
  ASSUME RemInv, pc = "up", NEW p \in Plci, NEW from, NEW e, NEW m, Reported(p, from, e, m),
         pc' = pc, NEW r, r = Append(line.up[p], m), Heralds(r, e)
  PROVE  RemInv'
<1>1. Tidy(line)
  BY NowTyped DEF Typed
<1>2. /\ UNCHANGED <<card, icall>> /\ IsLine(line')
      /\ line'.d = [line.d EXCEPT ![p] = e] /\ line'.up = [line.up EXCEPT ![p] = r]
  BY DEF Reported
<1>3. PICK D, U, E, V : D = line.d /\ U = line.up /\ E = line'.d /\ V = line'.up
  OBVIOUS
<1>4. /\ D = [q \in Plci |-> D[q]] /\ U = [q \in Plci \cup {0} |-> U[q]]
      /\ IsSeq(U[0]) /\ \A q \in Plci : Heralds(U[q], D[q])
  BY <1>1, <1>3 DEF Tidy
<1>5. E = [D EXCEPT ![p] = e] /\ V = [U EXCEPT ![p] = r]
  BY <1>2, <1>3
<1>6. E = [q \in Plci |-> E[q]] /\ \A q \in Plci : E[q] = IF q = p THEN e ELSE D[q]
  BY <1>4, <1>5
<1>7. /\ V = [q \in Plci \cup {0} |-> V[q]]
      /\ \A q \in Plci \cup {0} : V[q] = IF q = p THEN r ELSE U[q]
  BY <1>4, <1>5
<1>8. IsSeq(V[0]) /\ \A q \in Plci : Heralds(V[q], E[q])
  BY <1>4, <1>6, <1>7, DrvAssumption
<1>9. Tidy(line')
  BY <1>3, <1>6, <1>7, <1>8 DEF Tidy
<1>. QED BY <1>2, <1>9, DeviceKeeps

LEMMA RingKeeps ==
  ASSUME RemInv, DrvInv, pc = "up", NEW p \in Plci, Ring(p)
  PROVE  RemInv'
<1>1. PICK m, q, r : m = Msg("CONNECT_IND", TRUE, 0) /\ q = line.up[p] /\ r = Append(q, m)
  OBVIOUS
<1>2. Reports(p, {"idle"}, "in", "CONNECT_IND") /\ pc' = pc
  BY DEF Ring, Reports, Device
<1>3. Reported(p, {"idle"}, "in", m)
  BY <1>1, <1>2, ReportEffect DEF DrvInv, Running
<1>4. Heralds(q, "idle")
  BY <1>1, <1>3, NowTyped DEF Typed, Tidy, Reported
<1>5. Longer(q, m, r) /\ m.cmd = "CONNECT_IND" /\ ~Has(q, "CONNECT_B3_IND")
  BY <1>1, <1>4, QueueAppend DEF Heralds, Msg
<1>6. ~Has(r, "CONNECT_B3_IND")
  BY <1>5, HasAppend
<1>7. Heralds(r, "in")
  BY <1>5, <1>6 DEF Heralds, Has, Longer
<1>. QED BY <1>1, <1>2, <1>3, <1>7, ReportKeeps

LEMMA AnsweredKeeps ==
  ASSUME RemInv, DrvInv, pc = "up", NEW p \in Plci, Answered(p)
  PROVE  RemInv'
<1>1. PICK m, q, r : m = Msg("CONNECT_ACTIVE_IND", TRUE, 0) /\ q = line.up[p] /\ r = Append(q, m)
  OBVIOUS
<1>2. PICK from, to : /\ Reports(p, from, to, "CONNECT_ACTIVE_IND")
                      /\ from \in {{"out"}, {"in_acc"}}
  BY DEF Answered
<1>3. pc' = pc /\ Reported(p, from, to, m)
  BY <1>1, <1>2, ReportEffect DEF DrvInv, Running, Reports, Device
<1>4. Heralds(q, line.d[p]) /\ line.d[p] \in {"out", "in_acc"}
  BY <1>1, <1>2, <1>3, NowTyped DEF Typed, Tidy, Reported
<1>5. Heralds(q, to)
  BY <1>4, HeraldsBare DEF Heralds, Bare
<1>6. Heralds(r, to)
  BY <1>1, <1>5, HeraldsGrow DEF Msg
<1>. QED BY <1>1, <1>3, <1>6, ReportKeeps

LEMMA EndsKeeps ==
  ASSUME RemInv, DrvInv, pc = "up", NEW p \in Plci, NEW from, Ends(p, from)
  PROVE  RemInv'
<1>1. PICK m, q, r : m = Msg("DISCONNECT_IND", TRUE, 0) /\ q = line.up[p] /\ r = Append(q, m)
  OBVIOUS
<1>2. Reports(p, from, "gone", "DISCONNECT_IND") /\ pc' = pc
  BY DEF Ends, Reports, Device
<1>3. Reported(p, from, "gone", m)
  BY <1>1, <1>2, ReportEffect DEF DrvInv, Running
<1>4. Heralds(q, line.d[p])
  BY <1>1, NowTyped DEF Typed, Tidy
<1>5. Longer(q, m, r) /\ m.cmd = "DISCONNECT_IND"
  BY <1>1, <1>4, QueueAppend DEF Heralds, Msg
<1>6. /\ Has(r, "DISCONNECT_IND")
      /\ Has(r, "CONNECT_IND") <=> Has(q, "CONNECT_IND")
      /\ Has(r, "CONNECT_B3_IND") <=> Has(q, "CONNECT_B3_IND")
  BY <1>5, HasAppend
<1>7. ASSUME NEW i \in Entries(r), NEW j \in Entries(r),
             r[i].cmd = "CONNECT_B3_IND", r[j].cmd = "DISCONNECT_IND"
      PROVE  i < j
  <2>1. i \in Entries(q) /\ q[i] = r[i] /\ r[Len(q) + 1] = m
    BY <1>5, <1>7 DEF Longer
  <2>2. CASE j \in Entries(q)
    BY <1>4, <1>5, <1>7, <2>1, <2>2 DEF Heralds, Longer
  <2>3. CASE j \notin Entries(q)
    BY <1>5, <2>1, <2>3 DEF Longer, Entries
  <2>. QED BY <2>2, <2>3
<1>8. Heralds(r, "gone")
  BY <1>4, <1>5, <1>6, <1>7 DEF Heralds, Longer
<1>. QED BY <1>1, <1>2, <1>3, <1>8, ReportKeeps

LEMMA RingB3Keeps ==
  ASSUME RemInv, DrvInv, pc = "up", NEW p \in Plci, RingB3(p)
  PROVE  RemInv'
<1>1. PICK m, q, r : m = Msg("CONNECT_B3_IND", TRUE, 0) /\ q = line.up[p] /\ r = Append(q, m)
  OBVIOUS
<1>2. PICK l : l = [line EXCEPT !.b[p] = "in"]
  OBVIOUS
<1>3. line' = Up(l, p, m) /\ UNCHANGED <<card, icall, pc>> /\ line.d[p] = "in_act"
  BY <1>1, <1>2 DEF RingB3, ReportsB3, Device, Ind
<1>4. IsLine(l) /\ l.d = line.d /\ l.up = line.up
  BY <1>2, QueuesNamed DEF IsLine
<1>5. Sound(now)
  BY DEF DrvInv, Running, UpInv
<1>6. Reported(p, {"in_act"}, "in_act", m)
  <2>1. line.d = [line.d EXCEPT ![p] = "in_act"]
    BY <1>3, <1>5, NowTyped DEF Typed, Tidy
  <2>2. IsLine(line') /\ line'.d = l.d /\ line'.up = [l.up EXCEPT ![p] = Append(l.up[p], m)]
    BY <1>3, <1>4 DEF IsLine, Up
  <2>. QED BY <1>3, <1>4, <2>1, <2>2 DEF Reported
<1>7. Heralds(q, "in_act")
  BY <1>1, <1>3, NowTyped DEF Typed, Tidy
<1>8. ~HasEnd(q)
  <2>1. Queue(q, "in_act")
    BY <1>1, <1>3, <1>5, NowTyped DEF Sound, Agree, Lines
  <2>. QED BY <2>1 DEF Queue
<1>9. Longer(q, m, r) /\ m.cmd = "CONNECT_B3_IND"
  BY <1>1, <1>7, QueueAppend DEF Heralds, Msg
<1>10. ~Has(r, "CONNECT_IND")
  <2>1. ~Has(q, "CONNECT_IND")
    BY <1>7 DEF Heralds
  <2>. QED BY <1>9, <2>1, HasAppend
<1>11. ~Has(r, "DISCONNECT_IND")
  <2>1. ~Has(q, "DISCONNECT_IND")
    BY <1>8 DEF Has, HasEnd, Finishes
  <2>. QED BY <1>9, <2>1, HasAppend
<1>12. Heralds(r, "in_act")
  BY <1>9, <1>10, <1>11 DEF Heralds, Has, Longer
<1>. QED BY <1>1, <1>3, <1>6, <1>12, ReportKeeps

LEMMA SignalKeeps ==
  ASSUME RemInv, pc = "up", NEW p \in Plci, NEW from, NEW to, NEW cmd,
         cmd \notin {"CONNECT_IND", "CONNECT_B3_IND", "DISCONNECT_IND"},
         ReportsB3(p, from, to, cmd)
  PROVE  RemInv'
<1>1. IsLine(line) /\ Tidy(line)
  BY QueuesNamed, NowTyped DEF Typed
<1>2. PICK l, m, n : l = [line EXCEPT !.b[p] = to] /\ m = Msg(cmd, TRUE, 0) /\ n = Up(l, p, m)
  OBVIOUS
<1>3. l = [line EXCEPT !.b = l.b]
  BY <1>1, <1>2 DEF IsLine
<1>4. IsLine(l) /\ Tidy(l)
  BY <1>1, <1>3, TidyQuiet
<1>5. IsLine(n) /\ Tidy(n)
  BY <1>2, <1>4, TidyConf DEF Msg
<1>6. line' = n /\ UNCHANGED <<card, icall, pc>>
  BY <1>2 DEF ReportsB3, Device, Ind
<1>7. IsLine(line') /\ Tidy(line')
  BY <1>5, <1>6 DEF IsLine, Tidy, Heralds, Has
<1>. QED BY <1>6, <1>7, DeviceKeeps

LEMMA ConfirmsKeeps ==
  ASSUME RemInv, pc = "up", NEW p \in Plci, Confirms(p)
  PROVE  RemInv'
<1>1. IsLine(line) /\ Tidy(line)
  BY QueuesNamed, NowTyped DEF Typed
<1>2. PICK l, m, n : /\ l = [line EXCEPT !.data[p] = Tail(@)]
                     /\ m = Msg("DATA_B3_CONF", TRUE, Head(line.data[p])) /\ n = Up(l, p, m)
  OBVIOUS
<1>3. l = [line EXCEPT !.data = l.data]
  BY <1>1, <1>2 DEF IsLine
<1>4. IsLine(l) /\ Tidy(l)
  BY <1>1, <1>3, TidyQuiet
<1>5. IsLine(n) /\ Tidy(n)
  BY <1>2, <1>4, TidyConf DEF Msg
<1>6. line' = n /\ UNCHANGED <<card, icall, pc>>
  BY <1>2 DEF Confirms, Conf
<1>7. IsLine(line') /\ Tidy(line')
  BY <1>5, <1>6 DEF IsLine, Tidy, Heralds, Has
<1>. QED BY <1>6, <1>7, DeviceKeeps

LEMMA DeviceStepsKeep ==
  ASSUME RemInv, DrvInv, NEW p \in Plci,
         \/ Ring(p) \/ Answered(p) \/ Ends(p, Outgoing \cup Incoming)
         \/ RingB3(p) \/ ActiveB3(p) \/ EndsB3(p, {"in", "alloc", "act"})
         \/ Clears(p) \/ Confirms(p) \/ Receives(p)
  PROVE  RemInv'
<1>1. pc = "up"
  BY DEF Ring, Answered, Ends, RingB3, ActiveB3, EndsB3, Clears, Confirms, Receives, Reports,
         ReportsB3, Device
<1>2. CASE Ring(p) \/ Answered(p) \/ RingB3(p) \/ Confirms(p)
  BY <1>1, <1>2, RingKeeps, AnsweredKeeps, RingB3Keeps, ConfirmsKeeps
<1>3. CASE \E from : Ends(p, from)
  BY <1>1, <1>3, EndsKeeps
<1>4. CASE \E from, to : \/ ReportsB3(p, from, to, "CONNECT_B3_ACTIVE_IND")
                         \/ ReportsB3(p, from, to, "DISCONNECT_B3_IND")
                         \/ ReportsB3(p, from, to, "DATA_B3_IND")
  <2>1. PICK from, to, cmd : /\ ReportsB3(p, from, to, cmd)
                             /\ cmd \in {"CONNECT_B3_ACTIVE_IND", "DISCONNECT_B3_IND", "DATA_B3_IND"}
    BY <1>4
  <2>2. cmd \notin {"CONNECT_IND", "CONNECT_B3_IND", "DISCONNECT_IND"}
    BY <2>1
  <2>. QED BY <1>1, <2>1, <2>2, SignalKeeps
<1>. QED BY <1>2, <1>3, <1>4 DEF ActiveB3, EndsB3, Clears, Receives

-------------------------------------------------------------------------------
(* The steps of the removal. *)

(* An unregistered device has left no CONNECT_B3_IND behind the            *)
(* CONNECT_IND of its connection, and no CONNECT_CONF of number 0.         *)
LEMMA FallsSilent ==
  ASSUME RemInv, UpInv, pc = "up"
  PROVE  Silent(line.up)
<1>1. PICK P, L, I, T, D, U : /\ P = card.plcip /\ L = card.plci_list /\ I = card.incoming
                              /\ T = card.told /\ D = line.d /\ U = line.up
  OBVIOUS
<1>2. Agree(P, L, I, T, D, U)
  BY <1>1, NowIs DEF Sound
<1>3. ~Pending(U, 0)
  BY <1>2, ZeroUnused
<1>4. /\ U = [p \in Plci \cup {0} |-> U[p]] /\ \A p \in Plci : Queue(U[p], D[p])
      /\ IsSeq(U[0]) /\ \A i \in Entries(U[0]) : U[0][i].cmd \in {"LISTEN_CONF", "CONNECT_CONF"}
  BY <1>2 DEF Agree, Lines
<1>5. \A p \in Plci : Heralds(U[p], D[p])
  BY <1>1, NowTyped DEF Typed, Tidy
<1>6. \A p \in Plci : /\ IsSeq(U[p]) /\ \A i \in Entries(U[p]) : U[p][i].cmd \in Commands
                      /\ ~(Has(U[p], "CONNECT_IND") /\ Has(U[p], "CONNECT_B3_IND"))
  BY <1>4, <1>5 DEF Queue, Heralds
<1>7. /\ \A i \in Entries(U[0]) : U[0][i].cmd \in Commands
      /\ ~Has(U[0], "CONNECT_IND")
  BY <1>4 DEF Commands, Has
<1>8. Silent(U)
  BY <1>3, <1>4, <1>6, <1>7 DEF Silent
<1>. QED BY <1>1, <1>8

(* A step of the removal: the queues stay as they are, and what waits for  *)
(* no channel any more.                                                    *)
LEMMA RemovalKeeps ==
  ASSUME RemInv, pc # "up", pc' # "up", line' = line, icall' = icall,
         NEW t, t.k = card', t.l = line, Typed(t), t = [k |-> t.k, l |-> t.l],
         pc' = "unregistered" => pc = "unregistered",
         icall # Null => card'.incoming = card.incoming /\ card'.plcip = card.plcip,
         Phase', NEW X, X = Passed', Left(t, X)
  PROVE  RemInv'
<1>1. now' = t
  BY DEF now
<1>2. Typed(now)'
  BY <1>1 DEF Typed, Shape, IsCard, IsLine
<1>3. OfferedCall'
  BY DEF RemInv, OfferedCall
<1>4. Silent(line.up)'
  BY DEF RemInv, Silent
<1>5. Left(now, Passed)'
  BY <1>1 DEF Left
<1>. QED BY <1>2, <1>3, <1>4, <1>5 DEF RemInv

LEMMA UnregisterKeeps ==
  ASSUME RemInv, DrvInv, unregister_capi_device
  PROVE  RemInv'
<1>1. pc = "up" /\ pc' = "unregistered" /\ UNCHANGED <<card, line, icall>>
  BY DEF unregister_capi_device
<1>2. now' = now /\ Silent(line.up)
  BY <1>1, FallsSilent DEF DrvInv, Running, now
<1>3. Typed(now)'
  BY <1>1, <1>2 DEF RemInv, Typed
<1>4. OfferedCall' /\ Phase'
  BY <1>1 DEF RemInv, OfferedCall, Phase
<1>5. Silent(line.up)'
  BY <1>1, <1>2 DEF Silent
<1>6. Left(now, Passed)'
  BY <1>1 DEF Passed, Left
<1>. QED BY <1>3, <1>4, <1>5, <1>6 DEF RemInv

LEMMA DelcontrKeeps ==
  ASSUME RemInv, capidrv_delcontr
  PROVE  RemInv'
<1>1. pc = "unregistered" /\ pc' = "disch" /\ UNCHANGED <<card, line, icall>>
  BY DEF capidrv_delcontr, Removing
<1>2. Typed(now) /\ now.k = card /\ now.l = line
  BY NowTyped
<1>3. card.nbchan = NbChan
  BY <1>1 DEF RemInv, Phase
<1>4. PICK X : X = Passed'
  OBVIOUS
<1>5. X = {}
  BY <1>1, <1>3, <1>4, DrvAssumption DEF Passed, Chan
<1>6. Phase' /\ Left(now, X)
  BY <1>1, <1>5 DEF Phase, Left
<1>. QED BY <1>1, <1>2, <1>4, <1>6, RemovalKeeps DEF now

LEMMA DischKeeps ==
  ASSUME RemInv, capidrv_delcontr_disch
  PROVE  RemInv'
<1>1. /\ pc = "disch" /\ pc' = "free" /\ UNCHANGED <<line, icall>> /\ card.nbchan > 0
      /\ card' = [card EXCEPT !.told[Top] = "discarded"]
  BY DEF capidrv_delcontr_disch, Removing
<1>2. Typed(now) /\ now.k = card /\ now.l = line /\ Left(now, Passed)
  BY NowTyped
<1>3. PICK T, t : T = [card.told EXCEPT ![Top] = "discarded"] /\ t = [k |-> card', l |-> line]
  OBVIOUS
<1>4. card' = [card EXCEPT !.told = T]
  BY <1>1, <1>3
<1>5. /\ Shape(t) /\ t.k = card' /\ t.l = line /\ card'.plcip = card.plcip
      /\ card'.nccip = card.nccip /\ card'.incoming = card.incoming
      /\ card'.nbchan = card.nbchan /\ card'.told = T /\ card'.plci_list = card.plci_list
  <2>1. IsCard(card) /\ IsLine(line)
    BY QueuesNamed
  <2>. QED BY <1>3, <1>4, <2>1 DEF Shape, IsCard
<1>6. DOMAIN T = Chan
  BY <1>2, <1>3 DEF Typed
<1>7. Typed(t)
  BY <1>1, <1>2, <1>5, <1>6 DEF Typed
<1>8. PICK X : X = Passed'
  OBVIOUS
<1>9. X = Passed /\ Phase'
  BY <1>1, <1>5, <1>8 DEF Passed, Phase
<1>10. Left(t, X)
  BY <1>2, <1>5, <1>9 DEF Left
<1>. QED BY <1>1, <1>3, <1>5, <1>7, <1>8, <1>9, <1>10, RemovalKeeps

LEMMA FreeKeeps ==
  ASSUME RemInv, capidrv_delcontr_free
  PROVE  RemInv'
<1>1. PICK c, t, u : /\ c = Top
                     /\ t = IF card.nccip[c] = Null THEN now ELSE free_ncci(now, c)
                     /\ u = IF card.plcip[c] = Null THEN t ELSE free_plci(t, c)
  OBVIOUS
<1>2. pc = "free" /\ pc' = "next" /\ UNCHANGED <<line, icall>> /\ icall = Null /\ card' = u.k
  BY <1>1 DEF capidrv_delcontr_free, Removing, Idle
<1>3. Typed(now) /\ now.k = card /\ now.l = line /\ Left(now, Passed)
  BY NowTyped
<1>4. card.nbchan \in 0 .. NbChan /\ card.nbchan > 0
  BY <1>2, QueuesNamed DEF IsCard, RemInv, Phase
<1>5. c \in Chan /\ c = card.nbchan - 1
  BY <1>1, <1>4, DrvAssumption DEF Top, Chan
<1>6. Stays(now, t, c) /\ t.k.nccip[c] = Null
  <2>1. CASE card.nccip[c] = Null
    BY <1>1, <1>3, <2>1, NoTouch
  <2>2. CASE card.nccip[c] # Null
    BY <1>1, <1>3, <1>5, <2>2, NcciStays
  <2>. QED BY <2>1, <2>2
<1>7. Typed(t) /\ t.l = line
  <2>1. Typed(t)
    BY <1>6 DEF Stays, Calm, Touch
  <2>2. t.l = line
    BY <1>1, <1>3 DEF free_ncci, Typed, Shape
  <2>. QED BY <2>1, <2>2
<1>8. Calm(t, u, c) /\ u.k.nccip[c] = Null /\ u.k.plcip[c] = Null /\ u.l = line
  <2>1. CASE card.plcip[c] = Null
    <3>1. t.k.plcip[c] = Null
      BY <1>3, <1>6, <2>1 DEF Stays, Calm
    <3>. QED BY <1>1, <1>6, <1>7, <2>1, <3>1, NoTouch DEF Stays
  <2>2. CASE card.plcip[c] # Null
    BY <1>1, <1>2, <1>5, <1>6, <1>7, <2>2, FreeMild DEF Mild
  <2>. QED BY <2>1, <2>2
<1>9. Calm(now, u, c)
  BY <1>6, <1>8, CalmTwice DEF Stays
<1>10. /\ Typed(u) /\ u = [k |-> u.k, l |-> u.l] /\ u.k.nbchan = card.nbchan
       /\ \A y \in Chan : y # c => /\ u.k.plcip[y] = card.plcip[y] /\ u.k.nccip[y] = card.nccip[y]
                                   /\ y \in u.k.incoming <=> y \in card.incoming
  BY <1>3, <1>9 DEF Calm, Touch, Typed, Shape
<1>11. PICK X : X = Passed'
  OBVIOUS
<1>12. X = Passed \cup {c} /\ Phase'
  <2>1. card'.nbchan = card.nbchan
    BY <1>2, <1>10
  <2>2. Top' = c
    BY <1>1, <2>1 DEF Top
  <2>3. X = {y \in Chan : y >= card.nbchan \/ y = c}
    BY <1>2, <1>11, <2>1, <2>2 DEF Passed
  <2>4. Passed = {y \in Chan : y >= card.nbchan}
    BY <1>2 DEF Passed
  <2>. QED BY <1>2, <1>4, <1>5, <2>1, <2>3, <2>4 DEF Phase
<1>13. Left(u, X)
  <2>1. ASSUME NEW y \in X, y # c
        PROVE  /\ u.k.nccip[y] = Null
               /\ u.k.plcip[y] # Null =>
                    /\ y \in u.k.incoming /\ ~Pending(u.l.up, u.k.plcip[y].msgid)
                    /\ ~Has(u.l.up[u.k.plcip[y].plci], "CONNECT_B3_IND")
    <3>1. y \in Passed /\ y \in Chan
      BY <1>12, <2>1, PassedChannels
    <3>. QED BY <1>3, <1>8, <1>10, <2>1, <3>1 DEF Left
  <2>. QED BY <1>8, <2>1 DEF Left
<1>. QED BY <1>2, <1>8, <1>10, <1>11, <1>12, <1>13, RemovalKeeps

LEMMA NextKeeps ==
  ASSUME RemInv, capidrv_delcontr_next
  PROVE  RemInv'
<1>1. /\ pc = "next" /\ pc' = "disch" /\ UNCHANGED <<line, icall>>
      /\ card' = [card EXCEPT !.nbchan = @ - 1]
  BY DEF capidrv_delcontr_next, Removing
<1>2. Typed(now) /\ now.k = card /\ now.l = line /\ Left(now, Passed)
  BY NowTyped
<1>3. PICK t : t = [k |-> card', l |-> line]
  OBVIOUS
<1>4. card.nbchan \in 0 .. NbChan /\ card.nbchan > 0
  BY <1>1, QueuesNamed DEF IsCard, RemInv, Phase
<1>5. /\ Shape(t) /\ t.k = card' /\ t.l = line /\ card'.plcip = card.plcip
      /\ card'.nccip = card.nccip /\ card'.incoming = card.incoming
      /\ card'.nbchan = card.nbchan - 1 /\ card'.told = card.told
      /\ card'.plci_list = card.plci_list
  <2>1. IsCard(card) /\ IsLine(line) /\ card.nbchan - 1 \in 0 .. NbChan
    BY <1>4, QueuesNamed, DrvAssumption
  <2>. QED BY <1>1, <1>3, <2>1 DEF Shape, IsCard
<1>6. Typed(t)
  BY <1>1, <1>2, <1>5 DEF Typed
<1>7. PICK X : X = Passed'
  OBVIOUS
<1>8. X = Passed /\ Phase'
  <2>1. X = {y \in Chan : y >= card.nbchan - 1}
    BY <1>1, <1>5, <1>7 DEF Passed
  <2>2. Passed = {y \in Chan : y >= card.nbchan \/ y = card.nbchan - 1}
    BY <1>1 DEF Passed, Top
  <2>3. \A y \in Chan : y >= card.nbchan - 1 <=> y >= card.nbchan \/ y = card.nbchan - 1
    BY <1>4, DrvAssumption DEF Chan
  <2>. QED BY <1>1, <2>1, <2>2, <2>3 DEF Phase
<1>9. Left(t, X)
  BY <1>2, <1>5, <1>8 DEF Left
<1>. QED BY <1>1, <1>3, <1>5, <1>6, <1>7, <1>8, <1>9, RemovalKeeps

LEMMA UnlistKeeps ==
  ASSUME RemInv, capidrv_delcontr_unlist
  PROVE  RemInv'
<1>1. pc = "disch" /\ pc' = "removed" /\ UNCHANGED <<card, line, icall>> /\ card.nbchan = 0
  BY DEF capidrv_delcontr_unlist, Removing
<1>2. Typed(now) /\ now.k = card /\ now.l = line /\ Left(now, Passed)
  BY NowTyped
<1>3. PICK X : X = Passed'
  OBVIOUS
<1>4. X = Passed /\ Phase'
  BY <1>1, <1>3 DEF Passed, Phase
<1>. QED BY <1>1, <1>2, <1>3, <1>4, RemovalKeeps DEF now

(* A controller that is registered, and asks to listen. *)
LEMMA BegunKeeps ==
  ASSUME NEW k, NEW l, NEW state, Begun(k, l, state), NEW s, s = [k |-> k, l |-> l]
  PROVE  /\ Shape(s) /\ Tidy(l) /\ k.plcip = [c \in Chan |-> Null] /\ k.plci_list = <<>>
         /\ k.nccip = [c \in Chan |-> Null] /\ k.told = [c \in Chan |-> "free"]
         /\ k.nbchan = NbChan
<1>1. Shape(s)
  BY BegunSound DEF Sound
<1>2. PICK n : n = NewLine
  OBVIOUS
<1>3. /\ IsLine(n) /\ n.d = [p \in Plci |-> "idle"] /\ n.up = [p \in Plci \cup {0} |-> <<>>]
  BY <1>2 DEF IsLine, NewLine
<1>4. IsSeq(<<>>) /\ Entries(<<>>) = {}
  BY DEF IsSeq, Entries
<1>5. Heralds(<<>>, "idle")
  BY <1>4 DEF Heralds, Has
<1>6. Tidy(n)
  BY <1>3, <1>4, <1>5 DEF Tidy
<1>7. Tidy(l)
  <2>1. l \in Take(n, "LISTEN_REQ", 0, 0)
    BY <1>2 DEF Begun
  <2>. QED BY <1>3, <1>6, <2>1, TidyTake
<1>. QED BY <1>1, <1>7 DEF Begun, NewCard

LEMMA AddKeeps ==
  ASSUME RemInv, DrvInv, capidrv_addcontr
  PROVE  RemInv'
<1>1. Begun(card', line', "WAIT_CONF") /\ icall' = Null /\ pc' = "up"
  BY DEF capidrv_addcontr, Begun, DrvInv
<1>2. PICK s, k, l : s = now' /\ k = card' /\ l = line'
  OBVIOUS
<1>3. s = [k |-> k, l |-> l] /\ s.k = k /\ s.l = l
  BY <1>2 DEF now
<1>4. /\ Shape(s) /\ Tidy(l) /\ k.plcip = [c \in Chan |-> Null] /\ k.plci_list = <<>>
      /\ k.nccip = [c \in Chan |-> Null] /\ k.told = [c \in Chan |-> "free"]
      /\ k.nbchan = NbChan
  BY <1>1, <1>2, <1>3, BegunKeeps
<1>5. /\ k.plcip \in [Chan -> Records \cup {Null}] /\ k.plci_list \in Seq(Chan)
      /\ k.nccip = [c \in Chan |-> k.nccip[c]] /\ DOMAIN k.told = Chan
      /\ \A c \in Chan : k.told[c] # "ringing"
  BY <1>4
<1>6. Typed(now)'
  BY <1>2, <1>3, <1>4, <1>5 DEF Typed
<1>. QED BY <1>1, <1>2, <1>4, <1>6 DEF RemInv, Phase, OfferedCall

LEMMA InitRem == Init => RemInv
<1>. SUFFICES ASSUME Init PROVE RemInv
  OBVIOUS
<1>1. Begun(card, line, "WAIT_CONF") /\ icall = Null /\ pc = "up"
  BY DEF Init, Begun
<1>2. /\ Shape(now) /\ Tidy(line) /\ card.plcip = [c \in Chan |-> Null] /\ card.plci_list = <<>>
      /\ card.nccip = [c \in Chan |-> Null] /\ card.told = [c \in Chan |-> "free"]
      /\ card.nbchan = NbChan
  BY <1>1, BegunKeeps DEF now
<1>3. /\ card.plcip \in [Chan -> Records \cup {Null}] /\ card.plci_list \in Seq(Chan)
      /\ card.nccip = [c \in Chan |-> card.nccip[c]] /\ DOMAIN card.told = Chan
      /\ \A c \in Chan : card.told[c] # "ringing"
  BY <1>2
<1>4. Typed(now)
  BY <1>2, <1>3 DEF Typed, now
<1>. QED BY <1>1, <1>2, <1>4 DEF RemInv, Phase, OfferedCall

LEMMA NextRem == DrvInv /\ RemInv /\ [Next]_vars => RemInv'
<1>. SUFFICES ASSUME DrvInv, RemInv, [Next]_vars PROVE RemInv'
  OBVIOUS
<1>1. CASE \E p \in DOMAIN line.up : capidrv_recv_message(p) \/ handle_incoming_call(p)
  BY <1>1, RecvKeeps, IncomingKeeps
<1>2. CASE icall_rejected \/ icall_taken \/ listentimerfunc
  BY <1>2, RejectedKeeps, AlertKeeps, ListenKeeps
<1>3. CASE \E c \in Chan : \/ capidrv_command_dial(c) \/ capidrv_command_acceptd(c)
                           \/ capidrv_command_hangup(c) \/ if_sendbuf(c)
  BY <1>3, DialKeeps, AcceptdKeeps, HangupKeeps, SendBufKeeps
<1>4. CASE \E p \in Plci : \/ Ring(p) \/ Answered(p) \/ Ends(p, Outgoing \cup Incoming)
                           \/ RingB3(p) \/ ActiveB3(p) \/ EndsB3(p, {"in", "alloc", "act"})
                           \/ Clears(p) \/ Confirms(p) \/ Receives(p)
  BY <1>4, DeviceStepsKeep
<1>5. CASE \/ unregister_capi_device \/ capidrv_delcontr \/ capidrv_delcontr_disch
           \/ capidrv_delcontr_free \/ capidrv_delcontr_next \/ capidrv_delcontr_unlist
           \/ capidrv_addcontr
  BY <1>5, UnregisterKeeps, DelcontrKeeps, DischKeeps, FreeKeeps, NextKeeps, UnlistKeeps, AddKeeps
<1>6. CASE UNCHANGED vars
  <2>1. Become(now) /\ pc' = pc /\ icall' = icall
    BY <1>6, NowTyped DEF vars, Become
  <2>2. Typed(now) /\ now.k = card /\ now.l = line
    BY NowTyped
  <2>. QED BY <2>1, <2>2, Stepped DEF RemInv, OfferedCall
<1>. QED BY <1>1, <1>2, <1>3, <1>4, <1>5, <1>6 DEF Next, CallNext

(* The removal, with what it has left behind on the channels it has passed. *)
THEOREM RemovalInvariant == Spec => [](DrvInv /\ RemInv)
<1>1. DrvInv /\ RemInv /\ [Next]_vars => (DrvInv /\ RemInv)'
  BY NextInv, NextRem
<1>. QED BY <1>1, InitInv, InitRem, PTL DEF Spec

LEMMA InvRemovalComplete == RemInv => RemovalComplete
<1>. SUFFICES ASSUME RemInv, pc = "removed", NEW c \in Chan
              PROVE  card.nccip[c] = Null /\ (card.plcip[c] # Null => c \in card.incoming)
  BY DEF RemovalComplete
<1>1. card.nbchan = 0
  BY DEF RemInv, Phase
<1>2. c \in Passed
  BY <1>1, DrvAssumption DEF Passed, Chan
<1>. QED BY <1>2, NowTyped DEF Left

(* capidrv_delcontr leaves no connection behind, and no call but one that  *)
(* was offered while it ran, whatever is still handled and answered while  *)
(* it frees channel by channel (capidrv_delcontr, the FIXME of the code).  *)
THEOREM NothingIsLeftBehind == Spec => []RemovalComplete
<1>. QED BY RemovalInvariant, InvRemovalComplete, PTL
===============================================================================
