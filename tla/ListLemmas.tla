------------------------------ MODULE ListLemmas ------------------------------
(***************************************************************************)
(* Facts about numbers, recursive functions and lists that the theorems    *)
(* about several components rest on.                                       *)
(***************************************************************************)
EXTENDS Integers, Lists, SequenceTheorems, FiniteSetTheorems, WellFoundedInduction, TLAPS

(* find_next_bit finds a bit whenever one is left, and a walk for the first *)
(* entry of some kind ends when there is one.                               *)
LEMMA LeastExists ==
  ASSUME NEW S \in SUBSET Nat, S # {}
  PROVE  \E i \in S : \A j \in S : i <= j
  <1> DEFINE R == OpToRel(<, Nat)
  <1>1. PICK i \in S : \A j \in S : <<j, i>> \notin R
    BY NatLessThanWellFounded, WFMin
  <1>2. \A j \in S : ~(j < i)
    BY <1>1 DEF OpToRel
  <1> QED
    BY <1>2

(* Induction up to a bound: a set that has 0, and with a number below n the *)
(* next one, has all the numbers up to n.                                   *)
LEMMA UpTo ==
  ASSUME NEW n \in Nat, NEW P, 0 \in P,
         \A i \in 0 .. n - 1 : i \in P => i + 1 \in P
  PROVE  \A i \in 0 .. n : i \in P
  <1> DEFINE missing == (0 .. n) \ P
  <1> SUFFICES ASSUME missing # {} PROVE FALSE
    OBVIOUS
  <1>1. PICK i \in missing : \A j \in missing : i <= j
    <2>1. missing \in SUBSET Nat
      OBVIOUS
    <2> QED
      BY <2>1, LeastExists
  <1>2. i # 0 /\ i \in 0 .. n /\ i \notin P
    BY <1>1
  <1>3. i - 1 \in 0 .. n - 1 /\ (i - 1) + 1 = i /\ ~(i <= i - 1)
    BY <1>2
  <1>4. i - 1 \in P
    BY <1>1, <1>3
  <1> QED
    BY <1>2, <1>3, <1>4

(* A function on the numbers up to n that is defined by recursion ...      *)
Recurs(f, V, base, n, step) ==
  f \in [0 .. n -> V] /\ f[0] = base /\ \A i \in 1 .. n : f[i] = step[i][f[i - 1]]

(* ... exists.                                                             *)
LEMMA Recursion ==
  ASSUME NEW V, NEW base \in V, NEW n \in Nat, NEW step \in [1 .. n -> [V -> V]]
  PROVE  \E f : Recurs(f, V, base, n, step)
  <1> DEFINE Fits(f, k) ==
               /\ f \in [0 .. k -> V] /\ f[0] = base
               /\ \A i \in 1 .. k : f[i] = step[i][f[i - 1]]
             P == {k \in 0 .. n : \E f : Fits(f, k)}
  <1>1. 0 \in P
    <2>1. PICK f : f = [i \in 0 .. 0 |-> base]
      OBVIOUS
    <2>2. Fits(f, 0)
      BY <2>1
    <2> QED
      BY <2>2
  <1>2. ASSUME NEW k \in 0 .. n - 1, k \in P PROVE k + 1 \in P
    <2>1. PICK f : Fits(f, k)
      BY <1>2
    <2> DEFINE e == step[k + 1][f[k]]
               g == [i \in 0 .. k + 1 |-> IF i = k + 1 THEN e ELSE f[i]]
    <2>2. k \in 0 .. k /\ k + 1 \in 1 .. n /\ k + 1 \in 0 .. n /\ k \in Nat
      OBVIOUS
    <2>3. e \in V
      BY <2>1, <2>2
    <2> HIDE DEF e
    <2>4. g \in [0 .. k + 1 -> V]
      BY <2>1, <2>2, <2>3
    <2>5. g[0] = base
      BY <2>1, <2>2
    <2>6. ASSUME NEW i \in 1 .. k + 1 PROVE g[i] = step[i][g[i - 1]]
      <3>0. i - 1 \in 0 .. k /\ i - 1 # k + 1 /\ i - 1 \in 0 .. k + 1
        BY <2>2
      <3>1. g[i - 1] = f[i - 1]
        BY <3>0
      <3>2. CASE i = k + 1
        BY <2>2, <3>1, <3>2 DEF e
      <3>3. CASE i # k + 1
        BY <2>1, <2>2, <3>1, <3>3
      <3> QED
        BY <3>2, <3>3
    <2>7. Fits(g, k + 1)
      BY <2>4, <2>5, <2>6
    <2> QED
      BY <2>2, <2>7
  <1> HIDE DEF P
  <1>3. n \in P
    <2>1. n \in 0 .. n /\ \A k \in 0 .. n - 1 : k \in P => k + 1 \in P
      BY <1>2
    <2> QED
      BY <1>1, <2>1, UpTo
  <1>4. PICK f : Fits(f, n)
    BY <1>3 DEF P
  <1> QED
    BY <1>4 DEF Recurs

(* What is left of a list after list_del of some entries: the other        *)
(* entries, in the order they had.                                         *)
LEMMA WithoutEntries ==
  ASSUME NEW S, NEW s \in Seq(S), NEW M
  PROVE  /\ Without(s, M) \in Seq(S)
         /\ ToSet(Without(s, M)) = ToSet(s) \ M
         /\ \E place \in [1 .. Len(Without(s, M)) -> 1 .. Len(s)] :
              /\ \A j \in 1 .. Len(Without(s, M)) : Without(s, M)[j] = s[place[j]]
              /\ \A j, k \in 1 .. Len(Without(s, M)) : j <= k => place[j] + (k - j) <= place[k]
  <1> DEFINE n == Len(s)
             rest == CHOOSE f : f = [i \in 0 .. n |->
                       IF i = 0 THEN <<>>
                       ELSE IF s[i] \in M THEN f[i - 1] ELSE Append(f[i - 1], s[i])]
             step == [i \in 1 .. n |-> [t \in Seq(S) |->
                       IF s[i] \in M THEN t ELSE Append(t, s[i])]]
  <1>0. n \in Nat /\ n \in 0 .. n
    OBVIOUS
  <1>1. n \in Nat /\ DOMAIN s = 1 .. n /\ \A i \in 1 .. n : s[i] \in S
    OBVIOUS
  <1>2. Without(s, M) = rest[n]
    BY DEF Without
  <1> HIDE DEF n
  <1>3. step \in [1 .. n -> [Seq(S) -> Seq(S)]]
    BY <1>1
  <1>4. \A i \in 1 .. n, t \in Seq(S) :
          step[i][t] = IF s[i] \in M THEN t ELSE Append(t, s[i])
    OBVIOUS
  <1> HIDE DEF step
  <1>5. PICK f \in [0 .. n -> Seq(S)] :
          f[0] = <<>> /\ \A i \in 1 .. n : f[i] = step[i][f[i - 1]]
    <2>1. <<>> \in Seq(S)
      OBVIOUS
    <2>2. \E f : Recurs(f, Seq(S), <<>>, n, step)
      BY <1>0, <1>3, <2>1, Recursion
    <2> QED
      BY <2>2 DEF Recurs
  <1>6. f = [i \in 0 .. n |-> IF i = 0 THEN <<>>
                              ELSE IF s[i] \in M THEN f[i - 1] ELSE Append(f[i - 1], s[i])]
    <2>1. ASSUME NEW i \in 0 .. n, i # 0
          PROVE  f[i] = IF s[i] \in M THEN f[i - 1] ELSE Append(f[i - 1], s[i])
      <3>1. i \in 1 .. n /\ f[i - 1] \in Seq(S)
        BY <1>1, <1>5, <2>1
      <3> QED
        BY <1>4, <1>5, <3>1
    <2> QED
      BY <1>5, <2>1
  <1>7. rest = [i \in 0 .. n |-> IF i = 0 THEN <<>>
                                 ELSE IF s[i] \in M THEN rest[i - 1] ELSE Append(rest[i - 1], s[i])]
    BY <1>6
  <1> HIDE DEF rest
  <1> DEFINE Good(t, i) ==
               /\ t \in Seq(S)
               /\ {t[j] : j \in 1 .. Len(t)} = {s[j] : j \in 1 .. i} \ M
               /\ \E place \in [1 .. Len(t) -> 1 .. i] :
                    /\ \A j \in 1 .. Len(t) : t[j] = s[place[j]]
                    /\ \A j, k \in 1 .. Len(t) : j <= k => place[j] + (k - j) <= place[k]
             P == {i \in 0 .. n : Good(rest[i], i)}
  <1> HIDE DEF P, Good
  <1>8. 0 \in P
    <2>1. rest[0] = <<>> /\ 0 \in 0 .. n
      BY <1>1, <1>7
    <2>2. PICK place : place = [j \in 1 .. 0 |-> 0]
      OBVIOUS
    <2>3. Good(<<>>, 0)
      <3> DEFINE t == <<>>
      <3>1. t \in Seq(S) /\ 1 .. Len(t) = {} /\ 1 .. 0 = {}
        OBVIOUS
      <3> HIDE DEF t
      <3>2. place \in [1 .. Len(t) -> 1 .. 0]
        BY <2>2, <3>1
      <3>3. Good(t, 0)
        BY <3>1, <3>2 DEF Good
      <3> QED
        BY <3>3 DEF t
    <2> QED
      BY <2>1, <2>3 DEF P
  <1>9. ASSUME NEW i \in 0 .. n - 1, i \in P PROVE i + 1 \in P
    <2>1. i + 1 \in 1 .. n /\ i + 1 \in 0 .. n /\ i \in 0 .. n /\ i \in Nat /\ (i + 1) - 1 = i
      BY <1>1
    <2> DEFINE t == rest[i]
               e == s[i + 1]
    <2>2. rest[i + 1] = IF e \in M THEN t ELSE Append(t, e)
      <3>1. ASSUME NEW k \in 0 .. n, k # 0
            PROVE  rest[k] = IF s[k] \in M THEN rest[k - 1] ELSE Append(rest[k - 1], s[k])
        BY <1>7, <3>1
      <3>2. i + 1 # 0
        BY <2>1
      <3> QED
        BY <2>1, <3>1, <3>2
    <2>3. Good(t, i) /\ e \in S
      BY <1>1, <1>9, <2>1 DEF P
    <2>4. {s[j] : j \in 1 .. i + 1} = {s[j] : j \in 1 .. i} \cup {e}
      BY <2>1
    <2>5. PICK place \in [1 .. Len(t) -> 1 .. i] :
            /\ \A j \in 1 .. Len(t) : t[j] = s[place[j]]
            /\ \A j, k \in 1 .. Len(t) : j <= k => place[j] + (k - j) <= place[k]
      BY <2>3 DEF Good
    <2> HIDE DEF t, e
    <2>6. CASE e \in M
      <3>1. place \in [1 .. Len(t) -> 1 .. i + 1]
        BY <2>1, <2>5
      <3>2. Good(t, i + 1)
        BY <2>3, <2>4, <2>5, <2>6, <3>1 DEF Good
      <3> QED
        BY <2>1, <2>2, <2>6, <3>2 DEF P
    <2>7. CASE e \notin M
      <3> DEFINE u == Append(t, e)
                 more == [j \in 1 .. Len(t) + 1 |-> IF j = Len(t) + 1 THEN i + 1 ELSE place[j]]
      <3>1. /\ u \in Seq(S) /\ Len(u) = Len(t) + 1 /\ Len(t) \in Nat
            /\ \A j \in 1 .. Len(t) : u[j] = t[j]
            /\ u[Len(t) + 1] = e
        BY <2>3 DEF Good
      <3> HIDE DEF u
      <3>2. {u[j] : j \in 1 .. Len(t) + 1} = {t[j] : j \in 1 .. Len(t)} \cup {e}
        <4>1. ASSUME NEW j \in 1 .. Len(t) + 1
              PROVE  u[j] \in {t[h] : h \in 1 .. Len(t)} \cup {e}
          <5>1. j \in 1 .. Len(t) \/ j = Len(t) + 1
            BY <3>1
          <5> QED
            BY <3>1, <5>1
        <4>2. ASSUME NEW j \in 1 .. Len(t) PROVE t[j] = u[j] /\ j \in 1 .. Len(t) + 1
          BY <3>1
        <4>3. e = u[Len(t) + 1] /\ Len(t) + 1 \in 1 .. Len(t) + 1
          BY <3>1
        <4> QED
          BY <4>1, <4>2, <4>3
      <3>3. {u[j] : j \in 1 .. Len(u)} = {s[j] : j \in 1 .. i + 1} \ M
        BY <2>3, <2>4, <2>7, <3>1, <3>2 DEF Good
      <3>4. more \in [1 .. Len(u) -> 1 .. i + 1]
        BY <2>1, <2>5, <3>1
      <3>5. \A j \in 1 .. Len(u) : u[j] = s[more[j]]
        BY <2>5, <3>1 DEF e
      <3>6. ASSUME NEW j \in 1 .. Len(u), NEW k \in 1 .. Len(u), j <= k
            PROVE  more[j] + (k - j) <= more[k]
        <4>1. CASE k = Len(t) + 1 /\ j = k
          BY <2>1, <3>1, <4>1
        <4>2. CASE k = Len(t) + 1 /\ j # k
          <5>1. /\ j \in 1 .. Len(t) /\ Len(t) \in 1 .. Len(t) /\ j <= Len(t)
                /\ more[j] = place[j] /\ more[k] = i + 1
            BY <3>1, <3>6, <4>2
          <5>2. /\ place[j] + (Len(t) - j) <= place[Len(t)]
                /\ place[Len(t)] \in 1 .. i /\ place[j] \in 1 .. i
            BY <2>5, <5>1
          <5> QED
            BY <2>1, <3>1, <4>2, <5>1, <5>2
        <4>3. CASE k # Len(t) + 1
          <5>1. /\ j \in 1 .. Len(t) /\ k \in 1 .. Len(t)
                /\ more[j] = place[j] /\ more[k] = place[k]
            BY <2>5, <3>1, <3>6, <4>3
          <5> QED
            BY <2>5, <3>6, <5>1
        <4> QED
          BY <4>1, <4>2, <4>3
      <3> HIDE DEF more
      <3>7. Good(u, i + 1)
        BY <3>1, <3>3, <3>4, <3>5, <3>6 DEF Good
      <3> QED
        BY <2>1, <2>2, <2>7, <3>7 DEF u, P
    <2> QED
      BY <2>6, <2>7
  <1>10. n \in P
    <2>1. \A i \in 0 .. n - 1 : i \in P => i + 1 \in P
      BY <1>9
    <2> QED
      BY <1>0, <1>8, <2>1, UpTo
  <1>11. Good(rest[n], n)
    BY <1>10 DEF P
  <1>12. ToSet(s) = {s[j] : j \in 1 .. n} /\ ToSet(rest[n]) = {rest[n][j] : j \in 1 .. Len(rest[n])}
    BY <1>1, <1>11 DEF ToSet, Good
  <1> QED
    BY <1>2, <1>11, <1>12 DEF n, Good

(* The entries of two lists put together.                                  *)
LEMMA ConcatEntries ==
  ASSUME NEW S, NEW s \in Seq(S), NEW t \in Seq(S)
  PROVE  /\ s \o t \in Seq(S) /\ Len(s \o t) = Len(s) + Len(t)
         /\ \A i \in 1 .. Len(s) : (s \o t)[i] = s[i]
         /\ \A i \in 1 .. Len(t) : (s \o t)[Len(s) + i] = t[i]
  <1>1. PICK u : u = s \o t
    OBVIOUS
  <1>2. /\ u \in Seq(S) /\ Len(u) = Len(s) + Len(t)
        /\ \A i \in 1 .. Len(s) + Len(t) :
             u[i] = IF i <= Len(s) THEN s[i] ELSE t[i - Len(s)]
    BY <1>1, ConcatProperties
  <1>3. Len(s) \in Nat /\ Len(t) \in Nat
    OBVIOUS
  <1>4. ASSUME NEW i \in 1 .. Len(s) PROVE u[i] = s[i]
    <2>1. i \in 1 .. Len(s) + Len(t) /\ i <= Len(s)
      BY <1>3
    <2> QED
      BY <1>2, <2>1
  <1>5. ASSUME NEW i \in 1 .. Len(t) PROVE u[Len(s) + i] = t[i]
    <2>1. /\ Len(s) + i \in 1 .. Len(s) + Len(t) /\ ~(Len(s) + i <= Len(s))
          /\ (Len(s) + i) - Len(s) = i
      BY <1>3
    <2> QED
      BY <1>2, <2>1
  <1> QED
    BY <1>1, <1>2, <1>4, <1>5

(* The entries of a list after list_add_tail before its k-th entry ...     *)
LEMMA InsertEntries ==
  ASSUME NEW S, NEW s \in Seq(S), NEW k \in 1 .. Len(s) + 1, NEW a \in S,
         NEW i, i = InsertAt(s, k, a)
  PROVE  /\ i \in Seq(S) /\ Len(i) = Len(s) + 1
         /\ \A j \in 1 .. Len(i) :
              i[j] = IF j < k THEN s[j] ELSE IF j = k THEN a ELSE s[j - 1]
  <1> DEFINE before == SubSeq(s, 1, k - 1)
             after == SubSeq(s, k, Len(s))
  <1>1. Len(s) \in Nat /\ \A h \in 1 .. Len(s) : s[h] \in S
    OBVIOUS
  <1>2. /\ before \in Seq(S) /\ Len(before) = k - 1
        /\ \A h \in 1 .. k - 1 : before[h] = s[h]
    BY <1>1, SubSeqProperties
  <1>3. /\ after \in Seq(S) /\ Len(after) = Len(s) - k + 1
        /\ \A h \in 1 .. Len(s) - k + 1 : after[h] = s[k + h - 1]
    BY <1>1, SubSeqProperties
  <1> DEFINE new == <<a>>
             upto == before \o new
  <1>4. new \in Seq(S) /\ Len(new) = 1 /\ new[1] = a
    OBVIOUS
  <1>5. InsertAt(s, k, a) = upto \o after
    BY DEF InsertAt
  <1> HIDE DEF before, after, new
  <1>6. /\ upto \in Seq(S) /\ Len(upto) = k
        /\ \A h \in 1 .. k : upto[h] = IF h < k THEN s[h] ELSE a
    <2>1. /\ upto \in Seq(S) /\ Len(upto) = Len(before) + Len(new)
          /\ \A h \in 1 .. Len(before) + Len(new) :
               upto[h] = IF h <= Len(before) THEN before[h] ELSE new[h - Len(before)]
      BY <1>2, <1>4, ConcatProperties
    <2> HIDE DEF upto
    <2>2. Len(before) + Len(new) = k
      BY <1>1, <1>2, <1>4
    <2>3. ASSUME NEW h \in 1 .. k PROVE upto[h] = IF h < k THEN s[h] ELSE a
      <3>1. CASE h < k
        <4>1. h \in 1 .. k - 1 /\ h <= Len(before)
          BY <1>1, <1>2, <3>1
        <4>2. before[h] = s[h]
          BY <1>2, <4>1
        <4>3. upto[h] = before[h]
          BY <2>1, <2>2, <4>1
        <4> QED
          BY <3>1, <4>2, <4>3
      <3>2. CASE h = k
        BY <1>1, <1>2, <1>4, <2>1, <2>2, <3>2
      <3> QED
        BY <1>1, <3>1, <3>2
    <2> QED
      BY <2>1, <2>2, <2>3
  <1> HIDE DEF upto
  <1> DEFINE t == upto \o after
  <1>7. /\ t \in Seq(S) /\ Len(t) = Len(s) + 1
        /\ \A j \in 1 .. Len(s) + 1 :
             t[j] = IF j <= k THEN upto[j] ELSE after[j - k]
    <2>1. /\ t \in Seq(S) /\ Len(t) = Len(upto) + Len(after)
          /\ \A j \in 1 .. Len(upto) + Len(after) :
               t[j] = IF j <= Len(upto) THEN upto[j] ELSE after[j - Len(upto)]
      BY <1>3, <1>6, ConcatProperties
    <2> HIDE DEF t
    <2>2. Len(upto) = k /\ Len(upto) + Len(after) = Len(s) + 1
      BY <1>1, <1>3, <1>6
    <2> QED
      BY <2>1, <2>2
  <1> HIDE DEF t
  <1>8. ASSUME NEW j \in 1 .. Len(s) + 1
        PROVE  t[j] = IF j < k THEN s[j] ELSE IF j = k THEN a ELSE s[j - 1]
    <2>1. CASE j <= k
      <3>1. j \in 1 .. k /\ t[j] = upto[j]
        BY <1>1, <1>7, <2>1
      <3> QED
        BY <1>1, <1>6, <2>1, <3>1
    <2>2. CASE j > k
      <3>1. /\ j - k \in 1 .. Len(s) - k + 1 /\ k + (j - k) - 1 = j - 1
            /\ ~(j <= k) /\ ~(j < k) /\ j # k
        BY <1>1, <2>2
      <3>2. t[j] = after[j - k] /\ after[j - k] = s[j - 1]
        BY <1>1, <1>3, <1>7, <2>2, <3>1
      <3> QED
        BY <3>1, <3>2
    <2> QED
      BY <1>1, <2>1, <2>2
  <1>9. i = t /\ Len(t) = Len(s) + 1 /\ t \in Seq(S)
    BY <1>5, <1>7 DEF t
  <1> QED
    BY <1>8, <1>9

LEMMA InsertMembers ==
  ASSUME NEW S, NEW s \in Seq(S), NEW k \in 1 .. Len(s) + 1, NEW a \in S
  PROVE  ToSet(InsertAt(s, k, a)) = ToSet(s) \cup {a}
  <1>0. PICK t : t = InsertAt(s, k, a)
    OBVIOUS
  <1>1. /\ t \in Seq(S) /\ Len(t) = Len(s) + 1
        /\ \A j \in 1 .. Len(t) :
             t[j] = IF j < k THEN s[j] ELSE IF j = k THEN a ELSE s[j - 1]
    BY <1>0, InsertEntries, SMTT(30)
  <1>2. Len(s) \in Nat /\ DOMAIN s = 1 .. Len(s) /\ DOMAIN t = 1 .. Len(s) + 1
    BY <1>1
  <1>3. ASSUME NEW j \in DOMAIN t PROVE t[j] \in ToSet(s) \cup {a}
    <2>1. j < k => j \in DOMAIN s
      BY <1>2
    <2>2. j > k => j - 1 \in DOMAIN s
      BY <1>2
    <2>3. j < k \/ j = k \/ j > k
      BY <1>2
    <2> QED
      BY <1>1, <1>2, <2>1, <2>2, <2>3 DEF ToSet
  <1>4. ASSUME NEW j \in DOMAIN s PROVE s[j] \in ToSet(t)
    <2>1. CASE j < k
      BY <1>1, <1>2, <2>1 DEF ToSet
    <2>2. CASE ~(j < k)
      <3>1. j + 1 \in DOMAIN t /\ ~(j + 1 < k) /\ j + 1 # k /\ (j + 1) - 1 = j
        BY <1>2, <2>2
      <3>2. t[j + 1] = s[j]
        BY <1>1, <1>2, <3>1
      <3> QED
        BY <3>1, <3>2 DEF ToSet
    <2> QED
      BY <2>1, <2>2
  <1>5. a \in ToSet(t)
    <2>1. k \in DOMAIN t /\ t[k] = a
      BY <1>1, <1>2
    <2> QED
      BY <2>1 DEF ToSet
  <1> QED
    BY <1>0, <1>3, <1>4, <1>5 DEF ToSet

(* ... and of a list after list_del of its k-th entry.                     *)
LEMMA RemoveEntries ==
  ASSUME NEW S, NEW s \in Seq(S), NEW k \in 1 .. Len(s)
  PROVE  LET t == RemoveAt(s, k) IN
         /\ t \in Seq(S) /\ Len(t) = Len(s) - 1
         /\ \A j \in 1 .. Len(t) : t[j] = IF j < k THEN s[j] ELSE s[j + 1]
  <1> DEFINE before == SubSeq(s, 1, k - 1)
             after == SubSeq(s, k + 1, Len(s))
  <1>1. Len(s) \in Nat /\ \A i \in 1 .. Len(s) : s[i] \in S
    OBVIOUS
  <1>2. /\ before \in Seq(S) /\ Len(before) = k - 1
        /\ \A i \in 1 .. k - 1 : before[i] = s[i]
    BY <1>1, SubSeqProperties
  <1>3. /\ after \in Seq(S) /\ Len(after) = Len(s) - k
        /\ \A i \in 1 .. Len(s) - k : after[i] = s[k + i]
    BY <1>1, SubSeqProperties
  <1> HIDE DEF before, after
  <1>4. RemoveAt(s, k) = before \o after
    BY DEF RemoveAt, before, after
  <1> DEFINE t == before \o after
  <1>5. /\ t \in Seq(S) /\ Len(t) = Len(s) - 1
        /\ \A j \in 1 .. Len(s) - 1 :
             t[j] = IF j <= Len(before) THEN before[j] ELSE after[j - Len(before)]
    <2>1. /\ t \in Seq(S) /\ Len(t) = Len(before) + Len(after)
          /\ \A j \in 1 .. Len(before) + Len(after) :
               t[j] = IF j <= Len(before) THEN before[j] ELSE after[j - Len(before)]
      BY <1>2, <1>3, ConcatProperties
    <2> HIDE DEF t
    <2>2. Len(before) + Len(after) = Len(s) - 1
      BY <1>1, <1>2, <1>3
    <2> QED
      BY <2>1, <2>2
  <1> HIDE DEF t
  <1>6. ASSUME NEW j \in 1 .. Len(s) - 1
        PROVE  t[j] = IF j < k THEN s[j] ELSE s[j + 1]
    <2>1. CASE j < k
      <3>1. j \in 1 .. k - 1 /\ j <= Len(before)
        BY <1>1, <1>2, <2>1
      <3> QED
        BY <1>2, <1>5, <2>1, <3>1
    <2>2. CASE j >= k
      <3>1. /\ j - Len(before) = j - k + 1 /\ ~(j <= Len(before)) /\ ~(j < k)
            /\ j - k + 1 \in 1 .. Len(s) - k /\ k + (j - k + 1) = j + 1
        BY <1>1, <1>2, <2>2
      <3>2. t[j] = after[j - k + 1]
        BY <1>5, <3>1
      <3>3. after[j - k + 1] = s[j + 1]
        BY <1>3, <3>1
      <3> QED
        BY <3>1, <3>2, <3>3
    <2> QED
      BY <1>1, <2>1, <2>2
  <1>7. Len(RemoveAt(s, k)) = Len(s) - 1
    BY <1>4, <1>5 DEF t
  <1> QED
    BY <1>4, <1>5, <1>6, <1>7 DEF t

(* A list after the search for one entry, and its list_del if there is one.*)
LEMMA RemoveFirstEntries ==
  ASSUME NEW S, NEW s \in Seq(S), NEW e
  PROVE  RemoveFirst(s, e) \in Seq(S)
  <1>1. CASE \E i \in 1 .. Len(s) : s[i] = e
    <2> DEFINE hits == {i \in 1 .. Len(s) : s[i] = e}
    <2>1. RemoveFirst(s, e) = RemoveAt(s, Min(hits))
      BY <1>1 DEF RemoveFirst, SelectInSeq
    <2>2. hits # {} /\ hits \in SUBSET Nat
      BY <1>1
    <2>3. \E i \in hits : \A j \in hits : i <= j
      BY <2>2, LeastExists
    <2>4. Min(hits) \in hits
      BY <2>3 DEF Min
    <2>5. PICK k \in 1 .. Len(s) : k = Min(hits)
      BY <2>4
    <2> QED
      BY <2>1, <2>5, RemoveEntries
  <1>2. CASE ~ \E i \in 1 .. Len(s) : s[i] = e
    BY <1>2 DEF RemoveFirst
  <1> QED
    BY <1>1, <1>2

(* What a queue contains after an entry has joined it, ...                 *)
LEMMA ContainsAppend ==
  ASSUME NEW S, NEW q \in Seq(S), NEW e \in S, NEW x
  PROVE  Contains(Append(q, e), x) <=> Contains(q, x) \/ e = x
  <1>1. PICK t : t = Append(q, e)
    OBVIOUS
  <1>2. /\ Len(t) = Len(q) + 1 /\ Len(q) \in Nat
        /\ \A i \in 1 .. Len(q) : t[i] = q[i]
        /\ t[Len(q) + 1] = e
    BY <1>1, AppendProperties
  <1>3. 1 .. Len(t) = (1 .. Len(q)) \cup {Len(q) + 1}
    BY <1>2
  <1>4. Contains(t, x) <=> Contains(q, x) \/ e = x
    BY <1>2, <1>3 DEF Contains
  <1> QED
    BY <1>1, <1>4

(* ... and before its head has left.                                       *)
LEMMA ContainsTail ==
  ASSUME NEW S, NEW q \in Seq(S), q # <<>>, NEW x
  PROVE  Contains(q, x) <=> Head(q) = x \/ Contains(Tail(q), x)
  <1>1. PICK t, h : t = Tail(q) /\ h = Head(q)
    OBVIOUS
  <1>2. /\ Len(t) = Len(q) - 1 /\ Len(q) \in Nat /\ Len(q) # 0
        /\ \A i \in 1 .. Len(t) : t[i] = q[i + 1]
        /\ h = q[1]
    BY <1>1, HeadTailProperties, EmptySeq
  <1>3. ASSUME NEW i \in 1 .. Len(q) PROVE q[i] = h \/ \E j \in 1 .. Len(t) : t[j] = q[i]
    <2>1. CASE i = 1
      BY <1>2, <2>1
    <2>2. CASE i # 1
      <3>1. i - 1 \in 1 .. Len(t) /\ (i - 1) + 1 = i
        BY <1>2, <2>2
      <3> QED
        BY <1>2, <3>1
    <2> QED
      BY <2>1, <2>2
  <1>4. 1 \in 1 .. Len(q) /\ \A j \in 1 .. Len(t) : j + 1 \in 1 .. Len(q)
    BY <1>2
  <1>5. Contains(q, x) <=> h = x \/ Contains(t, x)
    BY <1>2, <1>3, <1>4 DEF Contains
  <1> QED
    BY <1>1, <1>5

-------------------------------------------------------------------------------
(* A list of blocks, in which a queue of buffers keeps its bytes: what its *)
(* blocks give when they are put together.                                 *)
Joins(f, S, q) ==
  /\ f \in [0 .. Len(q) -> Seq(S)] /\ f[0] = <<>>
  /\ \A i \in 1 .. Len(q) : f[i] = f[i - 1] \o q[i]

LEMMA FlattenJoins ==
  ASSUME NEW S, NEW q \in Seq(Seq(S))
  PROVE  \E f : Joins(f, S, q) /\ FlattenSeq(q) = f[Len(q)]
  <1> DEFINE n == Len(q)
             flat == CHOOSE g : g = [i \in 1 .. n |-> IF i = 1 THEN q[i] ELSE g[i - 1] \o q[i]]
             step == [i \in 1 .. n |-> [t \in Seq(S) |-> t \o q[i]]]
  <1>1. n \in Nat
    OBVIOUS
  <1>2. \A i \in 1 .. n : q[i] \in Seq(S)
    OBVIOUS
  <1>3. FlattenSeq(q) = IF n = 0 THEN q ELSE flat[n]
    BY DEF FlattenSeq
  <1>4. n = 0 => q = <<>>
    BY EmptySeq
  <1> HIDE DEF n
  <1>5. \A s, t \in Seq(S) : s \o t \in Seq(S)
    OBVIOUS
  <1>6. step \in [1 .. n -> [Seq(S) -> Seq(S)]]
    BY <1>2, <1>5
  <1>7. \A i \in 1 .. n : \A t \in Seq(S) : step[i][t] = t \o q[i]
    OBVIOUS
  <1> HIDE DEF step
  <1>8. <<>> \in Seq(S)
    OBVIOUS
  <1>9. PICK f : Recurs(f, Seq(S), <<>>, n, step)
    BY <1>1, <1>6, <1>8, Recursion
  <1>10. ASSUME NEW i \in 1 .. n PROVE i - 1 \in 0 .. n
    BY <1>1
  <1>11. /\ f \in [0 .. n -> Seq(S)] /\ f[0] = <<>>
         /\ \A i \in 1 .. n : f[i] = f[i - 1] \o q[i]
    BY <1>7, <1>9, <1>10 DEF Recurs
  <1>12. Joins(f, S, q)
    BY <1>11 DEF Joins, n
  <1>13. CASE n = 0
    <2>1. f[Len(q)] = FlattenSeq(q)
      BY <1>3, <1>4, <1>11, <1>13 DEF n
    <2> QED
      BY <1>12, <2>1
  <1>14. CASE n # 0
    <2>1. PICK g : g = [i \in 1 .. n |-> f[i]]
      OBVIOUS
    <2>2. ASSUME NEW i \in 1 .. n
          PROVE  g[i] = IF i = 1 THEN q[i] ELSE g[i - 1] \o q[i]
      <3>1. g[i] = f[i] /\ f[i] = f[i - 1] \o q[i]
        BY <1>11, <2>1
      <3>2. CASE i = 1
        <4>1. f[i - 1] = <<>> /\ q[i] \in Seq(S)
          BY <1>2, <1>11, <3>2
        <4>2. <<>> \o q[i] = q[i]
          BY <4>1, ConcatEmptySeq
        <4> QED
          BY <3>1, <3>2, <4>1, <4>2
      <3>3. CASE i # 1
        <4>1. i - 1 \in 1 .. n
          BY <1>1, <3>3
        <4> QED
          BY <2>1, <3>1, <3>3, <4>1
      <3> QED
        BY <3>2, <3>3
    <2>3. g = [i \in 1 .. n |-> IF i = 1 THEN q[i] ELSE g[i - 1] \o q[i]]
      BY <2>1, <2>2
    <2>4. flat = [i \in 1 .. n |-> IF i = 1 THEN q[i] ELSE flat[i - 1] \o q[i]]
      BY <2>3
    <2> HIDE DEF flat
    <2> DEFINE P == {i \in 0 .. n : i # 0 => flat[i] = f[i]}
    <2>5. 0 \in P
      BY <1>1
    <2>6. ASSUME NEW i \in 0 .. n - 1, i \in P PROVE i + 1 \in P
      <3>1. i + 1 \in 1 .. n /\ i + 1 \in 0 .. n /\ (i + 1) - 1 = i
        BY <1>1
      <3>2. f[i + 1] = f[i] \o q[i + 1]
        BY <1>11, <3>1
      <3>3. flat[i + 1] = IF i + 1 = 1 THEN q[i + 1] ELSE flat[i] \o q[i + 1]
        BY <2>4, <3>1
      <3>4. CASE i = 0
        <4>1. f[i] = <<>> /\ q[i + 1] \in Seq(S)
          BY <1>2, <1>11, <3>1, <3>4
        <4>2. <<>> \o q[i + 1] = q[i + 1]
          BY <4>1, ConcatEmptySeq
        <4> QED
          BY <3>1, <3>2, <3>3, <3>4, <4>1, <4>2
      <3>5. CASE i # 0
        <4>1. flat[i] = f[i] /\ i + 1 # 1
          BY <2>6, <3>5
        <4> QED
          BY <3>1, <3>2, <3>3, <4>1
      <3> QED
        BY <3>4, <3>5
    <2> HIDE DEF P
    <2>7. n \in 0 .. n /\ \A i \in 0 .. n - 1 : i \in P => i + 1 \in P
      BY <1>1, <2>6
    <2>8. n \in P
      BY <1>1, <2>5, <2>7, UpTo
    <2>9. FlattenSeq(q) = f[Len(q)]
      BY <1>3, <1>14, <2>8 DEF P, n
    <2> QED
      BY <1>12, <2>9
  <1> QED
    BY <1>13, <1>14

Joining(f, q, n) == \A i \in 1 .. n : f[i] = f[i - 1] \o q[i]

LEMMA JoinsUnique ==
  ASSUME NEW q, NEW f, NEW g, NEW n \in Nat,
         f[0] = g[0], Joining(f, q, n), Joining(g, q, n)
  PROVE  f[n] = g[n]
  <1> DEFINE P == {i \in 0 .. n : f[i] = g[i]}
  <1>1. 0 \in P /\ n \in Nat /\ n \in 0 .. n
    OBVIOUS
  <1>2. ASSUME NEW i \in 0 .. n - 1, i \in P PROVE i + 1 \in P
    <2>1. i + 1 \in 1 .. n /\ i + 1 \in 0 .. n /\ (i + 1) - 1 = i
      BY <1>1
    <2>2. f[i + 1] = f[(i + 1) - 1] \o q[i + 1] /\ g[i + 1] = g[(i + 1) - 1] \o q[i + 1]
      BY <2>1 DEF Joining
    <2>3. f[i] = g[i]
      BY <1>2
    <2> QED
      BY <2>1, <2>2, <2>3
  <1> HIDE DEF P
  <1>3. \A i \in 0 .. n - 1 : i \in P => i + 1 \in P
    BY <1>2
  <1>4. n \in P
    BY <1>1, <1>3, UpTo
  <1> QED
    BY <1>4 DEF P

LEMMA FlattenEmpty == FlattenSeq(<<>>) = <<>>
  BY DEF FlattenSeq

LEMMA FlattenInSeq ==
  ASSUME NEW S, NEW q \in Seq(Seq(S))
  PROVE  FlattenSeq(q) \in Seq(S)
  <1>1. PICK f : Joins(f, S, q) /\ FlattenSeq(q) = f[Len(q)]
    BY FlattenJoins
  <1>2. Len(q) \in 0 .. Len(q)
    OBVIOUS
  <1> QED
    BY <1>1, <1>2 DEF Joins

(* skb_queue_tail of a block, ... *)
LEMMA FlattenAppend ==
  ASSUME NEW S, NEW q \in Seq(Seq(S)), NEW b \in Seq(S)
  PROVE  FlattenSeq(Append(q, b)) = FlattenSeq(q) \o b
  <1>1. PICK t : t = Append(q, b)
    OBVIOUS
  <1>2. /\ t \in Seq(Seq(S)) /\ Len(t) = Len(q) + 1 /\ Len(q) \in Nat
        /\ \A i \in 1 .. Len(q) : t[i] = q[i]
        /\ t[Len(q) + 1] = b
    BY <1>1, AppendProperties
  <1>3. PICK f : Joins(f, S, q) /\ FlattenSeq(q) = f[Len(q)]
    BY FlattenJoins
  <1>4. PICK g : Joins(g, S, t) /\ FlattenSeq(t) = g[Len(t)]
    BY <1>2, FlattenJoins
  <1>5. f[0] = g[0] /\ Len(q) \in 0 .. Len(q)
    BY <1>2, <1>3, <1>4 DEF Joins
  <1>6. ASSUME NEW i \in 1 .. Len(q)
        PROVE  f[i] = f[i - 1] \o q[i] /\ g[i] = g[i - 1] \o q[i]
    <2>1. i \in 1 .. Len(t)
      BY <1>2
    <2> QED
      BY <1>2, <1>3, <1>4, <2>1 DEF Joins
  <1>7. f[Len(q)] = g[Len(q)]
    <2>1. Joining(f, q, Len(q)) /\ Joining(g, q, Len(q))
      BY <1>6 DEF Joining
    <2> QED
      BY <1>2, <1>5, <2>1, JoinsUnique
  <1>8. Len(q) + 1 \in 1 .. Len(t) /\ (Len(q) + 1) - 1 = Len(q)
    BY <1>2
  <1>9. g[Len(q) + 1] = g[(Len(q) + 1) - 1] \o t[Len(q) + 1]
    BY <1>4, <1>8 DEF Joins
  <1> QED
    BY <1>1, <1>2, <1>3, <1>4, <1>7, <1>8, <1>9

LEMMA Associative == \A S : \A s, t, u \in Seq(S) : (s \o t) \o u = s \o (t \o u)
  BY ConcatAssociative

(* ... and skb_dequeue of one. *)
LEMMA FlattenHeadTail ==
  ASSUME NEW S, NEW q \in Seq(Seq(S)), q # <<>>
  PROVE  FlattenSeq(q) = Head(q) \o FlattenSeq(Tail(q))
  <1>1. PICK t, h : t = Tail(q) /\ h = Head(q)
    OBVIOUS
  <1>2. /\ t \in Seq(Seq(S)) /\ Len(t) = Len(q) - 1 /\ Len(t) \in Nat
        /\ \A i \in 1 .. Len(t) : t[i] = q[i + 1]
        /\ h = q[1] /\ h \in Seq(S)
    BY <1>1, HeadTailProperties
  <1>3. PICK f : Joins(f, S, q) /\ FlattenSeq(q) = f[Len(q)]
    BY FlattenJoins
  <1>4. PICK g : Joins(g, S, t) /\ FlattenSeq(t) = g[Len(t)]
    BY <1>2, FlattenJoins
  <1>5. PICK n \in Nat : n = Len(t) /\ Len(q) = n + 1
    BY <1>2
  <1> DEFINE P == {i \in 0 .. n : f[i + 1] = h \o g[i]}
  <1>6. 0 \in P
    <2>1. 1 \in 1 .. Len(q) /\ 1 - 1 = 0 /\ 0 + 1 = 1 /\ 0 \in 0 .. n
      BY <1>5
    <2>2. f[1] = f[1 - 1] \o q[1]
      BY <1>3, <2>1 DEF Joins
    <2>3. f[0] = <<>> /\ g[0] = <<>>
      BY <1>3, <1>4 DEF Joins
    <2>4. <<>> \o h = h /\ h \o <<>> = h
      BY <1>2, ConcatEmptySeq
    <2>5. f[1] = h \o g[0]
      BY <1>2, <2>1, <2>2, <2>3, <2>4
    <2> QED
      BY <2>1, <2>5
  <1>7. ASSUME NEW i \in 0 .. n - 1, i \in P PROVE i + 1 \in P
    <2>1. /\ i + 1 \in 1 .. Len(t) /\ i + 1 \in 0 .. n /\ (i + 1) - 1 = i
          /\ (i + 1) + 1 \in 1 .. Len(q) /\ ((i + 1) + 1) - 1 = i + 1
          /\ i \in 0 .. Len(t)
      BY <1>5
    <2>2. f[(i + 1) + 1] = f[i + 1] \o q[(i + 1) + 1]
      BY <1>3, <2>1 DEF Joins
    <2>3. g[i + 1] = g[i] \o t[i + 1]
      BY <1>4, <2>1 DEF Joins
    <2>4. f[i + 1] = h \o g[i] /\ t[i + 1] = q[(i + 1) + 1]
      BY <1>2, <1>7, <2>1
    <2>5. PICK a, b : a = g[i] /\ b = t[i + 1]
      OBVIOUS
    <2>6. a \in Seq(S) /\ b \in Seq(S)
      <3>1. g[i] \in Seq(S)
        BY <1>4, <2>1 DEF Joins
      <3>2. t[i + 1] \in Seq(S)
        BY <1>2, <2>1, ElementOfSeq
      <3> QED
        BY <2>5, <3>1, <3>2
    <2>7. (h \o a) \o b = h \o (a \o b)
      <3> HIDE DEF P
      <3>1. h \in Seq(S) /\ a \in Seq(S) /\ b \in Seq(S)
        BY <1>2, <2>6
      <3>2. \A u, v, w \in Seq(S) : (u \o v) \o w = u \o (v \o w)
        BY ONLY Associative
      <3> QED
        BY ONLY <3>1, <3>2
    <2>8. f[(i + 1) + 1] = h \o g[i + 1]
      BY <2>2, <2>3, <2>4, <2>5, <2>7
    <2> QED
      BY <2>1, <2>8
  <1> HIDE DEF P
  <1>8. n \in 0 .. n /\ \A i \in 0 .. n - 1 : i \in P => i + 1 \in P
    BY <1>7
  <1>9. n \in P
    BY <1>6, <1>8, UpTo
  <1> QED
    BY <1>1, <1>3, <1>4, <1>5, <1>9 DEF P

-------------------------------------------------------------------------------
(* The entries of a list that is linked by hand: each one leads to the     *)
(* next, and the last one to null.                                         *)
LinkedAs(s, first, next, null) ==
  /\ first = IF Len(s) = 0 THEN null ELSE s[1]
  /\ \A k \in 1 .. Len(s) : next[s[k]] = IF k = Len(s) THEN null ELSE s[k + 1]

LEMMA ChainIsLinked ==
  ASSUME NEW D, NEW null, null \notin D, NEW next \in [D -> D \cup {null}],
         NEW s \in Seq(D), NEW first, LinkedAs(s, first, next, null),
         NEW n \in Nat, Len(s) <= n
  PROVE  Chain(next, first, null, n) = s
  <1> DEFINE P0 == D \cup {null}
             V == [P0 -> Seq(D)]
             base == [p \in P0 |-> <<>>]
             step == [i \in 1 .. n |-> [g \in V |-> [p \in P0 |->
                        IF p = null THEN <<>> ELSE <<p>> \o g[next[p]]]]]
             from == CHOOSE f : f = [k \in 0 .. n |->
                       [p \in DOMAIN next \cup {null} |->
                          IF p = null \/ k = 0 THEN <<>> ELSE <<p>> \o f[k - 1][next[p]]]]
  <1>1. Chain(next, first, null, n) = from[n][first]
    BY DEF Chain
  <1>2. DOMAIN next \cup {null} = P0 /\ \A p \in P0 : p # null => next[p] \in P0
    OBVIOUS
  <1>3. base \in V
    OBVIOUS
  <1>4. ASSUME NEW g \in V
        PROVE  [p \in P0 |-> IF p = null THEN <<>> ELSE <<p>> \o g[next[p]]] \in V
    <2>1. ASSUME NEW p \in P0, p # null PROVE <<p>> \o g[next[p]] \in Seq(D)
      <3>1. <<p>> \in Seq(D) /\ g[next[p]] \in Seq(D)
        BY <1>2, <2>1
      <3> QED
        BY <3>1, ConcatProperties
    <2> QED
      BY <2>1
  <1>5. step \in [1 .. n -> [V -> V]]
    BY <1>4
  <1>6. \A i \in 1 .. n : \A g \in V :
          step[i][g] = [p \in P0 |-> IF p = null THEN <<>> ELSE <<p>> \o g[next[p]]]
    OBVIOUS
  <1> HIDE DEF step, base
  <1>7. PICK f : Recurs(f, V, base, n, step)
    BY <1>3, <1>5, Recursion
  <1>8. f \in [0 .. n -> V] /\ f[0] = base /\ \A i \in 1 .. n : f[i] = step[i][f[i - 1]]
    BY <1>7 DEF Recurs
  <1>9. ASSUME NEW k \in 1 .. n
        PROVE  f[k] = [p \in P0 |-> IF p = null THEN <<>> ELSE <<p>> \o f[k - 1][next[p]]]
    <2> HIDE DEF V
    <2>1. f[k - 1] \in V
      <3>1. k - 1 \in 0 .. n
        OBVIOUS
      <3> QED
        BY <1>8, <3>1
    <2> QED
      BY <1>6, <1>8, <2>1
  <1>10. f = [k \in 0 .. n |-> [p \in DOMAIN next \cup {null} |->
                IF p = null \/ k = 0 THEN <<>> ELSE <<p>> \o f[k - 1][next[p]]]]
    <2>1. ASSUME NEW k \in 0 .. n
          PROVE  f[k] = [p \in P0 |-> IF p = null \/ k = 0 THEN <<>> ELSE <<p>> \o f[k - 1][next[p]]]
      <3>1. CASE k = 0
        BY <1>8, <3>1 DEF base
      <3>2. CASE k # 0
        <4>1. k \in 1 .. n
          BY <3>2
        <4> QED
          BY <1>9, <3>2, <4>1
      <3> QED
        BY <3>1, <3>2
    <2> DEFINE e == [k \in 0 .. n |-> [p \in P0 |->
                        IF p = null \/ k = 0 THEN <<>> ELSE <<p>> \o f[k - 1][next[p]]]]
    <2>2. \A k \in 0 .. n : f[k] = e[k]
      BY <2>1
    <2>3. DOMAIN f = 0 .. n /\ DOMAIN e = 0 .. n /\ f = [k \in DOMAIN f |-> f[k]] /\ e = [k \in DOMAIN e |-> e[k]]
      BY <1>8
    <2> HIDE DEF e
    <2>4. f = e
      BY <2>2, <2>3
    <2> QED
      BY <1>2, <2>4 DEF e
  <1>11. from = [k \in 0 .. n |-> [p \in DOMAIN next \cup {null} |->
                   IF p = null \/ k = 0 THEN <<>> ELSE <<p>> \o from[k - 1][next[p]]]]
    BY <1>10
  <1>12. ASSUME NEW k \in 0 .. n, NEW p \in P0
         PROVE  from[k][p] = IF p = null \/ k = 0 THEN <<>> ELSE <<p>> \o from[k - 1][next[p]]
    <2> HIDE DEF from
    <2>1. from[k] = [q \in DOMAIN next \cup {null} |->
             IF q = null \/ k = 0 THEN <<>> ELSE <<q>> \o from[k - 1][next[q]]]
      BY <1>11
    <2> HIDE DEF P0
    <2> QED
      BY <1>2, <2>1
  <1> HIDE DEF from, P0
  <1> DEFINE l == Len(s)
             At(k) == IF k = l THEN null ELSE s[k + 1]
             P == {m \in 0 .. n : \A k \in 0 .. l :
                     l - k <= m => from[m][At(k)] = SubSeq(s, k + 1, l)}
  <1>13. l \in Nat /\ \A k \in 1 .. l : s[k] \in D
    OBVIOUS
  <1> HIDE DEF l
  <1>14. ASSUME NEW k \in 0 .. l PROVE At(k) \in P0
    <2>1. k # l => k + 1 \in 1 .. l
      BY <1>13
    <2> QED
      BY <1>13, <2>1 DEF P0
  <1>15. ASSUME NEW m \in 0 .. n PROVE from[m][At(l)] = SubSeq(s, l + 1, l)
    <2>1. SubSeq(s, l + 1, l) = <<>>
      BY <1>13, SubSeqEmpty
    <2>2. l \in 0 .. l /\ At(l) = null
      BY <1>13
    <2> QED
      BY <1>12, <1>14, <2>1, <2>2
  <1>16. 0 \in P
    <2>1. ASSUME NEW k \in 0 .. l, l - k <= 0 PROVE k = l
      BY <1>13, <2>1
    <2> QED
      BY <1>15, <2>1
  <1>17. ASSUME NEW m \in 0 .. n - 1, m \in P PROVE m + 1 \in P
    <2>1. m + 1 \in 0 .. n /\ m + 1 # 0 /\ (m + 1) - 1 = m
      OBVIOUS
    <2>2. ASSUME NEW k \in 0 .. l, l - k <= m + 1, k # l
          PROVE  from[m + 1][At(k)] = SubSeq(s, k + 1, l)
      <3>1. k + 1 \in 1 .. l /\ k + 1 \in 0 .. l /\ l - (k + 1) <= m /\ l \in (k + 1) .. l
        BY <1>13, <2>1, <2>2
      <3>2. At(k) = s[k + 1] /\ s[k + 1] \in D /\ s[k + 1] # null
        BY <1>13, <2>2, <3>1
      <3>3. next[s[k + 1]] = At(k + 1)
        <4>1. next[s[k + 1]] = IF k + 1 = l THEN null ELSE s[(k + 1) + 1]
          BY ONLY <3>1, LinkedAs(s, first, next, null) DEF LinkedAs, l
        <4> QED
          BY ONLY <4>1
      <3>4. from[m + 1][At(k)] = <<s[k + 1]>> \o from[m][At(k + 1)]
        <4>1. At(k) \in P0 /\ At(k) # null
          BY <1>14, <2>2, <3>2
        <4> HIDE DEF At
        <4>2. from[m + 1][At(k)] = <<At(k)>> \o from[(m + 1) - 1][next[At(k)]]
          BY <1>12, <2>1, <4>1
        <4> QED
          BY <2>1, <3>2, <3>3, <4>2
      <3>5. from[m][At(k + 1)] = SubSeq(s, (k + 1) + 1, l)
        BY <1>17, <3>1
      <3>6. SubSeq(s, k + 1, l) = <<s[k + 1]>> \o SubSeq(s, (k + 1) + 1, l)
        BY <3>1, SubSeqRecursiveFirst DEF l
      <3> QED
        BY <3>4, <3>5, <3>6
    <2>3. from[m + 1][At(l)] = SubSeq(s, l + 1, l)
      BY <1>15, <2>1
    <2> QED
      BY <2>1, <2>2, <2>3
  <1> HIDE DEF P
  <1>18. n \in 0 .. n /\ \A m \in 0 .. n - 1 : m \in P => m + 1 \in P
    BY <1>17
  <1>19. n \in P
    BY <1>16, <1>18, UpTo
  <1>20. from[n][At(0)] = SubSeq(s, 0 + 1, l)
    <2>1. 0 \in 0 .. l /\ l - 0 <= n
      BY <1>13 DEF l
    <2> QED
      BY <1>19, <2>1 DEF P
  <1>21. At(0) = first
    BY <1>13 DEF LinkedAs, l
  <1>22. SubSeq(s, 0 + 1, l) = s
    BY SubSeqFull DEF l
  <1> QED
    BY <1>1, <1>20, <1>21, <1>22

(* What follows the k-th entry of a list.                                  *)
LEMMA AfterEntries ==
  ASSUME NEW S, NEW s \in Seq(S), NEW k \in 0 .. Len(s)
  PROVE  LET t == SubSeq(s, k + 1, Len(s)) IN
         /\ t \in Seq(S) /\ Len(t) = Len(s) - k
         /\ \A j \in 1 .. Len(s) - k : t[j] = s[k + j]
  <1>1. Len(s) \in Nat /\ \A i \in k + 1 .. Len(s) : s[i] \in S
    OBVIOUS
  <1>2. PICK t : t = SubSeq(s, k + 1, Len(s))
    OBVIOUS
  <1>3. /\ t \in Seq(S)
        /\ Len(t) = IF k + 1 <= Len(s) THEN Len(s) - (k + 1) + 1 ELSE 0
        /\ \A i \in 1 .. Len(s) - (k + 1) + 1 : t[i] = s[(k + 1) + i - 1]
    BY <1>1, <1>2, SubSeqProperties
  <1>4. Len(t) = Len(s) - k
    BY <1>1, <1>3
  <1>5. ASSUME NEW j \in 1 .. Len(s) - k PROVE t[j] = s[k + j]
    <2>1. j \in 1 .. Len(s) - (k + 1) + 1 /\ (k + 1) + j - 1 = k + j
      BY <1>1
    <2> QED
      BY <1>3, <2>1
  <1> QED
    BY <1>2, <1>3, <1>4, <1>5

LEMMA LinkedAfter ==
  ASSUME NEW S, NEW s \in Seq(S), NEW first, NEW next, NEW null, LinkedAs(s, first, next, null),
         NEW k \in 1 .. Len(s)
  PROVE  LinkedAs(SubSeq(s, k + 1, Len(s)), next[s[k]], next, null)
  <1>1. PICK t : t = SubSeq(s, k + 1, Len(s))
    OBVIOUS
  <1>2. Len(s) \in Nat /\ k \in 0 .. Len(s)
    OBVIOUS
  <1>3. Len(t) = Len(s) - k /\ \A j \in 1 .. Len(s) - k : t[j] = s[k + j]
    BY <1>1, <1>2, AfterEntries
  <1>4. \A j \in 1 .. Len(s) : next[s[j]] = IF j = Len(s) THEN null ELSE s[j + 1]
    BY DEF LinkedAs
  <1>5. next[s[k]] = IF Len(t) = 0 THEN null ELSE t[1]
    <2>1. CASE k = Len(s)
      BY <1>2, <1>3, <1>4, <2>1
    <2>2. CASE k # Len(s)
      <3>1. 1 \in 1 .. Len(s) - k /\ Len(t) # 0
        BY <1>2, <1>3, <2>2
      <3> QED
        BY <1>3, <1>4, <2>2, <3>1
    <2> QED
      BY <2>1, <2>2
  <1>6. ASSUME NEW j \in 1 .. Len(t)
        PROVE  next[t[j]] = IF j = Len(t) THEN null ELSE t[j + 1]
    <2>1. j \in 1 .. Len(s) - k /\ k + j \in 1 .. Len(s) /\ (k + j = Len(s) <=> j = Len(t))
      BY <1>2, <1>3
    <2>2. next[t[j]] = IF j = Len(t) THEN null ELSE s[(k + j) + 1]
      BY <1>3, <1>4, <2>1
    <2>3. j # Len(t) => j + 1 \in 1 .. Len(s) - k /\ (k + j) + 1 = k + (j + 1)
      BY <1>2, <1>3
    <2> QED
      BY <1>3, <2>2, <2>3
  <1>7. LinkedAs(t, next[s[k]], next, null)
    BY <1>5, <1>6 DEF LinkedAs
  <1> QED
    BY <1>1, <1>7

(* No entry twice: then there are no more of them than possible entries.   *)
Distinct(s) == \A j, k \in 1 .. Len(s) : s[j] = s[k] => j = k

LEMMA DistinctFit ==
  ASSUME NEW S, IsFiniteSet(S), NEW s \in Seq(S), Distinct(s)
  PROVE  Len(s) <= Cardinality(S) /\ Cardinality(S) \in Nat
  <1>1. Len(s) \in Nat /\ s \in [1 .. Len(s) -> S]
    OBVIOUS
  <1>2. s \in Injection(1 .. Len(s), S)
    BY <1>1 DEF Injection, IsInjective, Distinct
  <1>3. Cardinality(1 .. Len(s)) <= Cardinality(S)
    BY <1>2, FS_Injection
  <1>4. Cardinality(1 .. Len(s)) = Len(s)
    <2>1. Cardinality(1 .. Len(s)) = IF 1 > Len(s) THEN 0 ELSE Len(s) - 1 + 1
      BY <1>1, FS_Interval
    <2> QED
      BY <1>1, <2>1
  <1> QED
    BY <1>3, <1>4, FS_CardinalityType

(* A list in front of which, or behind which, an entry is linked, or from   *)
(* which one is unlinked.                                                   *)
LEMMA DistinctBefore ==
  ASSUME NEW S, NEW s \in Seq(S), Distinct(s), NEW a \in S,
         \A k \in 1 .. Len(s) : s[k] # a
  PROVE  LET t == <<a>> \o s IN
         /\ t \in Seq(S) /\ Len(t) = Len(s) + 1 /\ Distinct(t)
         /\ t[1] = a /\ \A k \in 2 .. Len(s) + 1 : t[k] = s[k - 1]
  <1>1. PICK t : t = <<a>> \o s
    OBVIOUS
  <1>2. <<a>> \in Seq(S) /\ Len(<<a>>) = 1 /\ <<a>>[1] = a /\ Len(s) \in Nat
    OBVIOUS
  <1>3. /\ t \in Seq(S) /\ Len(t) = Len(s) + 1
        /\ t[1] = a /\ \A k \in 2 .. Len(s) + 1 : t[k] = s[k - 1]
    BY <1>1, <1>2
  <1>4. \A k \in 2 .. Len(s) + 1 : k - 1 \in 1 .. Len(s) /\ t[k] # a
    BY <1>2, <1>3
  <1>5. ASSUME NEW j \in 1 .. Len(t), NEW k \in 1 .. Len(t), t[j] = t[k] PROVE j = k
    <2>1. CASE j = 1
      <3>1. k \in 2 .. Len(s) + 1 => FALSE
        BY <1>3, <1>4, <1>5, <2>1
      <3> QED
        BY <1>2, <1>3, <2>1, <3>1
    <2>2. CASE k = 1
      <3>1. j \in 2 .. Len(s) + 1 => FALSE
        BY <1>3, <1>4, <1>5, <2>2
      <3> QED
        BY <1>2, <1>3, <2>2, <3>1
    <2>3. CASE j # 1 /\ k # 1
      <3>1. j \in 2 .. Len(s) + 1 /\ k \in 2 .. Len(s) + 1
        BY <1>2, <1>3, <2>3
      <3>2. s[j - 1] = s[k - 1] /\ j - 1 \in 1 .. Len(s) /\ k - 1 \in 1 .. Len(s)
        BY <1>3, <1>4, <1>5, <3>1
      <3>3. j - 1 = k - 1
        BY <3>2 DEF Distinct
      <3> QED
        BY <3>1, <3>3
    <2> QED
      BY <2>1, <2>2, <2>3
  <1> QED
    BY <1>1, <1>3, <1>5 DEF Distinct

LEMMA LinkedBefore ==
  ASSUME NEW S, NEW s \in Seq(S), NEW first, NEW next, NEW null,
         LinkedAs(s, first, next, null), NEW a \in S, NEW f, f[a] = first,
         \A k \in 1 .. Len(s) : f[s[k]] = next[s[k]]
  PROVE  LinkedAs(<<a>> \o s, a, f, null)
  <1>1. PICK t : t = <<a>> \o s
    OBVIOUS
  <1>2. <<a>> \in Seq(S) /\ Len(<<a>>) = 1 /\ <<a>>[1] = a /\ Len(s) \in Nat
    OBVIOUS
  <1>3. /\ Len(t) = Len(s) + 1
        /\ t[1] = a /\ \A k \in 2 .. Len(s) + 1 : t[k] = s[k - 1]
    BY <1>1, <1>2
  <1>4. ASSUME NEW k \in 1 .. Len(t)
        PROVE  f[t[k]] = IF k = Len(t) THEN null ELSE t[k + 1]
    <2>1. CASE k = 1
      BY <1>2, <1>3, <2>1 DEF LinkedAs
    <2>2. CASE k # 1
      <3>1. k - 1 \in 1 .. Len(s) /\ t[k] = s[k - 1] /\ k \in Nat
        BY <1>2, <1>3, <2>2
      <3>2. f[t[k]] = IF k - 1 = Len(s) THEN null ELSE s[(k - 1) + 1]
        BY <3>1 DEF LinkedAs
      <3> QED
        BY <1>2, <1>3, <3>1, <3>2
    <2> QED
      BY <2>1, <2>2
  <1> QED
    BY <1>1, <1>2, <1>3, <1>4 DEF LinkedAs

LEMMA DistinctAppend ==
  ASSUME NEW S, NEW s \in Seq(S), Distinct(s), NEW a \in S,
         \A k \in 1 .. Len(s) : s[k] # a
  PROVE  LET t == Append(s, a) IN
         /\ t \in Seq(S) /\ Len(t) = Len(s) + 1 /\ Distinct(t)
         /\ t[Len(s) + 1] = a /\ \A k \in 1 .. Len(s) : t[k] = s[k]
  <1>1. PICK t : t = Append(s, a)
    OBVIOUS
  <1>2. /\ t \in Seq(S) /\ Len(t) = Len(s) + 1 /\ Len(s) \in Nat
        /\ t[Len(s) + 1] = a /\ \A k \in 1 .. Len(s) : t[k] = s[k]
    BY <1>1
  <1>3. \A k \in 1 .. Len(t) : k = Len(s) + 1 \/ (k \in 1 .. Len(s) /\ t[k] = s[k] /\ t[k] # a)
    BY <1>2
  <1>4. Distinct(t)
    BY <1>2, <1>3 DEF Distinct
  <1> QED
    BY <1>1, <1>2, <1>4

LEMMA LinkedAppend ==
  ASSUME NEW S, NEW s \in Seq(S), NEW first, NEW next, NEW null,
         LinkedAs(s, first, next, null), NEW a \in S, NEW f, f[a] = null,
         \A k \in 1 .. Len(s) : f[s[k]] = IF k = Len(s) THEN a ELSE next[s[k]]
  PROVE  LinkedAs(Append(s, a), IF Len(s) = 0 THEN a ELSE first, f, null)
  <1>1. PICK t : t = Append(s, a)
    OBVIOUS
  <1>2. /\ Len(t) = Len(s) + 1 /\ Len(s) \in Nat
        /\ t[Len(s) + 1] = a /\ \A k \in 1 .. Len(s) : t[k] = s[k]
    BY <1>1
  <1>3. ASSUME NEW k \in 1 .. Len(t)
        PROVE  f[t[k]] = IF k = Len(t) THEN null ELSE t[k + 1]
    <2>1. CASE k = Len(s) + 1
      BY <1>2, <2>1
    <2>2. CASE k = Len(s)
      <3>1. k \in 1 .. Len(s) /\ k # Len(t) /\ t[k + 1] = a
        BY <1>2, <2>2
      <3> QED
        BY <1>2, <2>2, <3>1
    <2>3. CASE k # Len(s) + 1 /\ k # Len(s)
      <3>1. k \in 1 .. Len(s) /\ k + 1 \in 1 .. Len(s) /\ k # Len(t)
        BY <1>2, <2>3
      <3>2. f[s[k]] = s[k + 1]
        BY <2>3, <3>1 DEF LinkedAs
      <3> QED
        BY <1>2, <3>1, <3>2
    <2> QED
      BY <2>1, <2>2, <2>3
  <1>4. IF Len(s) = 0 THEN t[1] = a ELSE t[1] = first
    <2>1. CASE Len(s) = 0
      BY <1>2, <2>1
    <2>2. CASE Len(s) # 0
      <3>1. 1 \in 1 .. Len(s)
        BY <1>2, <2>2
      <3> QED
        BY <1>2, <2>2, <3>1 DEF LinkedAs
    <2> QED
      BY <2>1, <2>2
  <1>5. Len(t) # 0
    BY <1>2
  <1>6. LinkedAs(t, IF Len(s) = 0 THEN a ELSE first, f, null)
    BY <1>3, <1>4, <1>5 DEF LinkedAs
  <1> QED
    BY <1>1, <1>6

LEMMA DistinctRemove ==
  ASSUME NEW S, NEW s \in Seq(S), Distinct(s), NEW k \in 1 .. Len(s)
  PROVE  LET t == RemoveAt(s, k) IN
         /\ t \in Seq(S) /\ Len(t) = Len(s) - 1 /\ Distinct(t)
         /\ \A j \in 1 .. Len(t) : t[j] = IF j < k THEN s[j] ELSE s[j + 1]
  <1>1. PICK t : t = RemoveAt(s, k)
    OBVIOUS
  <1>2. /\ t \in Seq(S) /\ Len(t) = Len(s) - 1 /\ Len(s) \in Nat
        /\ \A j \in 1 .. Len(t) : t[j] = IF j < k THEN s[j] ELSE s[j + 1]
    BY <1>1, RemoveEntries
  <1>3. ASSUME NEW i \in 1 .. Len(t), NEW j \in 1 .. Len(t), t[i] = t[j] PROVE i = j
    <2>0. \A m \in 1 .. Len(t) : \E x \in 1 .. Len(s) :
             x = (IF m < k THEN m ELSE m + 1) /\ t[m] = s[x]
      <3> SUFFICES ASSUME NEW m \in 1 .. Len(t)
                   PROVE  /\ (IF m < k THEN m ELSE m + 1) \in 1 .. Len(s)
                          /\ t[m] = s[IF m < k THEN m ELSE m + 1]
        OBVIOUS
      <3> QED
        BY <1>2
    <2>1. PICK x \in 1 .. Len(s) : x = (IF i < k THEN i ELSE i + 1) /\ t[i] = s[x]
      BY <2>0
    <2>2. PICK y \in 1 .. Len(s) : y = (IF j < k THEN j ELSE j + 1) /\ t[j] = s[y]
      BY <2>0
    <2>3. x = y
      BY <1>3, <2>1, <2>2 DEF Distinct
    <2> QED
      BY <1>2, <2>1, <2>2, <2>3
  <1> QED
    BY <1>1, <1>2, <1>3 DEF Distinct

LEMMA LinkedRemove ==
  ASSUME NEW S, NEW s \in Seq(S), NEW first, NEW next, NEW null,
         LinkedAs(s, first, next, null), NEW k \in 1 .. Len(s), NEW f,
         \A j \in 1 .. Len(s) : j # k =>
            f[s[j]] = IF j = k - 1 THEN next[s[k]] ELSE next[s[j]]
  PROVE  LinkedAs(RemoveAt(s, k), IF k = 1 THEN next[s[k]] ELSE first, f, null)
  <1>1. PICK t : t = RemoveAt(s, k)
    OBVIOUS
  <1>2. /\ Len(t) = Len(s) - 1 /\ Len(s) \in Nat
        /\ \A j \in 1 .. Len(t) : t[j] = IF j < k THEN s[j] ELSE s[j + 1]
    BY <1>1, RemoveEntries
  <1>3. \A j \in 1 .. Len(s) : next[s[j]] = IF j = Len(s) THEN null ELSE s[j + 1]
    BY DEF LinkedAs
  <1>4. ASSUME NEW j \in 1 .. Len(t)
        PROVE  f[t[j]] = IF j = Len(t) THEN null ELSE t[j + 1]
    <2>0. j \in Nat /\ k \in Nat /\ j <= Len(s) - 1 /\ k <= Len(s) /\ 1 <= j /\ 1 <= k
      BY <1>2
    <2>1. CASE j + 1 < k
      <3>1. /\ j \in 1 .. Len(s) /\ j # k /\ j # k - 1 /\ j # Len(s) /\ j # Len(t)
            /\ j + 1 \in 1 .. Len(t) /\ j < k
        BY <1>2, <2>0, <2>1
      <3>2. t[j] = s[j] /\ t[j + 1] = s[j + 1]
        BY <1>2, <2>1, <3>1
      <3> QED
        BY <1>3, <3>1, <3>2
    <2>2. CASE j + 1 = k
      <3>1. j \in 1 .. Len(s) /\ j # k /\ j = k - 1 /\ j < k
        BY <1>2, <2>0, <2>2
      <3>2. t[j] = s[j] /\ f[s[j]] = next[s[k]]
        BY <1>2, <3>1
      <3>3. CASE j = Len(t)
        <4>1. k = Len(s)
          BY <1>2, <2>2, <3>3
        <4> QED
          BY <1>3, <3>2, <3>3, <4>1
      <3>4. CASE j # Len(t)
        <4>1. k # Len(s) /\ j + 1 \in 1 .. Len(t) /\ ~(j + 1 < k) /\ (j + 1) + 1 = k + 1
          BY <1>2, <2>0, <2>2, <3>4
        <4>2. t[j + 1] = s[k + 1]
          BY <1>2, <4>1
        <4> QED
          BY <1>3, <3>2, <3>4, <4>1, <4>2
      <3> QED
        BY <3>3, <3>4
    <2>3. CASE j >= k
      <3>1. /\ j + 1 \in 1 .. Len(s) /\ j + 1 # k /\ j + 1 # k - 1 /\ ~(j < k)
            /\ ~(j + 1 < k)
        BY <1>2, <2>0, <2>3
      <3>2. t[j] = s[j + 1] /\ f[s[j + 1]] = next[s[j + 1]]
        BY <1>2, <3>1
      <3>3. CASE j = Len(t)
        <4>1. j + 1 = Len(s)
          BY <1>2, <3>3
        <4> QED
          BY <1>3, <3>1, <3>2, <3>3, <4>1
      <3>4. CASE j # Len(t)
        <4>1. j + 1 # Len(s) /\ j + 1 \in 1 .. Len(t)
          BY <1>2, <2>0, <3>4
        <4>2. t[j + 1] = s[(j + 1) + 1]
          BY <1>2, <3>1, <4>1
        <4> QED
          BY <1>3, <3>1, <3>2, <3>4, <4>1, <4>2
      <3> QED
        BY <3>3, <3>4
    <2> QED
      BY <2>0, <2>1, <2>2, <2>3
  <1>5. (IF k = 1 THEN next[s[k]] ELSE first) = IF Len(t) = 0 THEN null ELSE t[1]
    <2>1. CASE k = 1 /\ Len(s) = 1
      BY <1>2, <1>3, <2>1
    <2>2. CASE k = 1 /\ Len(s) # 1
      <3>1. 1 \in 1 .. Len(t) /\ ~(1 < k) /\ Len(t) # 0
        BY <1>2, <2>2
      <3>2. t[1] = s[1 + 1]
        BY <1>2, <3>1
      <3> QED
        BY <1>3, <2>2, <3>1, <3>2
    <2>3. CASE k # 1
      <3>1. 1 \in 1 .. Len(t) /\ 1 < k /\ Len(t) # 0 /\ Len(s) # 0
        BY <1>2, <2>3
      <3>2. t[1] = s[1] /\ first = s[1]
        BY <1>2, <3>1 DEF LinkedAs
      <3> QED
        BY <2>3, <3>1, <3>2
    <2> QED
      BY <2>1, <2>2, <2>3
  <1>6. LinkedAs(t, IF k = 1 THEN next[s[k]] ELSE first, f, null)
    BY <1>4, <1>5 DEF LinkedAs
  <1> QED
    BY <1>1, <1>6

(* RemoveFirst, where there is something to remove.                         *)
LEMMA RemoveFirstTakes ==
  ASSUME NEW S, NEW s \in Seq(S), NEW e, Contains(s, e)
  PROVE  /\ s # <<>> /\ Len(RemoveFirst(s, e)) = Len(s) - 1
         /\ e = Head(s) => RemoveFirst(s, e) = Tail(s)
  <1> DEFINE hits == {i \in 1 .. Len(s) : s[i] = e}
  <1>1. PICK i \in 1 .. Len(s) : s[i] = e
    BY DEF Contains
  <1>2. RemoveFirst(s, e) = RemoveAt(s, Min(hits))
    BY <1>1 DEF RemoveFirst, SelectInSeq
  <1>3. \E k \in hits : \A j \in hits : k <= j
    <2>1. hits # {} /\ hits \in SUBSET Nat
      BY <1>1
    <2> QED
      BY <2>1, LeastExists
  <1>4. PICK k : k = Min(hits)
    OBVIOUS
  <1>5. k \in hits /\ \A j \in hits : k <= j
    BY <1>3, <1>4 DEF Min
  <1>6. k \in 1 .. Len(s)
    BY <1>5
  <1>7. PICK t : t = RemoveAt(s, k)
    OBVIOUS
  <1>8. /\ t \in Seq(S) /\ Len(t) = Len(s) - 1 /\ Len(s) \in Nat
        /\ \A j \in 1 .. Len(t) : t[j] = IF j < k THEN s[j] ELSE s[j + 1]
    BY <1>6, <1>7, RemoveEntries
  <1>9. s # <<>> /\ Len(s) # 0
    BY <1>6
  <1>10. ASSUME e = Head(s) PROVE t = Tail(s)
    <2>1. 1 \in hits
      BY <1>8, <1>9, <1>10
    <2>2. k = 1
      BY <1>5, <1>6, <2>1
    <2>3. PICK u : u = Tail(s)
      OBVIOUS
    <2>4. u \in Seq(S) /\ Len(u) = Len(s) - 1 /\ \A j \in 1 .. Len(u) : u[j] = s[j + 1]
      BY <1>9, <2>3
    <2>5. \A j \in 1 .. Len(t) : t[j] = u[j]
      BY <1>8, <2>2, <2>4
    <2>6. t = u
      BY <1>8, <2>4, <2>5
    <2> QED
      BY <2>3, <2>6
  <1> QED
    BY <1>2, <1>4, <1>7, <1>8, <1>9, <1>10
===============================================================================
