----------------------------- MODULE Capi20Proofs -----------------------------
(***************************************************************************)
(* Theorems about the minors of the middleware ttys, for any number of     *)
(* files, NCCIs, addresses and minor numbers: NCCIs, minors and ttys keep  *)
(* finding each other, and the numbers of the minors are the least and     *)
(* unique.                                                                 *)
(***************************************************************************)
EXTENDS Capi20, ListLemmas

-------------------------------------------------------------------------------
(* The inductive invariant.  What holds of a file: the device does not     *)
(* report an NCCI again that it has reported and that is not disconnected, *)
(* so what the file knows is connected, and the reader never adds an NCCI  *)
(* that the file has; and only an NCCI in the list, or in hand, has a      *)
(* minor.                                                                  *)
FileInv(f) ==
  /\ nccis[f] \subseteq connected[f]
  /\ pc[f] \in {"ncci", "minor", "capifs"} => ncci[f] \in connected[f] \ nccis[f]
  /\ pc[f] \in {"disconnect", "purge"} => ncci[f] \in Nccis \ nccis[f]
  /\ \A n \in Nccis : minorp[f][n] # Null => n \in nccis[f] \cup InHand(f)
FilesInv == \A f \in Files : FileInv(f)
(* The pointers themselves, wherever the NCCI is.                          *)
Pointers ==
  /\ \A f \in Files : \A n \in Nccis :
       minorp[f][n] # Null => minorp[f][n] \in Live /\ nccip[minorp[f][n]] = <<f, n>>
  /\ \A f \in Files : \A n \in Nccis : \A m \in Live :
       nccip[m] = <<f, n>> => minorp[f][n] = m
OpenTwice == \A m \in Structs : ttyopencount[m] > 1 => m \in twice
(* The numbers grow at least as fast as the positions: so the search for a *)
(* gap leaves behind only minors whose number is their position.           *)
Steep ==
  \A j, k \in 1 .. Len(capiminor_list) : j <= k =>
    minor[capiminor_list[j]] + (k - j) <= minor[capiminor_list[k]]

Capi20Inv ==
  /\ TypeOK /\ FilesInv /\ Pointers
  /\ NoMinorLeaks /\ TtysHaveMinors /\ OpenTwice /\ Steep

LEMMA Capi20InvInit == Init => Capi20Inv
<1>. SUFFICES ASSUME Init PROVE Capi20Inv
  OBVIOUS
<1>1. capiminor_list = <<>> /\ Live = {} /\ capiminor_list \in Seq(Structs)
  BY DEF Init, Live, ToSet
<1>2. TypeOK
  BY <1>1, Capi20Assumption DEF Init, TypeOK, Places
<1>3. FilesInv /\ OpenTwice /\ TtysHaveMinors
  BY DEF Init, FilesInv, FileInv, OpenTwice, TtysHaveMinors
<1>4. Pointers /\ NoMinorLeaks
  BY <1>1 DEF Init, Pointers, NoMinorLeaks
<1>5. Steep
  BY <1>1 DEF Steep
<1> QED
  BY <1>2, <1>3, <1>4, <1>5 DEF Capi20Inv

-------------------------------------------------------------------------------
(* The list *)

LEMMA LiveEntries ==
  ASSUME TypeOK
  PROVE  /\ Len(capiminor_list) \in Nat
         /\ DOMAIN capiminor_list = 1 .. Len(capiminor_list)
         /\ Live = {capiminor_list[i] : i \in 1 .. Len(capiminor_list)}
         /\ Live \subseteq Structs
         /\ \A i \in 1 .. Len(capiminor_list) :
              capiminor_list[i] \in Structs /\ minor[capiminor_list[i]] \in Nat
<1>1. capiminor_list \in Seq(Structs) /\ minor \in [Structs -> 0 .. TtyMinors - 1]
  BY DEF TypeOK
<1>2. /\ Len(capiminor_list) \in Nat
      /\ DOMAIN capiminor_list = 1 .. Len(capiminor_list)
      /\ \A i \in 1 .. Len(capiminor_list) : capiminor_list[i] \in Structs
  BY <1>1
<1>3. \A m \in Structs : minor[m] \in Nat
  BY <1>1, Capi20Assumption
<1> QED
  BY <1>2, <1>3 DEF Live, ToSet

(* The search ends at the first gap: up to there the number of a minor is  *)
(* its position, from there on it is greater.                              *)
LEMMA GapIsFirst ==
  ASSUME TypeOK, Steep
  PROVE  /\ Gap \in 1 .. Len(capiminor_list) + 1
         /\ \A j \in 1 .. Gap - 1 : minor[capiminor_list[j]] = j - 1
         /\ \A j \in Gap .. Len(capiminor_list) : minor[capiminor_list[j]] >= j
<1> DEFINE n == Len(capiminor_list)
           Number(j) == minor[capiminor_list[j]]
           beyond == {i \in 1 .. n : Number(i) > i - 1}
<1>1. n \in Nat /\ DOMAIN capiminor_list = 1 .. n /\ \A j \in 1 .. n : Number(j) \in Nat
  BY LiveEntries
<1>2. \A j, k \in 1 .. n : j <= k => Number(j) + (k - j) <= Number(k)
  BY DEF Steep
<1>3. Gap = IF beyond = {} THEN 1 + n ELSE CHOOSE i \in beyond : \A j \in beyond : i <= j
  BY <1>1 DEF Gap
<1> HIDE DEF n, Number
<1>4. /\ Gap \in 1 .. n + 1
      /\ \A j \in 1 .. Gap - 1 : j \in 1 .. n /\ j \notin beyond
      /\ Gap \in 1 .. n => Gap \in beyond
  <2>1. CASE beyond = {}
    <3>1. Gap = n + 1
      BY <1>1, <1>3, <2>1
    <3> QED
      BY <1>1, <2>1, <3>1
  <2>2. CASE beyond # {}
    <3>1. beyond \in SUBSET Nat
      BY <1>1
    <3>2. \E i \in beyond : \A j \in beyond : i <= j
      BY <2>2, <3>1, LeastExists
    <3> DEFINE g == CHOOSE i \in beyond : \A j \in beyond : i <= j
    <3>3. Gap = g /\ g \in beyond /\ \A j \in beyond : g <= j
      BY <1>3, <2>2, <3>2
    <3> HIDE DEF g
    <3>4. g \in 1 .. n
      BY <3>3
    <3>5. ASSUME NEW j \in 1 .. g - 1 PROVE j \in 1 .. n /\ ~(g <= j)
      BY <1>1, <3>4
    <3> QED
      BY <1>1, <3>3, <3>4, <3>5
  <2> QED
    BY <2>1, <2>2
<1>5. ASSUME NEW j \in 1 .. Gap - 1 PROVE Number(j) = j - 1
  <2>1. j \in 1 .. n /\ ~(Number(j) > j - 1)
    BY <1>4
  <2>2. 1 \in 1 .. n /\ 1 <= j
    BY <1>1, <2>1
  <2>3. Number(1) + (j - 1) <= Number(j)
    BY <1>2, <2>1, <2>2
  <2> QED
    BY <1>1, <2>1, <2>2, <2>3
<1>6. ASSUME NEW j \in Gap .. n PROVE Number(j) >= j
  <2>1. Gap \in 1 .. n /\ j \in 1 .. n /\ Gap <= j
    BY <1>1, <1>4
  <2>2. Number(Gap) > Gap - 1 /\ Number(Gap) + (j - Gap) <= Number(j)
    BY <1>2, <1>4, <2>1
  <2>3. Number(Gap) \in Nat /\ Number(j) \in Nat
    BY <1>1, <2>1
  <2> QED
    BY <2>1, <2>2, <2>3
<1> QED
  BY <1>4, <1>5, <1>6 DEF n, Number

LEMMA FreedList ==
  ASSUME TypeOK, Steep, NEW M
  PROVE  /\ Freed(M) \in Seq(Structs)
         /\ ToSet(Freed(M)) = Live \ M
         /\ \A j, k \in 1 .. Len(Freed(M)) : j <= k =>
              minor[Freed(M)[j]] + (k - j) <= minor[Freed(M)[k]]
<1>. DEFINE t == Freed(M)
<1>1. capiminor_list \in Seq(Structs)
  BY DEF TypeOK
<1>2. t \in Seq(Structs) /\ ToSet(t) = Live \ M
  BY <1>1, WithoutEntries DEF Freed, Live
<1>3. PICK place \in [1 .. Len(t) -> 1 .. Len(capiminor_list)] :
        /\ \A j \in 1 .. Len(t) : t[j] = capiminor_list[place[j]]
        /\ \A j, k \in 1 .. Len(t) : j <= k => place[j] + (k - j) <= place[k]
  BY <1>1, WithoutEntries DEF Freed
<1> HIDE DEF t
<1>4. ASSUME NEW j \in 1 .. Len(t), NEW k \in 1 .. Len(t), j <= k
      PROVE  minor[t[j]] + (k - j) <= minor[t[k]]
  <2>1. /\ place[j] \in 1 .. Len(capiminor_list) /\ place[k] \in 1 .. Len(capiminor_list)
        /\ t[j] = capiminor_list[place[j]] /\ t[k] = capiminor_list[place[k]]
        /\ place[j] + (k - j) <= place[k]
    BY <1>3, <1>4
  <2>2. Len(capiminor_list) \in Nat /\ Len(t) \in Nat
    BY <1>1, <1>2
  <2>3. place[j] <= place[k]
    BY <1>4, <2>1, <2>2
  <2>4. minor[t[j]] + (place[k] - place[j]) <= minor[t[k]]
    BY <2>1, <2>3 DEF Steep
  <2>5. minor[t[j]] \in Nat /\ minor[t[k]] \in Nat
    BY <2>1, LiveEntries
  <2>6. place[j] \in Nat /\ place[k] \in Nat /\ j \in Nat /\ k \in Nat
    BY <2>1, <2>2
  <2>7. k - j <= place[k] - place[j]
    BY <2>1, <2>6
  <2>8. \A a, b, c, d \in Int : c <= d /\ a + d <= b => a + c <= b
    OBVIOUS
  <2> QED
    BY <2>4, <2>5, <2>6, <2>7, <2>8
<1> QED
  BY <1>2, <1>4 DEF t

-------------------------------------------------------------------------------
(* What capincci_free leaves of NCCIs and minors. *)
LEMMA FreedMinor ==
  ASSUME Capi20Inv, NEW f \in Files, ncci[f] \in Nccis, FreeMinor(f)
  PROVE  /\ minorp' \in [Files -> [Nccis -> Structs \cup {Null}]]
         /\ \A g \in Files : \A n \in Nccis :
              minorp'[g][n] = IF g = f /\ n = ncci[f] THEN Null ELSE minorp[g][n]
         /\ nccip' \in [Structs -> {<<>>} \cup (Files \X Nccis)]
         /\ capiminor_list' \in Seq(Structs)
         /\ Live' \subseteq Live
         /\ UNCHANGED <<minor, ttyopencount, twice>>
         /\ Pointers' /\ NoMinorLeaks' /\ TtysHaveMinors' /\ OpenTwice' /\ Steep'
<1>. DEFINE M == {minorp[f][ncci[f]]}
<1>1. TypeOK /\ Steep /\ Pointers /\ NoMinorLeaks /\ TtysHaveMinors /\ OpenTwice
  BY DEF Capi20Inv
<1>2. /\ minorp' = [minorp EXCEPT ![f][ncci[f]] = Null]
      /\ nccip' = [m \in Structs |-> IF m \in M THEN <<>> ELSE nccip[m]]
      /\ capiminor_list' = Freed(M \ HungUp(M))
      /\ minor' = minor /\ ttyopencount' = ttyopencount /\ twice' = twice
  BY DEF FreeMinor, Detach
<1>3. /\ minorp \in [Files -> [Nccis -> Structs \cup {Null}]]
      /\ nccip \in [Structs -> {<<>>} \cup (Files \X Nccis)]
      /\ Null \notin Structs
  BY <1>1, Capi20Assumption DEF TypeOK
(* The minor that loses its NCCI is that of the NCCI in hand. *)
<1>4. ASSUME NEW m \in Live, NEW g \in Files, NEW n \in Nccis, nccip[m] = <<g, n>>
      PROVE  minorp[g][n] = m /\ (m \in M <=> (g = f /\ n = ncci[f]))
  <2>1. minorp[g][n] = m
    BY <1>1, <1>4 DEF Pointers
  <2>2. m # Null
    BY <1>1, <1>3, LiveEntries
  <2>3. m \in M => nccip[m] = <<f, ncci[f]>>
    BY <1>1, <2>2 DEF Pointers
  <2> QED
    BY <1>4, <2>1, <2>3
<1> HIDE DEF M
<1>5. /\ capiminor_list' \in Seq(Structs)
      /\ Live' = Live \ (M \ HungUp(M))
      /\ Steep'
  <2>1. Live' = ToSet(capiminor_list')
    BY DEF Live
  <2> QED
    BY <1>1, <1>2, <2>1, FreedList DEF Steep
<1>6. Live \subseteq Structs
  BY <1>1, LiveEntries
<1>7. /\ minorp' \in [Files -> [Nccis -> Structs \cup {Null}]]
      /\ nccip' \in [Structs -> {<<>>} \cup (Files \X Nccis)]
  BY <1>2, <1>3
<1>8. \A g \in Files : \A n \in Nccis :
        minorp'[g][n] = IF g = f /\ n = ncci[f] THEN Null ELSE minorp[g][n]
  BY <1>2, <1>3
<1>9. \A m \in Structs : nccip'[m] = IF m \in M THEN <<>> ELSE nccip[m]
  BY <1>2
<1>10. ASSUME NEW g \in Files, NEW n \in Nccis, minorp'[g][n] # Null
       PROVE  minorp'[g][n] \in Live' /\ nccip'[minorp'[g][n]] = <<g, n>>
  <2>1. ~(g = f /\ n = ncci[f]) /\ minorp'[g][n] = minorp[g][n]
    BY <1>8, <1>10
  <2>2. minorp[g][n] \in Live /\ nccip[minorp[g][n]] = <<g, n>>
    BY <1>1, <1>10, <2>1 DEF Pointers
  <2>3. minorp[g][n] \notin M
    BY <1>4, <2>1, <2>2
  <2> QED
    BY <1>5, <1>6, <1>9, <2>1, <2>2, <2>3
<1>11. ASSUME NEW g \in Files, NEW n \in Nccis, NEW m \in Live', nccip'[m] = <<g, n>>
       PROVE  minorp'[g][n] = m
  <2>1. <<g, n>> # <<>>
    OBVIOUS
  <2>2. m \in Live /\ m \in Structs /\ m \notin M /\ nccip[m] = <<g, n>>
    BY <1>5, <1>6, <1>9, <1>11, <2>1
  <2> QED
    BY <1>4, <1>8, <2>2
<1>12. Pointers'
  BY <1>10, <1>11 DEF Pointers
<1>13. \A m \in Structs : m \in M \ HungUp(M) => ~(ttyopencount[m] > 0)
  BY DEF HungUp
<1>14. NoMinorLeaks'
  <2>1. ASSUME NEW m \in Live', nccip'[m] = <<>> PROVE ttyopencount'[m] > 0
    <3>1. m \in Live /\ m \in Structs /\ (m \in M => m \in HungUp(M))
      BY <1>5, <1>6
    <3>2. CASE m \in M
      BY <1>2, <3>1, <3>2 DEF HungUp
    <3>3. CASE m \notin M
      BY <1>1, <1>2, <1>9, <2>1, <3>1, <3>3 DEF NoMinorLeaks
    <3> QED
      BY <3>2, <3>3
  <2> QED
    BY <2>1 DEF NoMinorLeaks
<1>15. TtysHaveMinors'
  BY <1>1, <1>2, <1>5, <1>13 DEF TtysHaveMinors
<1>16. OpenTwice'
  BY <1>1, <1>2 DEF OpenTwice
<1> QED
  BY <1>2, <1>5, <1>7, <1>8, <1>12, <1>14, <1>15, <1>16

(* A new minor gets the number of the gap, and the list stays steep. *)
LEMMA CapiminorAlloc ==
  ASSUME TypeOK, Steep, NEW m \in Structs, NEW f \in Files, NEW n \in Nccis,
         capiminor_alloc(m, f, n)
  PROVE  /\ capiminor_list' \in Seq(Structs)
         /\ Live' = Live \cup {m} /\ m \notin Live
         /\ minor' \in [Structs -> 0 .. TtyMinors - 1]
         /\ Steep'
         /\ \A k \in 0 .. minor'[m] - 1 : \E l \in Live : minor[l] = k
<1> DEFINE len == Len(capiminor_list)
           Number(j) == minor[capiminor_list[j]]
           t == InsertAt(capiminor_list, Gap, m)
<1>1. /\ len \in Nat /\ Live \subseteq Structs
      /\ Live = {capiminor_list[j] : j \in 1 .. len}
      /\ \A j \in 1 .. len : capiminor_list[j] \in Structs /\ Number(j) \in Nat
  BY LiveEntries
<1>2. /\ Gap \in 1 .. len + 1
      /\ \A j \in 1 .. Gap - 1 : Number(j) = j - 1
      /\ \A j \in Gap .. len : Number(j) >= j
  BY GapIsFirst
<1>3. \A j, k \in 1 .. len : j <= k => Number(j) + (k - j) <= Number(k)
  BY DEF Steep
<1>4. capiminor_list \in Seq(Structs) /\ minor \in [Structs -> 0 .. TtyMinors - 1]
  BY DEF TypeOK
<1>5. /\ capiminor_list' = t /\ m \notin Live
      /\ minor' = [minor EXCEPT ![m] = Gap - 1]
      /\ Gap - 1 < TtyMinors
  BY DEF capiminor_alloc, Unused, Room
<1>6. /\ t \in Seq(Structs) /\ Len(t) = len + 1
      /\ \A j \in 1 .. Len(t) :
           t[j] = IF j < Gap THEN capiminor_list[j]
                  ELSE IF j = Gap THEN m ELSE capiminor_list[j - 1]
  <2>1. capiminor_list \in Seq(Structs) /\ Gap \in 1 .. Len(capiminor_list) + 1
    BY <1>2, <1>4
  <2>2. t = InsertAt(capiminor_list, Gap, m)
    OBVIOUS
  <2> HIDE DEF t, Number
  <2>3. m \in Structs
    OBVIOUS
  <2> QED
    BY ONLY <2>1, <2>2, <2>3, InsertEntries, SMTT(60)
<1>7. ToSet(t) = Live \cup {m}
  BY <1>2, <1>4, InsertMembers DEF Live
<1> HIDE DEF t, len
<1>8. capiminor_list' \in Seq(Structs) /\ Live' = Live \cup {m}
  BY <1>5, <1>6, <1>7 DEF Live
<1>9. Gap - 1 \in 0 .. TtyMinors - 1
  BY <1>1, <1>2, <1>5, Capi20Assumption
<1>10. minor' \in [Structs -> 0 .. TtyMinors - 1] /\ minor'[m] = Gap - 1
  BY <1>4, <1>5, <1>9
<1>11. \A l \in Structs : l # m => minor'[l] = minor[l]
  BY <1>4, <1>5
<1>12. \A j \in 1 .. len : capiminor_list[j] # m
  BY <1>1, <1>5
<1>13. ASSUME NEW j \in 1 .. len + 1
       PROVE  /\ j <= Gap => minor'[t[j]] = j - 1
              /\ j > Gap => j - 1 \in Gap .. len /\ minor'[t[j]] = Number(j - 1)
  <2>1. CASE j < Gap
    <3>1. j \in 1 .. len /\ j \in 1 .. Gap - 1
      BY <1>1, <1>2, <2>1
    <3>2. t[j] = capiminor_list[j]
      BY <1>6, <2>1
    <3> QED
      BY <1>1, <1>2, <1>11, <1>12, <2>1, <3>1, <3>2
  <2>2. CASE j = Gap
    <3>1. t[j] = m
      BY <1>6, <2>2
    <3> QED
      BY <1>1, <1>2, <1>10, <2>2, <3>1
  <2>3. CASE j > Gap
    <3>1. j - 1 \in 1 .. len /\ j - 1 \in Gap .. len /\ ~(j < Gap) /\ j # Gap
      BY <1>1, <1>2, <2>3
    <3>2. t[j] = capiminor_list[j - 1]
      BY <1>6, <3>1
    <3> QED
      BY <1>1, <1>2, <1>11, <1>12, <2>3, <3>1, <3>2
  <2> QED
    BY <1>1, <1>2, <2>1, <2>2, <2>3
<1> HIDE DEF Number
<1>14. ASSUME NEW j \in 1 .. len + 1, NEW k \in 1 .. len + 1, j <= k
       PROVE  minor'[t[j]] + (k - j) <= minor'[t[k]]
  <2>1. CASE k <= Gap
    <3>1. j <= Gap /\ minor'[t[j]] = j - 1 /\ minor'[t[k]] = k - 1
      BY <1>1, <1>2, <1>13, <1>14, <2>1
    <3> QED
      BY <1>1, <3>1
  <2>2. CASE k > Gap /\ j <= Gap
    <3>1. minor'[t[j]] = j - 1 /\ minor'[t[k]] = Number(k - 1) /\ k - 1 \in Gap .. len
      BY <1>13, <2>2
    <3>2. Number(k - 1) >= k - 1
      BY <1>2, <3>1
    <3>3. Number(k - 1) \in Nat
      BY <1>1, <1>2, <3>1 DEF Number
    <3> QED
      BY <1>1, <3>1, <3>2, <3>3
  <2>3. CASE k > Gap /\ j > Gap
    <3>1. /\ minor'[t[j]] = Number(j - 1) /\ j - 1 \in Gap .. len
          /\ minor'[t[k]] = Number(k - 1) /\ k - 1 \in Gap .. len
      BY <1>13, <2>3
    <3>2. j - 1 \in 1 .. len /\ k - 1 \in 1 .. len /\ j - 1 <= k - 1 /\ (k - 1) - (j - 1) = k - j
      BY <1>1, <1>2, <1>14, <3>1
    <3>3. Number(j - 1) + ((k - 1) - (j - 1)) <= Number(k - 1)
      BY <1>3, <3>2 DEF Number
    <3> QED
      BY <3>1, <3>2, <3>3
  <2> QED
    BY <1>1, <1>2, <2>1, <2>2, <2>3
<1>15. Steep'
  BY <1>5, <1>6, <1>14 DEF Steep
<1>16. ASSUME NEW k \in 0 .. minor'[m] - 1 PROVE \E l \in Live : minor[l] = k
  <2>1. k + 1 \in 1 .. Gap - 1 /\ k + 1 \in 1 .. len /\ (k + 1) - 1 = k
    BY <1>1, <1>2, <1>10
  <2>2. Number(k + 1) = k
    BY <1>2, <2>1 DEF Number
  <2> QED
    BY <1>1, <2>1, <2>2 DEF Number
<1> QED
  BY <1>5, <1>8, <1>10, <1>15, <1>16

(* An NCCI that has no minor gets one. *)
LEMMA GivenMinor ==
  ASSUME Capi20Inv, NEW f \in Files, NEW n \in Nccis, minorp[f][n] = Null,
         NEW m \in Structs, capiminor_alloc(m, f, n),
         minorp' = [minorp EXCEPT ![f][n] = m]
  PROVE  /\ minorp' \in [Files -> [Nccis -> Structs \cup {Null}]]
         /\ \A g \in Files : \A k \in Nccis :
              minorp'[g][k] = IF g = f /\ k = n THEN m ELSE minorp[g][k]
         /\ nccip' \in [Structs -> {<<>>} \cup (Files \X Nccis)]
         /\ capiminor_list' \in Seq(Structs)
         /\ minor' \in [Structs -> 0 .. TtyMinors - 1]
         /\ ttyopencount' \in [Structs -> 0 .. MaxOpens]
         /\ twice' \subseteq Structs
         /\ Pointers' /\ NoMinorLeaks' /\ TtysHaveMinors' /\ OpenTwice' /\ Steep'
<1>1. TypeOK /\ Steep /\ Pointers /\ NoMinorLeaks /\ TtysHaveMinors /\ OpenTwice
  BY DEF Capi20Inv
<1>2. /\ capiminor_list' \in Seq(Structs)
      /\ Live' = Live \cup {m} /\ m \notin Live
      /\ minor' \in [Structs -> 0 .. TtyMinors - 1]
      /\ Steep'
  BY <1>1, CapiminorAlloc
<1>3. /\ nccip' = [nccip EXCEPT ![m] = <<f, n>>]
      /\ ttyopencount' = [ttyopencount EXCEPT ![m] = 0]
      /\ twice' = twice \ {m}
  BY DEF capiminor_alloc
<1>4. /\ nccip \in [Structs -> {<<>>} \cup (Files \X Nccis)]
      /\ minorp \in [Files -> [Nccis -> Structs \cup {Null}]]
      /\ ttyopencount \in [Structs -> 0 .. MaxOpens] /\ MaxOpens \in Nat
      /\ twice \subseteq Structs
  BY <1>1, Capi20Assumption DEF TypeOK
<1>5. /\ nccip' \in [Structs -> {<<>>} \cup (Files \X Nccis)]
      /\ ttyopencount' \in [Structs -> 0 .. MaxOpens]
      /\ twice' \subseteq Structs
      /\ minorp' \in [Files -> [Nccis -> Structs \cup {Null}]]
  BY <1>3, <1>4
<1>6. \A g \in Files : \A k \in Nccis :
        minorp'[g][k] = IF g = f /\ k = n THEN m ELSE minorp[g][k]
  BY <1>4
<1>7. \A l \in Structs : /\ nccip'[l] = IF l = m THEN <<f, n>> ELSE nccip[l]
                         /\ ttyopencount'[l] = IF l = m THEN 0 ELSE ttyopencount[l]
  BY <1>3, <1>4
<1>8. Live \subseteq Structs
  BY <1>1, LiveEntries
<1>9. ASSUME NEW g \in Files, NEW k \in Nccis, minorp'[g][k] # Null
      PROVE  minorp'[g][k] \in Live' /\ nccip'[minorp'[g][k]] = <<g, k>>
  <2>1. CASE g = f /\ k = n
    BY <1>2, <1>6, <1>7, <2>1
  <2>2. CASE ~(g = f /\ k = n)
    <3>1. minorp'[g][k] = minorp[g][k]
      BY <1>6, <2>2
    <3>2. minorp[g][k] \in Live /\ nccip[minorp[g][k]] = <<g, k>>
      BY <1>1, <1>9, <3>1 DEF Pointers
    <3> QED
      BY <1>2, <1>7, <1>8, <3>1, <3>2
  <2> QED
    BY <2>1, <2>2
<1>10. ASSUME NEW g \in Files, NEW k \in Nccis, NEW l \in Live', nccip'[l] = <<g, k>>
       PROVE  minorp'[g][k] = l
  <2>1. CASE l = m
    <3>1. <<g, k>> = <<f, n>>
      BY <1>7, <1>10, <2>1
    <3> QED
      BY <1>6, <2>1, <3>1
  <2>2. CASE l # m
    <3>1. l \in Live /\ l \in Structs /\ nccip[l] = <<g, k>>
      BY <1>2, <1>7, <1>8, <1>10, <2>2
    <3>2. minorp[g][k] = l
      BY <1>1, <3>1 DEF Pointers
    <3>3. l # Null
      BY <3>1, Capi20Assumption
    <3> QED
      BY <1>6, <3>2, <3>3
  <2> QED
    BY <2>1, <2>2
<1>11. Pointers'
  BY <1>9, <1>10 DEF Pointers
<1>12. NoMinorLeaks'
  <2>1. <<f, n>> # <<>>
    OBVIOUS
  <2> QED
    BY <1>1, <1>2, <1>7, <1>8, <2>1 DEF NoMinorLeaks
<1>13. TtysHaveMinors' /\ OpenTwice'
  BY <1>1, <1>2, <1>3, <1>7 DEF TtysHaveMinors, OpenTwice
<1> QED
  BY <1>2, <1>5, <1>6, <1>11, <1>12, <1>13

-------------------------------------------------------------------------------
(* A step of one file leaves the others alone. *)
LEMMA FileStep ==
  ASSUME FilesInv, NEW f \in Files, FileInv(f)',
         \A g \in Files \ {f} :
           /\ pc'[g] = pc[g] /\ ncci'[g] = ncci[g]
           /\ nccis'[g] = nccis[g] /\ connected'[g] = connected[g]
           /\ \A n \in Nccis : minorp'[g][n] = minorp[g][n]
  PROVE  FilesInv'
<1>1. ASSUME NEW g \in Files, g # f PROVE FileInv(g)'
  BY <1>1 DEF FilesInv, FileInv, InHand
<1> QED
  BY <1>1 DEF FilesInv

LEMMA Capi20InvNext == Capi20Inv /\ [Next]_vars => Capi20Inv'
<1>. SUFFICES ASSUME Capi20Inv, [Next]_vars PROVE Capi20Inv'
  OBVIOUS
<1>1. /\ TypeOK /\ FilesInv /\ Pointers
      /\ NoMinorLeaks /\ TtysHaveMinors /\ OpenTwice /\ Steep
  BY DEF Capi20Inv
<1>2. /\ pc \in [Files -> Places]
      /\ ncci \in [Files -> Nccis \cup {Null}]
      /\ id \subseteq Files /\ highjacking \subseteq Files
      /\ connected \in [Files -> SUBSET Nccis]
      /\ nccis \in [Files -> SUBSET Nccis]
      /\ minorp \in [Files -> [Nccis -> Structs \cup {Null}]]
      /\ minor \in [Structs -> 0 .. TtyMinors - 1]
      /\ ttyopencount \in [Structs -> 0 .. MaxOpens] /\ MaxOpens \in Nat
      /\ twice \subseteq Structs
      /\ Live \subseteq Structs
  BY <1>1, LiveEntries, Capi20Assumption DEF TypeOK
(* Steps that leave minors alone. *)
<1>3. ASSUME UNCHANGED <<minorp, minors>>, FilesInv',
             pc' \in [Files -> Places], ncci' \in [Files -> Nccis \cup {Null}],
             id' \subseteq Files, highjacking' \subseteq Files,
             connected' \in [Files -> SUBSET Nccis], nccis' \in [Files -> SUBSET Nccis]
      PROVE  Capi20Inv'
  <2>1. /\ UNCHANGED <<minorp, capiminor_list, minor, nccip, ttyopencount, twice>>
        /\ Live' = Live
    BY <1>3 DEF minors, Live
  <2>2. TypeOK'
    BY <1>1, <1>3, <2>1 DEF TypeOK
  <2>3. Pointers' /\ OpenTwice' /\ Steep'
    BY <1>1, <2>1 DEF Pointers, OpenTwice, Steep
  <2>4. NoMinorLeaks' /\ TtysHaveMinors'
    BY <1>1, <2>1 DEF NoMinorLeaks, TtysHaveMinors
  <2> QED
    BY <1>3, <2>2, <2>3, <2>4 DEF Capi20Inv
<1>4. ASSUME NEW f \in Files, capi_open(f) PROVE Capi20Inv'
  <2>1. pc[f] = "closed" /\ pc' = [pc EXCEPT ![f] = "open"]
        /\ UNCHANGED <<ncci, id, highjacking, connected, nccis, minorp, minors>>
    BY <1>4 DEF capi_open, Goto
  <2>2. FileInv(f)'
    BY <1>1, <1>2, <2>1 DEF FilesInv, FileInv, InHand
  <2>3. FilesInv'
    BY <1>1, <1>2, <2>1, <2>2, FileStep
  <2> QED
    BY <1>2, <1>3, <2>1, <2>3 DEF Places
<1>5. ASSUME NEW f \in Files, capi_ioctl_register(f) PROVE Capi20Inv'
  <2>1. id' = id \cup {f}
        /\ UNCHANGED <<pc, ncci, highjacking, connected, nccis, minorp, minors>>
    BY <1>5 DEF capi_ioctl_register
  <2>2. FilesInv'
    BY <1>1, <2>1 DEF FilesInv, FileInv, InHand
  <2> QED
    BY <1>2, <1>3, <2>1, <2>2
<1>6. ASSUME NEW f \in Files, capi_ioctl_flags(f) PROVE Capi20Inv'
  <2>1. highjacking' \subseteq Files
        /\ UNCHANGED <<pc, ncci, id, connected, nccis, minorp, minors>>
    BY <1>2, <1>6 DEF capi_ioctl_flags
  <2>2. FilesInv'
    BY <1>1, <2>1 DEF FilesInv, FileInv, InHand
  <2> QED
    BY <1>2, <1>3, <2>1, <2>2
<1>7. ASSUME NEW f \in Files, NEW n \in Nccis, capi_recv_connect(f, n) PROVE Capi20Inv'
  <2>1. /\ n \notin connected[f] /\ pc[f] = "open" /\ pc' = [pc EXCEPT ![f] = "ncci"]
        /\ ncci' = [ncci EXCEPT ![f] = n]
        /\ connected' = [connected EXCEPT ![f] = @ \cup {n}]
        /\ UNCHANGED <<id, highjacking, nccis, minorp, minors>>
    BY <1>7 DEF capi_recv_connect, Goto
  <2>2. FileInv(f)'
    BY <1>1, <1>2, <2>1 DEF FilesInv, FileInv, InHand
  <2>3. FilesInv'
    BY <1>1, <1>2, <2>1, <2>2, FileStep
  <2>4. /\ pc' \in [Files -> Places] /\ ncci' \in [Files -> Nccis \cup {Null}]
        /\ connected' \in [Files -> SUBSET Nccis]
    BY <1>2, <2>1 DEF Places
  <2> QED
    BY <1>2, <1>3, <2>1, <2>3, <2>4
(* The NCCI that was being added is linked. *)
<1>8. ASSUME NEW f \in Files, pc[f] \in {"ncci", "minor", "capifs"}, Linked(f),
             pc' = [pc EXCEPT ![f] = "open"],
             UNCHANGED <<id, highjacking, connected, minorp, minors>>
      PROVE  Capi20Inv'
  <2>1. /\ nccis' = [nccis EXCEPT ![f] = @ \cup {ncci[f]}]
        /\ ncci' = [ncci EXCEPT ![f] = Null]
    BY <1>8 DEF Linked
  <2>2. FileInv(f) /\ ncci[f] \in connected[f] /\ ncci[f] \in Nccis
    BY <1>1, <1>2, <1>8 DEF FilesInv, FileInv
  <2>3. FileInv(f)'
    BY <1>2, <1>8, <2>1, <2>2 DEF FileInv, InHand
  <2>4. FilesInv'
    BY <1>1, <1>2, <1>8, <2>1, <2>3, FileStep
  <2>5. /\ pc' \in [Files -> Places] /\ ncci' \in [Files -> Nccis \cup {Null}]
        /\ nccis' \in [Files -> SUBSET Nccis]
    BY <1>2, <1>8, <2>1, <2>2 DEF Places
  <2> QED
    BY <1>2, <1>3, <1>8, <2>4, <2>5
<1>9. ASSUME NEW f \in Files, capincci_alloc(f) PROVE Capi20Inv'
  <2>1. UNCHANGED <<id, highjacking, connected, minorp, minors>>
    BY <1>9 DEF capincci_alloc
  <2>2. CASE Goto(f, "ncci", "open") /\ ncci' = [ncci EXCEPT ![f] = Null] /\ UNCHANGED nccis
    <3>1. pc[f] = "ncci" /\ pc' = [pc EXCEPT ![f] = "open"]
      BY <2>2 DEF Goto
    <3>2. FileInv(f)'
      BY <1>1, <1>2, <2>1, <2>2, <3>1 DEF FilesInv, FileInv, InHand
    <3>3. FilesInv'
      BY <1>1, <1>2, <2>1, <2>2, <3>1, <3>2, FileStep
    <3> QED
      BY <1>2, <1>3, <2>1, <2>2, <3>1, <3>3 DEF Places
  <2>3. CASE Goto(f, "ncci", "open") /\ Linked(f)
    BY <1>8, <2>1, <2>3 DEF Goto
  <2>4. CASE Goto(f, "ncci", "minor") /\ UNCHANGED <<ncci, nccis>>
    <3>1. pc[f] = "ncci" /\ pc' = [pc EXCEPT ![f] = "minor"]
      BY <2>4 DEF Goto
    <3>2. FileInv(f)'
      BY <1>1, <1>2, <2>1, <2>4, <3>1 DEF FilesInv, FileInv, InHand
    <3>3. FilesInv'
      BY <1>1, <1>2, <2>1, <2>4, <3>1, <3>2, FileStep
    <3> QED
      BY <1>2, <1>3, <2>1, <2>4, <3>1, <3>3 DEF Places
  <2> QED
    BY <1>9, <2>2, <2>3, <2>4 DEF capincci_alloc
<1>10. ASSUME NEW f \in Files, capincci_alloc_minor(f) PROVE Capi20Inv'
  <2>1. UNCHANGED <<id, highjacking, connected>>
    BY <1>10 DEF capincci_alloc_minor
  <2>2. CASE Goto(f, "minor", "open") /\ Linked(f) /\ UNCHANGED <<minorp, minors>>
    BY <1>8, <2>1, <2>2 DEF Goto
  <2>3. CASE /\ Goto(f, "minor", "capifs")
             /\ \E m \in Structs :
                  /\ capiminor_alloc(m, f, ncci[f])
                  /\ minorp' = [minorp EXCEPT ![f][ncci[f]] = m]
             /\ UNCHANGED <<ncci, nccis>>
    <3>1. /\ pc[f] = "minor" /\ pc' = [pc EXCEPT ![f] = "capifs"]
          /\ ncci' = ncci /\ nccis' = nccis
      BY <2>3 DEF Goto
    <3>2. PICK m \in Structs : /\ capiminor_alloc(m, f, ncci[f])
                               /\ minorp' = [minorp EXCEPT ![f][ncci[f]] = m]
      BY <2>3
    <3>3. /\ FileInv(f) /\ ncci[f] \in connected[f] \ nccis[f] /\ ncci[f] \in Nccis
          /\ minorp[f][ncci[f]] = Null
      BY <1>1, <1>2, <3>1 DEF FilesInv, FileInv, InHand
    <3>4. /\ minorp' \in [Files -> [Nccis -> Structs \cup {Null}]]
          /\ \A g \in Files : \A k \in Nccis :
               minorp'[g][k] = IF g = f /\ k = ncci[f] THEN m ELSE minorp[g][k]
          /\ nccip' \in [Structs -> {<<>>} \cup (Files \X Nccis)]
          /\ capiminor_list' \in Seq(Structs)
          /\ minor' \in [Structs -> 0 .. TtyMinors - 1]
          /\ ttyopencount' \in [Structs -> 0 .. MaxOpens]
          /\ twice' \subseteq Structs
          /\ Pointers' /\ NoMinorLeaks' /\ TtysHaveMinors' /\ OpenTwice' /\ Steep'
      BY <3>2, <3>3, GivenMinor
    <3>5. FileInv(f)'
      BY <1>2, <2>1, <3>1, <3>3, <3>4 DEF FileInv, InHand
    <3>6. FilesInv'
      BY <1>1, <1>2, <2>1, <3>1, <3>4, <3>5, FileStep
    <3>7. TypeOK'
      BY <1>2, <2>1, <3>1, <3>4 DEF TypeOK, Places
    <3> QED
      BY <3>4, <3>6, <3>7 DEF Capi20Inv
  <2> QED
    BY <1>10, <2>2, <2>3 DEF capincci_alloc_minor
<1>11. ASSUME NEW f \in Files, capincci_alloc_link(f) PROVE Capi20Inv'
  BY <1>8, <1>11 DEF capincci_alloc_link, Goto
<1>12. ASSUME NEW f \in Files, capi_frelease(f) PROVE Capi20Inv'
  <2>1. /\ pc[f] = "open" /\ pc' = [pc EXCEPT ![f] = "release"] /\ id' = id \ {f}
        /\ UNCHANGED <<ncci, highjacking, connected, nccis, minorp, minors>>
    BY <1>12 DEF capi_frelease, Goto
  <2>2. FileInv(f)'
    BY <1>1, <1>2, <2>1 DEF FilesInv, FileInv, InHand
  <2>3. FilesInv'
    BY <1>1, <1>2, <2>1, <2>2, FileStep
  <2> QED
    BY <1>2, <1>3, <2>1, <2>3 DEF Places
<1>13. ASSUME NEW f \in Files, NEW n \in Nccis, capi_write_disconnect(f, n) PROVE Capi20Inv'
  <2>1. pc[f] = "open" /\ UNCHANGED <<id, highjacking, minorp, minors>>
    BY <1>13 DEF capi_write_disconnect
  <2>2. CASE n \in HasMinor(f) /\ Goto(f, "open", "disconnect") /\ Unlink(f, n)
             /\ UNCHANGED connected
    <3>1. /\ pc' = [pc EXCEPT ![f] = "disconnect"] /\ ncci' = [ncci EXCEPT ![f] = n]
          /\ nccis' = [nccis EXCEPT ![f] = @ \ {n}] /\ connected' = connected
      BY <2>2 DEF Goto, Unlink
    <3>2. FileInv(f)'
      BY <1>1, <1>2, <2>1, <3>1 DEF FilesInv, FileInv, InHand
    <3>3. FilesInv'
      BY <1>1, <1>2, <2>1, <3>1, <3>2, FileStep
    <3>4. /\ pc' \in [Files -> Places] /\ ncci' \in [Files -> Nccis \cup {Null}]
          /\ nccis' \in [Files -> SUBSET Nccis]
      BY <1>2, <3>1 DEF Places
    <3> QED
      BY <1>2, <1>3, <2>1, <3>1, <3>3, <3>4
  <2>3. CASE /\ n \notin HasMinor(f) /\ nccis' = [nccis EXCEPT ![f] = @ \ {n}]
             /\ Answered(f, n) /\ UNCHANGED <<pc, ncci>>
    <3>1. /\ connected' \in [Files -> SUBSET Nccis] /\ nccis' \in [Files -> SUBSET Nccis]
          /\ connected[f] \ {n} \subseteq connected'[f] /\ nccis'[f] = nccis[f] \ {n}
          /\ \A g \in Files \ {f} : nccis'[g] = nccis[g] /\ connected'[g] = connected[g]
      BY <1>2, <2>3 DEF Answered
    <3>2. n \in nccis[f] => minorp[f][n] = Null
      BY <2>3 DEF HasMinor
    <3>3. FileInv(f)'
      BY <1>1, <2>1, <2>3, <3>1, <3>2 DEF FilesInv, FileInv, InHand
    <3>4. FilesInv'
      BY <1>1, <2>1, <2>3, <3>1, <3>3, FileStep
    <3> QED
      BY <1>2, <1>3, <2>1, <2>3, <3>1, <3>4
  <2> QED
    BY <1>13, <2>2, <2>3 DEF capi_write_disconnect
(* Steps that free the minor of the NCCI in hand. *)
<1>14. ASSUME NEW f \in Files, ncci[f] \in Nccis, FreeMinor(f), FilesInv', id' = id,
              pc' \in [Files -> Places], ncci' \in [Files -> Nccis \cup {Null}],
              highjacking' \subseteq Files,
              connected' \in [Files -> SUBSET Nccis], nccis' \in [Files -> SUBSET Nccis]
       PROVE  Capi20Inv'
  <2>1. /\ minorp' \in [Files -> [Nccis -> Structs \cup {Null}]]
        /\ nccip' \in [Structs -> {<<>>} \cup (Files \X Nccis)]
        /\ capiminor_list' \in Seq(Structs)
        /\ UNCHANGED <<minor, ttyopencount, twice>>
        /\ Pointers' /\ NoMinorLeaks' /\ TtysHaveMinors' /\ OpenTwice' /\ Steep'
    BY <1>14, FreedMinor
  <2>2. TypeOK'
    BY <1>2, <1>14, <2>1 DEF TypeOK
  <2> QED
    BY <1>14, <2>1, <2>2 DEF Capi20Inv
<1>15. ASSUME NEW f \in Files, capi_write_free(f) PROVE Capi20Inv'
  <2>1. /\ pc[f] = "disconnect" /\ pc' = [pc EXCEPT ![f] = "open"] /\ FreeMinor(f)
        /\ ncci' = [ncci EXCEPT ![f] = Null] /\ Answered(f, ncci[f])
        /\ UNCHANGED <<id, highjacking, nccis>>
    BY <1>15 DEF capi_write_free, Goto
  <2>2. /\ ncci[f] \in Nccis /\ FileInv(f) /\ InHand(f) = {ncci[f]}
    BY <1>1, <2>1 DEF FilesInv, FileInv, InHand
  <2>3. \A g \in Files : \A n \in Nccis :
          minorp'[g][n] = IF g = f /\ n = ncci[f] THEN Null ELSE minorp[g][n]
    BY <2>1, <2>2, FreedMinor
  <2>4. /\ connected' \in [Files -> SUBSET Nccis]
        /\ connected[f] \ {ncci[f]} \subseteq connected'[f]
        /\ \A g \in Files \ {f} : connected'[g] = connected[g]
    BY <1>2, <2>1 DEF Answered
  <2>5. /\ pc' \in [Files -> Places] /\ ncci' \in [Files -> Nccis \cup {Null}]
        /\ pc'[f] = "open"
    BY <1>2, <2>1 DEF Places
  <2>6. ncci[f] \notin nccis[f] /\ nccis[f] \subseteq connected'[f]
    BY <2>1, <2>2, <2>4 DEF FileInv
  <2>7. FileInv(f)'
    BY <2>1, <2>2, <2>3, <2>5, <2>6 DEF FileInv, InHand
  <2>8. FilesInv'
    BY <1>1, <1>2, <2>1, <2>3, <2>4, <2>7, FileStep
  <2> QED
    BY <1>2, <1>14, <2>1, <2>2, <2>4, <2>5, <2>8
(* The loop of the last close. *)
<1>16. ASSUME NEW f \in Files, pc[f] \in {"release", "purge"}, FreeRest(f),
              \A g \in Files \ {f} : \A n \in Nccis : minorp'[g][n] = minorp[g][n],
              \A n \in Nccis : minorp'[f][n] # Null =>
                                n \in nccis[f] /\ minorp'[f][n] = minorp[f][n]
       PROVE  /\ FilesInv' /\ highjacking' \subseteq Files
              /\ pc' \in [Files -> Places] /\ ncci' \in [Files -> Nccis \cup {Null}]
              /\ connected' \in [Files -> SUBSET Nccis]
              /\ nccis' \in [Files -> SUBSET Nccis]
  <2>1. CASE /\ HasMinor(f) = {}
             /\ pc' = [pc EXCEPT ![f] = "closed"]
             /\ nccis' = [nccis EXCEPT ![f] = {}]
             /\ ncci' = [ncci EXCEPT ![f] = Null]
             /\ connected' = [connected EXCEPT ![f] = {}]
             /\ highjacking' = highjacking \ {f}
    <3>1. \A n \in Nccis : minorp'[f][n] = Null
      BY <1>16, <2>1 DEF HasMinor
    <3>2. FileInv(f)'
      BY <1>2, <2>1, <3>1 DEF FileInv, InHand
    <3>3. FilesInv'
      BY <1>1, <1>2, <1>16, <2>1, <3>2, FileStep
    <3> QED
      BY <1>2, <2>1, <3>3 DEF Places
  <2>2. CASE /\ \E n \in HasMinor(f) : Unlink(f, n)
             /\ pc' = [pc EXCEPT ![f] = "purge"]
             /\ UNCHANGED <<connected, highjacking>>
    <3>1. PICK n \in nccis[f] : /\ nccis' = [nccis EXCEPT ![f] = @ \ {n}]
                                /\ ncci' = [ncci EXCEPT ![f] = n]
      BY <2>2 DEF HasMinor, Unlink
    <3>2. n \in Nccis /\ nccis[f] \subseteq connected[f]
      BY <1>1, <1>2 DEF FilesInv, FileInv
    <3>3. /\ pc' \in [Files -> Places] /\ ncci' \in [Files -> Nccis \cup {Null}]
          /\ nccis' \in [Files -> SUBSET Nccis]
          /\ pc'[f] = "purge" /\ ncci'[f] = n /\ nccis'[f] = nccis[f] \ {n}
      BY <1>2, <2>2, <3>1, <3>2 DEF Places
    <3>4. FileInv(f)'
      BY <1>16, <2>2, <3>2, <3>3 DEF FileInv, InHand
    <3>5. FilesInv'
      BY <1>1, <1>2, <1>16, <2>2, <3>1, <3>4, FileStep
    <3> QED
      BY <1>2, <2>2, <3>3, <3>5
  <2> QED
    BY <1>16, <2>1, <2>2 DEF FreeRest
<1>17. ASSUME NEW f \in Files, capidev_free(f) PROVE Capi20Inv'
  <2>1. pc[f] = "release" /\ FreeRest(f) /\ UNCHANGED <<id, minorp, minors>>
    BY <1>17 DEF capidev_free
  <2>2. \A n \in Nccis : minorp[f][n] # Null => n \in nccis[f]
    BY <1>1, <2>1 DEF FilesInv, FileInv, InHand
  <2>3. /\ FilesInv' /\ highjacking' \subseteq Files
        /\ pc' \in [Files -> Places] /\ ncci' \in [Files -> Nccis \cup {Null}]
        /\ connected' \in [Files -> SUBSET Nccis] /\ nccis' \in [Files -> SUBSET Nccis]
    BY <1>16, <2>1, <2>2
  <2> QED
    BY <1>2, <1>3, <2>1, <2>3
<1>18. ASSUME NEW f \in Files, capidev_free_minor(f) PROVE Capi20Inv'
  <2>1. pc[f] = "purge" /\ FreeMinor(f) /\ FreeRest(f) /\ id' = id
    BY <1>18 DEF capidev_free_minor
  <2>2. ncci[f] \in Nccis /\ FileInv(f) /\ InHand(f) = {ncci[f]}
    BY <1>1, <2>1 DEF FilesInv, FileInv, InHand
  <2>3. \A g \in Files : \A n \in Nccis :
          minorp'[g][n] = IF g = f /\ n = ncci[f] THEN Null ELSE minorp[g][n]
    BY <2>1, <2>2, FreedMinor
  <2>4. \A n \in Nccis : minorp'[f][n] # Null =>
                            n \in nccis[f] /\ minorp'[f][n] = minorp[f][n]
    BY <2>2, <2>3 DEF FileInv
  <2>5. /\ FilesInv' /\ highjacking' \subseteq Files
        /\ pc' \in [Files -> Places] /\ ncci' \in [Files -> Nccis \cup {Null}]
        /\ connected' \in [Files -> SUBSET Nccis] /\ nccis' \in [Files -> SUBSET Nccis]
    BY <1>16, <2>1, <2>3, <2>4
  <2> QED
    BY <1>14, <2>1, <2>2, <2>5
<1>19. ASSUME NEW m \in Structs, capinc_tty_open(m) PROVE Capi20Inv'
  <2>1. /\ m \in Live /\ ttyopencount[m] < MaxOpens
        /\ ttyopencount' = [ttyopencount EXCEPT ![m] = @ + 1]
        /\ twice' = IF ttyopencount[m] > 0 THEN twice \cup {m} ELSE twice
        /\ UNCHANGED <<pc, ncci, id, highjacking, connected, nccis, minorp>>
        /\ UNCHANGED <<capiminor_list, minor, nccip>> /\ Live' = Live
    BY <1>19 DEF capinc_tty_open, files, Live
  <2>2. /\ \A l \in Structs : /\ l # m => ttyopencount'[l] = ttyopencount[l]
                              /\ ttyopencount[l] \in Nat
        /\ ttyopencount'[m] = ttyopencount[m] + 1
        /\ ttyopencount' \in [Structs -> 0 .. MaxOpens]
    BY <1>2, <2>1
  <2>3. TypeOK'
    BY <1>1, <1>2, <2>1, <2>2 DEF TypeOK
  <2>4. FilesInv' /\ Steep'
    BY <1>1, <2>1 DEF FilesInv, FileInv, InHand, Steep
  <2>5. Pointers'
    BY <1>1, <2>1 DEF Pointers
  <2>6. NoMinorLeaks'
    BY <1>1, <1>2, <2>1, <2>2 DEF NoMinorLeaks
  <2>7. TtysHaveMinors' /\ OpenTwice'
    BY <1>1, <2>1, <2>2 DEF TtysHaveMinors, OpenTwice
  <2> QED
    BY <2>3, <2>4, <2>5, <2>6, <2>7 DEF Capi20Inv
<1>20. ASSUME NEW m \in Structs, capinc_tty_close(m) PROVE Capi20Inv'
  <2>1. /\ ttyopencount[m] > 0
        /\ ttyopencount' = [ttyopencount EXCEPT ![m] = @ - 1]
        /\ capiminor_list' = IF nccip[m] = <<>> THEN Freed({m}) ELSE capiminor_list
        /\ UNCHANGED <<pc, ncci, id, highjacking, connected, nccis, minorp>>
        /\ UNCHANGED <<minor, nccip, twice>>
    BY <1>20 DEF capinc_tty_close, FreedByClose, files
  <2>2. /\ \A l \in Structs : /\ l # m => ttyopencount'[l] = ttyopencount[l]
                              /\ ttyopencount[l] \in Nat
        /\ ttyopencount'[m] = ttyopencount[m] - 1
        /\ ttyopencount' \in [Structs -> 0 .. MaxOpens]
    BY <1>2, <2>1
  <2>3. /\ capiminor_list' \in Seq(Structs)
        /\ Live' = IF nccip[m] = <<>> THEN Live \ {m} ELSE Live
        /\ Steep'
    <3>1. CASE nccip[m] = <<>>
      <4>1. Live' = ToSet(Freed({m}))
        BY <2>1, <3>1 DEF Live
      <4> QED
        BY <1>1, <2>1, <3>1, <4>1, FreedList DEF Steep
    <3>2. CASE nccip[m] # <<>>
      BY <1>1, <2>1, <3>2 DEF Live, Steep, TypeOK
    <3> QED
      BY <3>1, <3>2
  <2>4. TypeOK'
    BY <1>1, <1>2, <2>1, <2>2, <2>3 DEF TypeOK
  <2>5. FilesInv'
    BY <1>1, <2>1 DEF FilesInv, FileInv, InHand
  <2>6. Pointers'
    <3>1. ASSUME NEW f \in Files, NEW n \in Nccis, minorp[f][n] # Null
          PROVE  minorp[f][n] \in Live' /\ nccip[minorp[f][n]] = <<f, n>>
      <4>1. minorp[f][n] \in Live /\ nccip[minorp[f][n]] = <<f, n>>
        BY <1>1, <3>1 DEF Pointers
      <4>2. <<f, n>> # <<>>
        OBVIOUS
      <4> QED
        BY <2>3, <4>1, <4>2
    <3> QED
      BY <1>1, <2>1, <2>3, <3>1 DEF Pointers
  <2>7. NoMinorLeaks'
    <3>1. ASSUME NEW l \in Live', nccip[l] = <<>> PROVE ttyopencount'[l] > 0
      <4>1. l \in Live /\ l \in Structs /\ l # m
        BY <1>2, <2>3, <3>1
      <4> QED
        BY <1>1, <2>2, <3>1, <4>1 DEF NoMinorLeaks
    <3> QED
      BY <2>1, <3>1 DEF NoMinorLeaks
  <2>8. TtysHaveMinors'
    <3>1. ASSUME NEW l \in Structs, ttyopencount'[l] > 0, l \notin twice PROVE l \in Live'
      <4>1. CASE l = m
        BY <1>1, <2>2, <3>1, <4>1 DEF OpenTwice
      <4>2. CASE l # m
        BY <1>1, <2>2, <2>3, <3>1, <4>2 DEF TtysHaveMinors
      <4> QED
        BY <4>1, <4>2
    <3> QED
      BY <2>1, <3>1 DEF TtysHaveMinors
  <2>9. OpenTwice'
    BY <1>1, <2>1, <2>2 DEF OpenTwice
  <2> QED
    BY <2>3, <2>4, <2>5, <2>6, <2>7, <2>8, <2>9 DEF Capi20Inv
<1>21. CASE UNCHANGED vars
  <2>1. UNCHANGED <<pc, ncci, id, highjacking, connected, nccis, minorp, minors>>
    BY <1>21 DEF vars, files
  <2>2. FilesInv'
    BY <1>1, <2>1 DEF FilesInv, FileInv, InHand
  <2> QED
    BY <1>2, <1>3, <2>1, <2>2
<1> QED
  BY <1>4, <1>5, <1>6, <1>7, <1>9, <1>10, <1>11, <1>12, <1>13, <1>15, <1>17, <1>18,
     <1>19, <1>20, <1>21 DEF Next

LEMMA Capi20InvHolds == Spec => []Capi20Inv
  BY Capi20InvInit, Capi20InvNext, PTL DEF Spec

-------------------------------------------------------------------------------
(* The NCCIs of the open files and the minors point at each other, those   *)
(* included that capincci_alloc or capincci_free has in hand while it      *)
(* sleeps in capifs: a message for an NCCI never reaches the minor of      *)
(* another, and no minor is freed that an NCCI, or one of these two        *)
(* functions, still uses (capincci_alloc, capincci_free, capinc_tty_close).*)
THEOREM Capi20BackPointers == Spec => []BackPointers
<1>1. ASSUME Capi20Inv PROVE BackPointers
  <2>1. TypeOK /\ FilesInv /\ Pointers
    BY <1>1 DEF Capi20Inv
  <2>2. /\ nccis \in [Files -> SUBSET Nccis]
        /\ nccip \in [Structs -> {<<>>} \cup (Files \X Nccis)]
        /\ Live \subseteq Structs /\ Null \notin Structs
    BY <2>1, LiveEntries, Capi20Assumption DEF TypeOK
  <2>3. \A f \in Files : nccis[f] \cup InHand(f) \subseteq Nccis
    BY <2>1, <2>2 DEF FilesInv, FileInv, InHand, TypeOK
  <2>4. ASSUME NEW f \in Files, NEW n \in nccis[f] \cup InHand(f), minorp[f][n] # Null
        PROVE  minorp[f][n] \in Live /\ nccip[minorp[f][n]] = <<f, n>>
    BY <2>1, <2>3, <2>4 DEF Pointers
  <2>5. ASSUME NEW m \in Live, nccip[m] # <<>>
        PROVE  /\ nccip[m][2] \in nccis[nccip[m][1]] \cup InHand(nccip[m][1])
               /\ minorp[nccip[m][1]][nccip[m][2]] = m
    <3>1. PICK f \in Files, n \in Nccis : nccip[m] = <<f, n>>
      BY <2>2, <2>5
    <3>2. minorp[f][n] = m /\ m # Null
      BY <2>1, <2>2, <3>1 DEF Pointers
    <3>3. n \in nccis[f] \cup InHand(f)
      BY <2>1, <3>2 DEF FilesInv, FileInv
    <3> QED
      BY <3>1, <3>2, <3>3
  <2> QED
    BY <2>4, <2>5 DEF BackPointers
<1> QED
  BY <1>1, Capi20InvHolds, PTL

(* A minor whose NCCI has ended has a tty, whose close frees it: none is   *)
(* left in the list for good (capincci_free, capinc_tty_close).            *)
THEOREM Capi20NoMinorLeaks == Spec => []NoMinorLeaks
<1>1. Capi20Inv => NoMinorLeaks
  BY DEF Capi20Inv
<1> QED
  BY <1>1, Capi20InvHolds, PTL

(* A tty that has not been open twice at once keeps its minor until it is  *)
(* closed, whatever happens to the NCCI (capincci_free, capinc_tty_close). *)
THEOREM Capi20TtysHaveMinors == Spec => []TtysHaveMinors
<1>1. Capi20Inv => TtysHaveMinors
  BY DEF Capi20Inv
<1> QED
  BY <1>1, Capi20InvHolds, PTL

(* The numbers of the minors are unique, because the list stays sorted     *)
(* (capiminor_alloc, capiminor_free).                                      *)
THEOREM Capi20MinorsSorted == Spec => []MinorsSorted
<1>1. ASSUME Capi20Inv PROVE MinorsSorted
  <2>1. TypeOK /\ Steep
    BY <1>1 DEF Capi20Inv
  <2>2. ASSUME NEW j \in DOMAIN capiminor_list, NEW k \in DOMAIN capiminor_list, j < k
        PROVE  minor[capiminor_list[j]] < minor[capiminor_list[k]]
    <3>1. /\ j \in 1 .. Len(capiminor_list) /\ k \in 1 .. Len(capiminor_list)
          /\ j \in Nat /\ k \in Nat /\ k - j > 0
      BY <2>1, <2>2, LiveEntries
    <3>2. minor[capiminor_list[j]] \in Nat /\ minor[capiminor_list[k]] \in Nat
      BY <2>1, <3>1, LiveEntries
    <3>3. minor[capiminor_list[j]] + (k - j) <= minor[capiminor_list[k]]
      BY <2>1, <3>1 DEF Steep
    <3> QED
      BY <3>1, <3>2, <3>3
  <2> QED
    BY <2>2 DEF MinorsSorted
<1> QED
  BY <1>1, Capi20InvHolds, PTL

(* "Allocate the least unused minor number" (capi.c:266): every smaller    *)
(* number is that of a minor in the list.                                  *)
THEOREM Capi20LeastUnused == Spec => LeastUnused
<1> DEFINE Least == \A m \in Live' \ Live :
                      \A k \in 0 .. minor'[m] - 1 : \E l \in Live : minor[l] = k
<1>1. ASSUME Capi20Inv, [Next]_vars PROVE Least
  <2>1. TypeOK /\ Steep
    BY <1>1 DEF Capi20Inv
  <2>2. UNCHANGED capiminor_list => Least
    BY DEF Live
  <2>3. ASSUME NEW f \in Files, pc[f] \in {"disconnect", "purge"}, FreeMinor(f) PROVE Least
    <3>1. ncci[f] \in Nccis
      BY <1>1, <2>3 DEF Capi20Inv, FilesInv, FileInv
    <3> QED
      BY <1>1, <2>3, <3>1, FreedMinor
  <2>4. ASSUME NEW m \in Structs, capinc_tty_close(m) PROVE Least
    <3>1. CASE nccip[m] = <<>>
      <4>1. Live' = ToSet(Freed({m}))
        BY <2>4, <3>1 DEF Live, capinc_tty_close, FreedByClose
      <4>2. ToSet(Freed({m})) = Live \ {m}
        BY <2>1, FreedList
      <4> QED
        BY <4>1, <4>2
    <3>2. CASE nccip[m] # <<>>
      BY <2>2, <2>4, <3>2 DEF capinc_tty_close, FreedByClose
    <3> QED
      BY <3>1, <3>2
  <2>5. ASSUME NEW f \in Files, capincci_alloc_minor(f) PROVE Least
    <3>1. CASE UNCHANGED minors
      BY <2>2, <3>1 DEF minors
    <3>2. CASE \E m \in Structs : capiminor_alloc(m, f, ncci[f])
      <4>1. PICK m \in Structs : capiminor_alloc(m, f, ncci[f])
        BY <3>2
      <4>2. ncci[f] \in Nccis
        BY <1>1, <2>5 DEF capincci_alloc_minor, Goto, Capi20Inv, FilesInv, FileInv, TypeOK
      <4>3. /\ Live' = Live \cup {m}
            /\ \A k \in 0 .. minor'[m] - 1 : \E l \in Live : minor[l] = k
        BY <2>1, <4>1, <4>2, CapiminorAlloc
      <4> QED
        BY <4>3
    <3> QED
      BY <2>5, <3>1, <3>2 DEF capincci_alloc_minor
  <2>6. \A f \in Files : (capi_open(f) \/ capi_ioctl_register(f) \/ capi_ioctl_flags(f)
                          \/ capincci_alloc(f) \/ capincci_alloc_link(f)
                          \/ capi_frelease(f) \/ capidev_free(f)) => Least
    BY <2>2 DEF capi_open, capi_ioctl_register, capi_ioctl_flags, capincci_alloc,
                capincci_alloc_link, capi_frelease, capidev_free, minors
  <2>7. \A f \in Files, n \in Nccis : capi_recv_connect(f, n) => Least
    BY <2>2 DEF capi_recv_connect, minors
  <2>8. \A f \in Files, n \in Nccis : capi_write_disconnect(f, n) => Least
    BY <2>2 DEF capi_write_disconnect, minors
  <2>9. \A f \in Files : (capi_write_free(f) \/ capidev_free_minor(f)) => Least
    BY <2>3 DEF capi_write_free, capidev_free_minor, Goto
  <2>10. \A m \in Structs : capinc_tty_open(m) => Least
    BY <2>2 DEF capinc_tty_open
  <2>11. UNCHANGED vars => Least
    BY <2>2 DEF vars, minors
  <2> HIDE DEF Least
  <2> QED
    BY <1>1, <2>4, <2>5, <2>6, <2>7, <2>8, <2>9, <2>10, <2>11 DEF Next
<1>2. Spec => [][Least]_vars
  <2>1. Capi20Inv /\ [Next]_vars => [Least]_vars
    BY <1>1
  <2> HIDE DEF Least
  <2> QED
    BY <2>1, Capi20InvHolds, PTL DEF Spec
<1> QED
  BY <1>2 DEF LeastUnused
===============================================================================
