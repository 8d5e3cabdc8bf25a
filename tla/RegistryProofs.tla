---------------------------- MODULE RegistryProofs -----------------------------
(***************************************************************************)
(* The registries: the application list of the capicore, the table that    *)
(* the kernelcapi gives its clients handles from, and the list of its      *)
(* users.  For any number of applications, readers, clients, users and     *)
(* numbers; the list as long as the counter of add_capi_appl can pass the  *)
(* greatest number.                                                        *)
(***************************************************************************)
EXTENDS Registries, ListLemmas

-------------------------------------------------------------------------------
(* The inductive invariant.  The numbers grow at least as fast as the      *)
(* positions: so the k-th number is not below k, and the walk leaves       *)
(* behind only entries whose number is their position.                     *)
Steep ==
  \A j, k \in 1 .. Len(capi_appls_list) : j <= k =>
    id[capi_appls_list[k]] - id[capi_appls_list[j]] >= k - j
NotBelow == \A k \in 1 .. Len(capi_appls_list) : id[capi_appls_list[k]] >= k
(* An iterator holds the semaphore, and begins at the first position.      *)
Locked == \A r \in Readers : v[r] # Null => capi_appls_list_sem = r
AtToken == \A r \in Readers : v[r] = Token => pos[r] = 0

ListInv ==
  /\ TypeOK /\ Steep /\ NotBelow /\ ListedIffRegistered
  /\ Locked /\ AtToken /\ IteratorListed

(* Where the walk of add_capi_appl ends: at the first gap.                 *)
LEMMA WalkEndsAtGap ==
  ASSUME ListInv, MaxAppls + 1 < IdLimit
  PROVE  /\ WalkEnd \in 1 .. Len(capi_appls_list) + 1
         /\ Len(capi_appls_list) <= MaxAppls
         /\ WalkEnd % IdLimit = WalkEnd
         /\ \A j \in 1 .. WalkEnd - 1 : id[capi_appls_list[j]] = j
         /\ \A j \in WalkEnd .. Len(capi_appls_list) : id[capi_appls_list[j]] > j
  <1> DEFINE n == Len(capi_appls_list)
             Num(j) == id[capi_appls_list[j]]
             Ends(k) == k <= n => Leaves(k)
             S == {k \in 1 .. n + 1 : Ends(k)}
  <1>1. n \in Nat /\ \A j \in 1 .. n : Num(j) \in Nat /\ Num(j) <= MaxAppls
    BY NumbersAssumption DEF ListInv, TypeOK
  <1>2. n <= MaxAppls
    BY <1>1, NumbersAssumption DEF ListInv, NotBelow
  <1>3. \A j \in 1 .. n + 1 : j % IdLimit = j
    BY <1>1, <1>2, NumbersAssumption
  <1>4. PICK k \in S : \A j \in S : k <= j
    <2>1. S \in SUBSET Nat /\ n + 1 \in S
      BY <1>1
    <2> QED
      BY <2>1, LeastExists
  <1>5. Ends(k) /\ k \in 1 .. n + 1 /\ \A j \in 1 .. k - 1 : ~Leaves(j)
    BY <1>1, <1>4
  <1>6. /\ WalkEnd \in 1 .. n + 1 /\ Ends(WalkEnd)
        /\ \A j \in 1 .. WalkEnd - 1 : ~Leaves(j)
    BY <1>5 DEF WalkEnd
  <1>7. \A j \in 1 .. WalkEnd - 1 : Num(j) = j
    BY <1>1, <1>3, <1>6 DEF Leaves, ListInv, NotBelow
  <1>8. \A j \in WalkEnd .. n : Num(j) > j
    BY <1>1, <1>3, <1>6 DEF Leaves, ListInv, Steep
  <1> QED
    BY <1>2, <1>3, <1>6, <1>7, <1>8

-------------------------------------------------------------------------------
(* Where every application of the list is, after a successful registration *)
(* and after a release.                                                    *)
LEMMA Registers ==
  ASSUME ListInv, MaxAppls + 1 < IdLimit, NEW a \in Appls, capi_register(a),
         WalkEnd <= MaxAppls
  PROVE  LET n == WalkEnd
             t == capi_appls_list'
         IN /\ n \in 1 .. Len(capi_appls_list) + 1 /\ n <= MaxAppls
            /\ t \in Seq(Appls) /\ Len(t) = Len(capi_appls_list) + 1
            /\ \A j \in 1 .. Len(t) :
                 t[j] = IF j < n THEN capi_appls_list[j]
                        ELSE IF j = n THEN a ELSE capi_appls_list[j - 1]
            /\ id' = [id EXCEPT ![a] = n]
            /\ registered' = registered \cup {a}
            /\ refused' = refused \ {a}
            /\ \A j \in 1 .. n - 1 : id[capi_appls_list[j]] = j
            /\ \A j \in n .. Len(capi_appls_list) : id[capi_appls_list[j]] > j
  <1>1. /\ WalkEnd \in 1 .. Len(capi_appls_list) + 1
        /\ WalkEnd % IdLimit = WalkEnd
        /\ \A j \in 1 .. WalkEnd - 1 : id[capi_appls_list[j]] = j
        /\ \A j \in WalkEnd .. Len(capi_appls_list) : id[capi_appls_list[j]] > j
    BY WalkEndsAtGap
  <1>2. capi_appls_list \in Seq(Appls) /\ Len(capi_appls_list) \in Nat
    BY DEF ListInv, TypeOK
  <1>3. /\ capi_appls_list' = InsertBefore(capi_appls_list, WalkEnd, a)
        /\ id' = [id EXCEPT ![a] = WalkEnd]
    BY <1>1, <1>2, NumbersAssumption DEF capi_register, add_capi_appl
  <1>4. id'[a] # 0
    BY <1>1, <1>2, <1>3 DEF ListInv, TypeOK
  <1>5. registered' = registered \cup {a} /\ refused' = refused \ {a}
    BY <1>4 DEF capi_register
  <1> QED
    BY <1>1, <1>2, <1>3, <1>5, InsertEntries, SMTT(30) DEF InsertBefore

LEMMA Refuses ==
  ASSUME ListInv, MaxAppls + 1 < IdLimit, NEW a \in Appls, capi_register(a),
         ~(WalkEnd <= MaxAppls)
  PROVE  /\ UNCHANGED <<capi_appls_list, registered>>
         /\ id' = [id EXCEPT ![a] = 0] /\ refused' = refused \cup {a}
         /\ \A n \in 1 .. MaxAppls : \E b \in registered : id[b] = n
  <1>1. /\ WalkEnd \in 1 .. Len(capi_appls_list) + 1
        /\ Len(capi_appls_list) <= MaxAppls
        /\ WalkEnd % IdLimit = WalkEnd
        /\ \A j \in 1 .. WalkEnd - 1 : id[capi_appls_list[j]] = j
    BY WalkEndsAtGap
  <1>2. capi_appls_list \in Seq(Appls) /\ Len(capi_appls_list) \in Nat
    BY DEF ListInv, TypeOK
  <1>3. capi_appls_list' = capi_appls_list /\ id' = [id EXCEPT ![a] = 0]
    BY <1>1, <1>2, NumbersAssumption DEF capi_register, add_capi_appl
  <1>4. id'[a] = 0
    BY <1>3 DEF ListInv, TypeOK
  <1>5. registered' = registered /\ refused' = refused \cup {a}
    BY <1>4 DEF capi_register
  <1>6. ASSUME NEW n \in 1 .. MaxAppls PROVE \E b \in registered : id[b] = n
    <2>1. n \in DOMAIN capi_appls_list /\ id[capi_appls_list[n]] = n
      BY <1>1, <1>2, NumbersAssumption
    <2> QED
      BY <2>1 DEF ListInv, ListedIffRegistered, Listed
  <1> QED
    BY <1>3, <1>5, <1>6

LEMMA Releases ==
  ASSUME ListInv, NEW a \in Appls, capi_release(a)
  PROVE  \E k \in 1 .. Len(capi_appls_list) :
           LET t == capi_appls_list' IN
           /\ capi_appls_list[k] = a
           /\ t \in Seq(Appls) /\ Len(t) = Len(capi_appls_list) - 1
           /\ \A j \in 1 .. Len(t) :
                t[j] = IF j < k THEN capi_appls_list[j] ELSE capi_appls_list[j + 1]
  <1> DEFINE k == CHOOSE k \in DOMAIN capi_appls_list : capi_appls_list[k] = a
  <1>1. capi_appls_list \in Seq(Appls)
    BY DEF ListInv, TypeOK
  <1>2. \E i \in DOMAIN capi_appls_list : capi_appls_list[i] = a
    BY DEF capi_release, ListInv, ListedIffRegistered, Listed
  <1>3. k \in 1 .. Len(capi_appls_list) /\ capi_appls_list[k] = a
    BY <1>1, <1>2
  <1>4. capi_appls_list' = RemoveAt(capi_appls_list, k)
    BY DEF capi_release, list_del
  <1> HIDE DEF k
  <1> QED
    BY <1>1, <1>3, <1>4, RemoveEntries

-------------------------------------------------------------------------------
LEMMA EntriesDiffer ==
  ASSUME ListInv
  PROVE  \A j, k \in 1 .. Len(capi_appls_list) :
           capi_appls_list[j] = capi_appls_list[k] => j = k
  <1>1. /\ capi_appls_list \in Seq(Appls) /\ Len(capi_appls_list) \in Nat
        /\ \A j \in 1 .. Len(capi_appls_list) : id[capi_appls_list[j]] \in Nat
    BY NumbersAssumption DEF ListInv, TypeOK
  <1>2. ASSUME NEW j \in 1 .. Len(capi_appls_list), NEW k \in 1 .. Len(capi_appls_list),
               j < k
        PROVE  capi_appls_list[j] # capi_appls_list[k]
    <2>1. id[capi_appls_list[k]] - id[capi_appls_list[j]] >= k - j
      BY <1>1, <1>2 DEF ListInv, Steep
    <2>2. id[capi_appls_list[k]] \in Nat /\ k - j > 0
      BY <1>1, <1>2
    <2> QED
      BY <2>1, <2>2
  <1> QED
    BY <1>1, <1>2

LEMMA ListInit == Init => ListInv
  <1> SUFFICES ASSUME Init PROVE ListInv
    OBVIOUS
  <1>1. capi_appls_list = <<>> /\ Len(capi_appls_list) = 0
    BY DEF Init
  <1>2. TypeOK
    BY NumbersAssumption DEF Init, TypeOK
  <1>3. Steep /\ NotBelow /\ ListedIffRegistered
    BY <1>1 DEF Init, Steep, NotBelow, ListedIffRegistered, Listed
  <1>4. Locked /\ AtToken /\ IteratorListed
    BY NumbersAssumption DEF Init, Locked, AtToken, IteratorListed
  <1> QED
    BY <1>2, <1>3, <1>4 DEF ListInv

(* While the semaphore is free no iterator stands anywhere.                *)
LEMMA NobodyReads ==
  ASSUME ListInv, capi_appls_list_sem = Null, UNCHANGED <<capi_appls_list_sem, pos, v>>
  PROVE  Locked' /\ AtToken' /\ IteratorListed'
  <1>1. \A r \in Readers : v[r] = Null
    BY NumbersAssumption DEF ListInv, Locked
  <1> QED
    BY <1>1, NumbersAssumption DEF Locked, AtToken, IteratorListed

LEMMA RegisterKeeps ==
  ASSUME ListInv, MaxAppls + 1 < IdLimit, NEW a \in Appls, capi_register(a)
  PROVE  ListInv'
  <1> DEFINE n == WalkEnd
             old == capi_appls_list
             new == capi_appls_list'
             e == Len(capi_appls_list)
  <1>1. /\ old \in Seq(Appls) /\ e \in Nat /\ id \in [Appls -> 0 .. MaxAppls]
        /\ \A j \in 1 .. e : old[j] \in Appls /\ id[old[j]] \in Nat
    BY NumbersAssumption DEF ListInv, TypeOK
  <1>2. a \notin registered /\ \A j \in 1 .. e : old[j] # a
    BY <1>1 DEF capi_register, ListInv, ListedIffRegistered, Listed
  <1>3. Locked' /\ AtToken' /\ IteratorListed'
    BY NobodyReads DEF capi_register
  <1>4. CASE WalkEnd <= MaxAppls
    <2>1. /\ n \in 1 .. e + 1 /\ n <= MaxAppls
          /\ new \in Seq(Appls) /\ Len(new) = e + 1
          /\ \A j \in 1 .. e + 1 :
               new[j] = IF j < n THEN old[j] ELSE IF j = n THEN a ELSE old[j - 1]
          /\ id' = [id EXCEPT ![a] = n]
          /\ registered' = registered \cup {a} /\ refused' = refused \ {a}
          /\ \A j \in 1 .. n - 1 : id[old[j]] = j
          /\ \A j \in n .. e : id[old[j]] > j
      BY <1>4, Registers
    <2>0. n \in Nat /\ n >= 1 /\ n <= e + 1 /\ e \in Nat
          /\ DOMAIN old = 1 .. e /\ DOMAIN new = 1 .. e + 1
      BY <1>1, <2>1
    <2> HIDE DEF n
    <2>2. TypeOK'
      BY <2>1, <1>1 DEF TypeOK, ListInv, capi_register
    <2>3. \A j \in 1 .. e + 1 :
            id'[new[j]] = IF j < n THEN j ELSE IF j = n THEN n ELSE id[old[j - 1]]
      <3> SUFFICES ASSUME NEW j \in 1 .. e + 1
                   PROVE id'[new[j]] = IF j < n THEN j
                                       ELSE IF j = n THEN n ELSE id[old[j - 1]]
        OBVIOUS
      <3>1. CASE j < n
        <4>1. j \in 1 .. n - 1 /\ j \in 1 .. e /\ new[j] = old[j]
          BY <1>1, <2>1, <3>1
        <4> QED
          BY <1>1, <1>2, <2>1, <3>1, <4>1
      <3>2. CASE j = n
        BY <1>1, <2>1, <3>2
      <3>3. CASE j > n
        <4>1. j - 1 \in 1 .. e /\ new[j] = old[j - 1] /\ ~(j < n) /\ j # n
          BY <1>1, <2>1, <3>3
        <4> QED
          BY <1>1, <1>2, <2>1, <4>1
      <3> QED
        BY <1>1, <2>1, <3>1, <3>2, <3>3
    <2>4. \A j \in 1 .. e + 1 : j > n => id'[new[j]] = id[old[j - 1]] /\ id[old[j - 1]] >= j
      <3> SUFFICES ASSUME NEW j \in 1 .. e + 1, j > n
                   PROVE id'[new[j]] = id[old[j - 1]] /\ id[old[j - 1]] >= j
        OBVIOUS
      <3>1. j - 1 \in n .. e /\ j - 1 \in 1 .. e /\ ~(j < n) /\ j # n
        BY <1>1, <2>1
      <3>2. id[old[j - 1]] > j - 1 /\ id[old[j - 1]] \in Nat
        BY <1>1, <2>1, <3>1
      <3> QED
        BY <2>3, <3>1, <3>2
    <2>5. \A j \in 1 .. e + 1 : j <= n => id'[new[j]] = j
      BY <1>1, <2>1, <2>3
    <2>6. NotBelow'
      <3> SUFFICES ASSUME NEW k \in 1 .. e + 1 PROVE id'[new[k]] >= k
        BY <2>1 DEF NotBelow
      <3>1. CASE k <= n
        BY <2>0, <2>5, <3>1
      <3>2. CASE k > n
        BY <2>4, <3>2
      <3> QED
        BY <2>0, <3>1, <3>2
    <2>7. Steep'
      <3> SUFFICES ASSUME NEW j \in 1 .. e + 1, NEW k \in 1 .. e + 1, j <= k
                   PROVE id'[new[k]] - id'[new[j]] >= k - j
        BY <2>1 DEF Steep
      <3>1. CASE k <= n
        BY <1>1, <2>1, <2>5, <3>1
      <3>2. CASE j <= n /\ k > n
        <4>1. id'[new[k]] = id[old[k - 1]] /\ id[old[k - 1]] >= k
          BY <2>4, <3>2
        <4>2. id[old[k - 1]] \in Nat
          BY <1>1, <2>1, <3>2
        <4> QED
          BY <2>5, <3>2, <4>1, <4>2
      <3>3. CASE j > n
        <4>1. k > n /\ j - 1 \in 1 .. e /\ k - 1 \in 1 .. e /\ j - 1 <= k - 1
          BY <2>0, <3>3
        <4>2. id'[new[k]] = id[old[k - 1]] /\ id'[new[j]] = id[old[j - 1]]
          BY <2>4, <3>3, <4>1
        <4>3. id[old[k - 1]] - id[old[j - 1]] >= (k - 1) - (j - 1)
          BY <4>1 DEF ListInv, Steep
        <4>4. id[old[k - 1]] \in Nat /\ id[old[j - 1]] \in Nat
          BY <1>1, <4>1
        <4> QED
          BY <4>2, <4>3, <4>4
      <3> QED
        BY <1>1, <2>1, <3>1, <3>2, <3>3
    <2>8. Listed' = Listed \cup {a}
      <3>1. \A j \in 1 .. e + 1 : new[j] = a \/ \E i \in 1 .. e : new[j] = old[i]
        <4> SUFFICES ASSUME NEW j \in 1 .. e + 1, j # n
                     PROVE \E i \in 1 .. e : new[j] = old[i]
          BY <2>1
        <4>1. CASE j < n
          BY <2>0, <2>1, <4>1
        <4>2. CASE j > n
          <5>1. j - 1 \in 1 .. e /\ ~(j < n)
            BY <2>0, <4>2
          <5> QED
            BY <2>1, <5>1
        <4> QED
          BY <2>0, <4>1, <4>2
      <3>2. \A j \in 1 .. e : \E i \in 1 .. e + 1 : new[i] = old[j]
        <4> SUFFICES ASSUME NEW j \in 1 .. e PROVE \E i \in 1 .. e + 1 : new[i] = old[j]
          OBVIOUS
        <4>1. CASE j < n
          <5>1. j \in 1 .. e + 1
            BY <1>1
          <5> QED
            BY <2>1, <4>1, <5>1
        <4>2. CASE j >= n
          <5>1. j + 1 \in 1 .. e + 1 /\ (j + 1) - 1 = j /\ ~(j + 1 < n) /\ j + 1 # n
            BY <1>1, <2>1, <4>2
          <5> QED
            BY <2>1, <5>1
        <4> QED
          BY <2>1, <4>1, <4>2
      <3>3. new[n] = a /\ n \in 1 .. e + 1
        BY <2>1
      <3>4. Listed = {old[j] : j \in 1 .. e} /\ Listed' = {new[j] : j \in 1 .. e + 1}
        BY <2>0 DEF Listed
      <3>5. \A j \in 1 .. e + 1 : new[j] \in Listed \cup {a}
        BY <3>1, <3>4
      <3>6. \A j \in 1 .. e : old[j] \in Listed'
        BY <3>2, <3>4
      <3>7. a \in Listed'
        BY <3>3, <3>4
      <3> QED
        BY <3>4, <3>5, <3>6, <3>7
    <2>9. ListedIffRegistered'
      BY <1>1, <1>2, <2>1, <2>8, NumbersAssumption DEF ListInv, ListedIffRegistered, TypeOK
    <2> QED
      BY <1>3, <2>2, <2>6, <2>7, <2>9 DEF ListInv
  <1>5. CASE ~(WalkEnd <= MaxAppls)
    <2>1. /\ new = old /\ registered' = registered
          /\ id' = [id EXCEPT ![a] = 0] /\ refused' = refused \cup {a}
      BY <1>5, Refuses
    <2>2. \A j \in 1 .. e : id'[new[j]] = id[old[j]]
      BY <1>1, <1>2, <2>1
    <2>3. TypeOK'
      BY <1>1, <2>1, NumbersAssumption DEF TypeOK, ListInv, capi_register
    <2>4. Steep' /\ NotBelow'
      BY <2>1, <2>2 DEF ListInv, Steep, NotBelow
    <2>5. ListedIffRegistered'
      BY <1>1, <1>2, <2>1 DEF ListInv, ListedIffRegistered, Listed, TypeOK
    <2> QED
      BY <1>3, <2>3, <2>4, <2>5 DEF ListInv
  <1> QED
    BY <1>4, <1>5

LEMMA ReleaseKeeps ==
  ASSUME ListInv, NEW a \in Appls, capi_release(a)
  PROVE  ListInv'
  <1> DEFINE old == capi_appls_list
             new == capi_appls_list'
             e == Len(capi_appls_list)
  <1>1. /\ old \in Seq(Appls) /\ e \in Nat /\ DOMAIN old = 1 .. e
        /\ \A j \in 1 .. e : old[j] \in Appls /\ id[old[j]] \in Nat
    BY NumbersAssumption DEF ListInv, TypeOK
  <1>2. PICK k \in 1 .. e :
          /\ old[k] = a
          /\ new \in Seq(Appls) /\ Len(new) = e - 1
          /\ \A j \in 1 .. e - 1 : new[j] = IF j < k THEN old[j] ELSE old[j + 1]
    <2>1. \E k \in 1 .. e :
            /\ old[k] = a
            /\ new \in Seq(Appls) /\ Len(new) = e - 1
            /\ \A j \in 1 .. Len(new) : new[j] = IF j < k THEN old[j] ELSE old[j + 1]
      BY Releases
    <2> QED
      BY <2>1
  <1>3. /\ DOMAIN new = 1 .. e - 1
        /\ id' = id /\ refused' = refused /\ registered' = registered \ {a}
    BY <1>1, <1>2 DEF capi_release
  <1> DEFINE from(j) == IF j < k THEN j ELSE j + 1
  <1>4. \A j \in 1 .. e - 1 :
          from(j) \in 1 .. e /\ from(j) # k /\ from(j) >= j /\ new[j] = old[from(j)]
    BY <1>1, <1>2
  <1>5. \A i, j \in 1 .. e - 1 : i <= j => from(j) - from(i) >= j - i
    BY <1>1
  <1> HIDE DEF from
  <1>6. TypeOK'
    BY <1>2, <1>3 DEF ListInv, TypeOK, capi_release
  <1>7. NotBelow'
    <2> SUFFICES ASSUME NEW j \in 1 .. e - 1 PROVE id[new[j]] >= j
      BY <1>2, <1>3 DEF NotBelow
    <2>1. id[old[from(j)]] >= from(j) /\ id[old[from(j)]] \in Nat
      BY <1>1, <1>4 DEF ListInv, NotBelow
    <2> QED
      BY <1>1, <1>4, <2>1
  <1>8. Steep'
    <2> SUFFICES ASSUME NEW i \in 1 .. e - 1, NEW j \in 1 .. e - 1, i <= j
                 PROVE id[new[j]] - id[new[i]] >= j - i
      BY <1>2, <1>3 DEF Steep
    <2>1. /\ from(i) \in 1 .. e /\ from(j) \in 1 .. e
          /\ from(j) - from(i) >= j - i
          /\ new[i] = old[from(i)] /\ new[j] = old[from(j)]
      BY <1>4, <1>5
    <2>2. from(i) <= from(j)
      BY <1>1, <2>1
    <2>3. id[old[from(j)]] - id[old[from(i)]] >= from(j) - from(i)
      BY <2>1, <2>2 DEF ListInv, Steep
    <2>4. id[old[from(j)]] \in Nat /\ id[old[from(i)]] \in Nat
      BY <1>1, <2>1
    <2> QED
      BY <1>1, <2>1, <2>3, <2>4, SMTT(30)
  <1>9. Listed' = Listed \ {a}
    <2>1. \A j \in 1 .. e - 1 : new[j] # a /\ \E i \in 1 .. e : new[j] = old[i]
      BY <1>2, <1>4, EntriesDiffer
    <2>2. \A i \in 1 .. e : i # k => \E j \in 1 .. e - 1 : new[j] = old[i]
      <3> SUFFICES ASSUME NEW i \in 1 .. e, i # k
                   PROVE \E j \in 1 .. e - 1 : new[j] = old[i]
        OBVIOUS
      <3>1. CASE i < k
        <4>1. i \in 1 .. e - 1
          BY <1>1, <3>1
        <4> QED
          BY <1>2, <3>1, <4>1
      <3>2. CASE i > k
        <4>1. i - 1 \in 1 .. e - 1 /\ ~(i - 1 < k) /\ (i - 1) + 1 = i
          BY <1>1, <3>2
        <4> QED
          BY <1>2, <4>1
      <3> QED
        BY <1>1, <3>1, <3>2
    <2>3. Listed = {old[i] : i \in 1 .. e} /\ Listed' = {new[j] : j \in 1 .. e - 1}
      BY <1>1, <1>3 DEF Listed
    <2>4. \A x \in Listed : x # a => x \in Listed'
      <3> SUFFICES ASSUME NEW i \in 1 .. e, old[i] # a
                   PROVE \E j \in 1 .. e - 1 : new[j] = old[i]
        BY <2>3
      <3>1. i # k
        BY <1>2
      <3> QED
        BY <2>2, <3>1
    <2>5. \A x \in Listed' : x # a /\ x \in Listed
      BY <2>1, <2>3
    <2> QED
      BY <2>4, <2>5
  <1>10. ListedIffRegistered'
    BY <1>3, <1>9 DEF ListInv, ListedIffRegistered
  <1>11. Locked' /\ AtToken' /\ IteratorListed'
    BY NobodyReads DEF capi_release
  <1> QED
    BY <1>6, <1>7, <1>8, <1>10, <1>11 DEF ListInv

LEMMA ReaderKeeps ==
  ASSUME ListInv, NEW r \in Readers, appl_start(r) \/ appl_next(r) \/ appl_stop(r)
  PROVE  ListInv'
  <1>1. /\ UNCHANGED <<capi_appls_list, id, registered, refused>>
        /\ capi_appls_list \in Seq(Appls) /\ Len(capi_appls_list) \in Nat
        /\ DOMAIN capi_appls_list = 1 .. Len(capi_appls_list)
    BY DEF ListInv, TypeOK, appl_start, appl_next, appl_stop
  <1>2. Steep' /\ NotBelow' /\ ListedIffRegistered'
    BY <1>1 DEF ListInv, Steep, NotBelow, ListedIffRegistered, Listed
  <1>3. \A i \in Nat : get_capi_appl_by_idx(i) \in Appls \cup {Null}
    BY <1>1 DEF get_capi_appl_by_idx
  <1>4. /\ pos \in [Readers -> Nat] /\ v \in [Readers -> Appls \cup {Token, Null}]
        /\ \A q \in Readers : v[q] # Null => capi_appls_list_sem = q
    BY DEF ListInv, TypeOK, Locked
  <1>5. \A i : get_capi_appl_by_idx(i)' = get_capi_appl_by_idx(i)
    BY <1>1 DEF get_capi_appl_by_idx
  <1>6. CASE appl_start(r)
    <2>1. /\ pos' = pos /\ capi_appls_list_sem' = r
          /\ v' = [v EXCEPT ![r] = IF pos[r] = 0 THEN Token
                                   ELSE get_capi_appl_by_idx(pos[r] - 1)]
          /\ \A q \in Readers : v[q] = Null
      BY <1>4, <1>6, NumbersAssumption DEF appl_start
    <2>2. pos[r] # 0 => v'[r] \in Appls \cup {Null}
      BY <1>3, <1>4, <2>1
    <2>3. TypeOK'
      BY <1>1, <1>4, <2>1, <2>2 DEF ListInv, TypeOK
    <2>4. Locked' /\ AtToken'
      BY <1>4, <2>1, <2>2, NumbersAssumption DEF Locked, AtToken
    <2>5. IteratorListed'
      BY <1>4, <1>5, <2>1, NumbersAssumption DEF IteratorListed
    <2> QED
      BY <1>2, <2>3, <2>4, <2>5 DEF ListInv
  <1>7. CASE appl_next(r)
    <2>1. /\ pos' = [pos EXCEPT ![r] = @ + 1] /\ UNCHANGED capi_appls_list_sem
          /\ v[r] # Null /\ capi_appls_list_sem = r
          /\ v' = [v EXCEPT ![r] = IF v[r] = Token THEN get_capi_appl_by_idx(0)
                                   ELSE get_capi_appl_next(v[r])]
      BY <1>7 DEF appl_next
    <2>2. v'[r] = get_capi_appl_by_idx(pos[r])
      <3>1. CASE v[r] = Token
        BY <1>4, <2>1, <3>1 DEF ListInv, AtToken
      <3>2. CASE v[r] # Token
        <4>1. v[r] \in Appls
          BY <1>4, <2>1, <3>2
        <4>2. pos[r] > 0 /\ get_capi_appl_by_idx(pos[r] - 1) = v[r] /\ pos[r] \in Nat
          BY <1>4, <4>1 DEF ListInv, IteratorListed
        <4>3. pos[r] \in 1 .. Len(capi_appls_list) /\ capi_appls_list[pos[r]] = v[r]
          BY <1>1, <4>1, <4>2, NumbersAssumption DEF get_capi_appl_by_idx
        <4>4. (CHOOSE k \in DOMAIN capi_appls_list : capi_appls_list[k] = v[r]) = pos[r]
          BY <1>1, <4>3, EntriesDiffer
        <4>5. get_capi_appl_next(v[r]) = get_capi_appl_by_idx(pos[r])
          BY <4>4 DEF get_capi_appl_next
        <4> QED
          BY <1>4, <2>1, <3>2, <4>5
      <3> QED
        BY <3>1, <3>2
    <2>3. /\ v'[r] \in Appls \cup {Null}
          /\ pos'[r] > 0 /\ pos'[r] - 1 = pos[r] /\ pos'[r] \in Nat
      BY <1>3, <1>4, <2>1, <2>2
    <2>4. \A q \in Readers \ {r} : v'[q] = v[q] /\ pos'[q] = pos[q]
      BY <1>4, <2>1
    <2>5. TypeOK'
      BY <1>1, <1>4, <2>1, <2>3 DEF ListInv, TypeOK
    <2>6. Locked' /\ AtToken'
      BY <2>1, <2>3, <2>4, NumbersAssumption DEF ListInv, Locked, AtToken
    <2>7. IteratorListed'
      <3> SUFFICES ASSUME NEW q \in Readers, v'[q] \in Appls
                   PROVE pos'[q] > 0 /\ get_capi_appl_by_idx(pos'[q] - 1) = v'[q]
        BY <1>5 DEF IteratorListed
      <3>1. CASE q = r
        BY <2>2, <2>3, <3>1
      <3>2. CASE q # r
        BY <2>4, <3>2 DEF ListInv, IteratorListed
      <3> QED
        BY <3>1, <3>2
    <2> QED
      BY <1>2, <2>5, <2>6, <2>7 DEF ListInv
  <1>8. CASE appl_stop(r)
    <2>1. /\ capi_appls_list_sem' = Null
          /\ pos' = [pos EXCEPT ![r] = IF v[r] = Null THEN 0 ELSE @]
          /\ v' = [v EXCEPT ![r] = Null]
      BY <1>8 DEF appl_stop
    <2>2. \A q \in Readers : v'[q] = Null
      BY <1>4, <1>8, <2>1 DEF appl_stop
    <2>3. TypeOK'
      BY <1>1, <1>4, <2>1 DEF ListInv, TypeOK
    <2>4. Locked' /\ AtToken' /\ IteratorListed'
      BY <2>2, NumbersAssumption DEF Locked, AtToken, IteratorListed
    <2> QED
      BY <1>2, <2>3, <2>4 DEF ListInv
  <1> QED
    BY <1>6, <1>7, <1>8

LEMMA ListNext ==
  ASSUME MaxAppls + 1 < IdLimit, ListInv, [Next]_vars
  PROVE  ListInv'
  <1>1. CASE \E a \in Appls : capi_register(a)
    BY <1>1, RegisterKeeps
  <1>2. CASE \E a \in Appls : capi_release(a)
    BY <1>2, ReleaseKeeps
  <1>3. CASE \E r \in Readers : appl_start(r) \/ appl_next(r) \/ appl_stop(r)
    BY <1>3, ReaderKeeps
  <1>4. CASE UNCHANGED vars
    BY <1>4 DEF vars, ListInv, TypeOK, Steep, NotBelow, ListedIffRegistered, Listed,
                Locked, AtToken, IteratorListed, get_capi_appl_by_idx
  <1> QED
    BY <1>1, <1>2, <1>3, <1>4 DEF Next

LEMMA ListAlways == MaxAppls + 1 < IdLimit => (Spec => []ListInv)
  <1> SUFFICES ASSUME MaxAppls + 1 < IdLimit PROVE Spec => []ListInv
    OBVIOUS
  <1>1. ListInv /\ [Next]_vars => ListInv'
    BY ListNext
  <1> QED
    BY <1>1, ListInit, PTL DEF Spec

-------------------------------------------------------------------------------
(* The list holds exactly the registered applications, each with a number  *)
(* (add_capi_appl, capi_release).                                          *)
THEOREM ListIsExact == MaxAppls + 1 < IdLimit => (Spec => []ListedIffRegistered)
  <1>1. ListInv => ListedIffRegistered
    BY DEF ListInv
  <1> QED
    BY <1>1, ListAlways, PTL

(* It is strictly sorted by number, whatever order numbers come back in.   *)
THEOREM ListIsSorted == MaxAppls + 1 < IdLimit => (Spec => []SortedByNumber)
  <1>1. ListInv => SortedByNumber
    <2> SUFFICES ASSUME ListInv PROVE SortedByNumber
      OBVIOUS
    <2>1. /\ DOMAIN capi_appls_list = 1 .. Len(capi_appls_list)
          /\ \A j \in 1 .. Len(capi_appls_list) : id[capi_appls_list[j]] \in Nat
      BY NumbersAssumption DEF ListInv, TypeOK
    <2> QED
      BY <2>1 DEF ListInv, Steep, SortedByNumber
  <1> QED
    BY <1>1, ListAlways, PTL

(* An iterator of /proc/capi stands on a registered application, where its *)
(* file believes it does (appl_start, appl_next, appl_stop).               *)
THEOREM IteratorsStand == MaxAppls + 1 < IdLimit => (Spec => []IteratorListed)
  <1>1. ListInv => IteratorListed
    BY DEF ListInv
  <1> QED
    BY <1>1, ListAlways, PTL

(* capi_register refuses an application only when every number is in use:  *)
(* RefusedOnlyWhenFull.                                                    *)
THEOREM RefusalsJustified == MaxAppls + 1 < IdLimit => (Spec => RefusedOnlyWhenFull)
  <1> DEFINE Justified ==
        \A a \in Appls : a \in refused' \ refused =>
          \A n \in 1 .. MaxAppls : \E b \in registered : id[b] = n
  <1> SUFFICES ASSUME MaxAppls + 1 < IdLimit PROVE Spec => RefusedOnlyWhenFull
    OBVIOUS
  <1>1. ASSUME ListInv, NEW a \in Appls, capi_register(a) PROVE Justified
    <2>1. CASE WalkEnd <= MaxAppls
      BY <1>1, <2>1, Registers
    <2>2. CASE ~(WalkEnd <= MaxAppls)
      BY <1>1, <2>2, Refuses
    <2> QED
      BY <2>1, <2>2
  <1>2. ListInv /\ [Next]_vars => [Justified]_vars
    <2> SUFFICES ASSUME ListInv, Next PROVE Justified
      BY DEF vars
    <2>1. CASE \E a \in Appls : capi_register(a)
      BY <1>1, <2>1
    <2>2. CASE ~\E a \in Appls : capi_register(a)
      <3>1. refused' = refused
        BY <2>2 DEF Next, capi_release, appl_start, appl_next, appl_stop
      <3> QED
        BY <3>1
    <2> QED
      BY <2>1, <2>2
  <1>3. Spec => []ListInv
    BY ListAlways
  <1> QED
    BY <1>2, <1>3, PTL DEF Spec, RefusedOnlyWhenFull

(* The list of the capicore implements the abstract allocation of numbers, *)
(* What registrations and releases make of the numbers of the applications. *)
LEMMA GivesLeast ==
  ASSUME ListInv, MaxAppls + 1 < IdLimit, NEW a \in Appls, capi_register(a),
         WalkEnd <= MaxAppls
  PROVE  /\ WalkEnd \in 1 .. MaxAppls /\ a \in registered'
         /\ number' = [number EXCEPT ![a] = WalkEnd] /\ number[a] = 0
         /\ \A b \in Appls : number[b] # WalkEnd
         /\ \A m \in 1 .. WalkEnd - 1 : \E b \in Appls : number[b] = m
  <1>1. a \notin registered
    BY DEF capi_register
  <1>2. /\ WalkEnd \in 1 .. Len(capi_appls_list) + 1 /\ WalkEnd <= MaxAppls
        /\ id' = [id EXCEPT ![a] = WalkEnd]
        /\ registered' = registered \cup {a}
        /\ \A j \in 1 .. WalkEnd - 1 : id[capi_appls_list[j]] = j
        /\ \A j \in WalkEnd .. Len(capi_appls_list) : id[capi_appls_list[j]] > j
    BY Registers
  <1>3. /\ Len(capi_appls_list) \in Nat /\ id \in [Appls -> 0 .. MaxAppls]
        /\ DOMAIN capi_appls_list = 1 .. Len(capi_appls_list)
        /\ \A j \in 1 .. Len(capi_appls_list) :
             /\ id[capi_appls_list[j]] \in Nat
             /\ capi_appls_list[j] \in registered /\ capi_appls_list[j] \in Appls
    BY NumbersAssumption DEF ListInv, TypeOK, ListedIffRegistered, Listed
  <1>4. \A j \in 1 .. Len(capi_appls_list) : id[capi_appls_list[j]] # WalkEnd
    BY <1>2, <1>3
  <1>5. \A b \in registered : id[b] # WalkEnd
    BY <1>3, <1>4 DEF ListInv, ListedIffRegistered, Listed
  <1>6. WalkEnd \in 1 .. MaxAppls /\ WalkEnd # 0
    BY <1>2, <1>3, NumbersAssumption
  <1>7. \A b \in Appls : number[b] # WalkEnd
    BY <1>5, <1>6 DEF number
  <1>8. number' = [number EXCEPT ![a] = WalkEnd]
    BY <1>1, <1>2, <1>3 DEF number
  <1>9. ASSUME NEW m \in 1 .. WalkEnd - 1 PROVE \E b \in Appls : number[b] = m
    <2>1. m \in 1 .. Len(capi_appls_list)
      BY <1>2, <1>3
    <2>. QED BY <1>2, <1>3, <2>1 DEF number
  <1>. QED BY <1>1, <1>2, <1>6, <1>7, <1>8, <1>9 DEF number

LEMMA GivesNone ==
  ASSUME ListInv, MaxAppls + 1 < IdLimit, NEW a \in Appls, capi_register(a),
         ~(WalkEnd <= MaxAppls)
  PROVE  number' = number /\ a \notin registered'
  <1>1. a \notin registered
    BY DEF capi_register
  <1>2. registered' = registered /\ id' = [id EXCEPT ![a] = 0]
    BY Refuses
  <1>3. id \in [Appls -> 0 .. MaxAppls]
    BY DEF ListInv, TypeOK
  <1>. QED BY <1>1, <1>2, <1>3 DEF number

LEMMA GivesBack ==
  ASSUME ListInv, NEW a, capi_release(a)
  PROVE  /\ a \in Appls /\ number[a] # 0
         /\ number' = [number EXCEPT ![a] = 0]
  <1>1. /\ a \in registered /\ registered' = registered \ {a} /\ id' = id
        /\ a \in Appls /\ id[a] \in 1 .. MaxAppls
    BY DEF capi_release, ListInv, ListedIffRegistered, TypeOK
  <1>2. number' = [number EXCEPT ![a] = 0]
    BY <1>1 DEF number
  <1>3. number[a] = id[a] /\ id[a] # 0
    BY <1>1, NumbersAssumption DEF number
  <1>. QED BY <1>1, <1>2, <1>3

(* in which a number is unique while it is in use: NumbersUnique.          *)
THEOREM NumberingImplemented == MaxAppls + 1 < IdLimit => (Spec => NumbersUnique)
  <1> SUFFICES ASSUME MaxAppls + 1 < IdLimit PROVE Spec => NumbersUnique
    OBVIOUS
  <1>1. Init => Numbering!Init
    BY DEF Init, Numbering!Init
  <1>2. ASSUME ListInv, NEW a \in Appls, capi_register(a)
        PROVE Numbering!Take(a) \/ UNCHANGED number
    <2>1. CASE WalkEnd <= MaxAppls
      BY <1>2, <2>1, GivesLeast DEF Numbering!Take, Numbering!Used, number
    <2>2. CASE ~(WalkEnd <= MaxAppls)
      BY <1>2, <2>2, GivesNone
    <2> QED
      BY <2>1, <2>2
  <1>3. ASSUME ListInv, NEW a \in Appls, capi_release(a)
        PROVE Numbering!Give(a)
    BY <1>3, GivesBack DEF Numbering!Give, number
  <1>4. ListInv /\ [Next]_vars => [Numbering!Next]_number
    <2> SUFFICES ASSUME ListInv, [Next]_vars PROVE Numbering!Next \/ UNCHANGED number
      OBVIOUS
    <2>1. CASE \E a \in Appls : capi_register(a)
      BY <1>2, <2>1 DEF Numbering!Next
    <2>2. CASE \E a \in Appls : capi_release(a)
      BY <1>3, <2>2 DEF Numbering!Next
    <2>3. CASE UNCHANGED <<registered, id>>
      BY <2>3 DEF number
    <2> QED
      BY <2>1, <2>2, <2>3 DEF Next, vars, appl_start, appl_next, appl_stop
  <1>5. Spec => []ListInv
    BY ListAlways
  <1> QED
    BY <1>1, <1>4, <1>5, PTL DEF Spec, NumbersUnique, Numbering!Spec, number

-------------------------------------------------------------------------------
(* The table of the kernelcapi.                                             *)
(* The numbers of the capicore are unique; a client knows the number of    *)
(* its application from the end of its registration to its release.        *)
NumbersKnown ==
  /\ \A c, d \in Appls : c # d /\ number[c] = number[d] => number[c] = 0
  /\ \A c \in Appls :
       /\ pc[c] = "none" => number[c] = 0
       /\ pc[c] = "store" => number[c] # 0
       /\ pc[c] \in {"idle", "fault"} => number[c] # 0 /\ applid[c] = number[c]
       /\ pc[c] = "clear" => number[c] = 0 /\ applid[c] # 0

(* A slot leads to an application that its number was given to and whose   *)
(* release has not yet emptied it, and to no other when there is another.  *)
SlotsKnown ==
  /\ \A n \in Kernel!Numbers : kernelcapi_appls[n] # Null =>
       /\ pc[kernelcapi_appls[n]] \in {"idle", "clear", "fault"}
       /\ applid[kernelcapi_appls[n]] = n
  /\ \A c \in Appls :
       pc[c] \in {"idle", "fault"} => kernelcapi_appls[applid[c]] \in {c, Null}

KernelInv == Kernel!TypeOK /\ NumbersKnown /\ SlotsKnown

(* The numbers of the kernelcapi are those of the list.                     *)
LEMMA MaxApplsNat == MaxAppls \in Nat /\ Null \notin Appls
  BY NumbersAssumption

LEMMA KernelInvInit == Kernel!Init => KernelInv
  BY MaxApplsNat DEF Kernel!Init, KernelInv, Kernel!TypeOK, NumbersKnown, SlotsKnown, Kernel!Numbers

LEMMA KernelInvNext == KernelInv /\ [Kernel!Next]_(Kernel!vars) => KernelInv'
<1>. SUFFICES ASSUME KernelInv, [Kernel!Next]_(Kernel!vars) PROVE KernelInv'
  OBVIOUS
<1>. USE MaxApplsNat DEF KernelInv, Kernel!Goto, Kernel!Numbers
<1>1. ASSUME NEW c \in Appls, Kernel!kernelcapi_register(c) PROVE KernelInv'
  <2>1. PICK n \in Kernel!Free : number' = [number EXCEPT ![c] = n]
    BY <1>1 DEF Kernel!kernelcapi_register, Kernel!Allocated
  <2>2. /\ n \in Kernel!Numbers /\ n # 0 /\ \A d \in Appls : number[d] # n
    BY <2>1 DEF Kernel!Free
  <2>3. /\ pc[c] = "none" /\ pc' = [pc EXCEPT ![c] = "store"]
        /\ UNCHANGED <<kernelcapi_appls, applid, ap>>
        /\ sig' = [sig EXCEPT ![c] = FALSE]
    BY <1>1 DEF Kernel!kernelcapi_register, Kernel!Allocated
  <2>4. Kernel!TypeOK'
    BY <2>1, <2>2, <2>3 DEF Kernel!TypeOK
  <2>5. NumbersKnown'
    BY <2>1, <2>2, <2>3 DEF Kernel!TypeOK, NumbersKnown
  <2>6. SlotsKnown'
    BY <2>3 DEF Kernel!TypeOK, SlotsKnown
  <2>. QED BY <2>4, <2>5, <2>6
<1>2. ASSUME NEW c \in Appls, Kernel!kernelcapi_register_store(c) PROVE KernelInv'
  <2>1. number[c] \in Kernel!Numbers
    BY <1>2 DEF Kernel!kernelcapi_register_store, Kernel!TypeOK, NumbersKnown
  <2>2. Kernel!TypeOK'
    BY <1>2, <2>1 DEF Kernel!kernelcapi_register_store, Kernel!TypeOK
  <2>3. NumbersKnown'
    BY <1>2, <2>1 DEF Kernel!kernelcapi_register_store, Kernel!TypeOK, NumbersKnown
  <2>4. SlotsKnown'
    BY <1>2, <2>1 DEF Kernel!kernelcapi_register_store, Kernel!TypeOK, NumbersKnown, SlotsKnown
  <2>. QED BY <2>2, <2>3, <2>4
<1>3. ASSUME NEW c \in Appls, Kernel!kernelcapi_fault(c) PROVE KernelInv'
  <2>1. Kernel!TypeOK'
    BY <1>3 DEF Kernel!kernelcapi_fault, Kernel!TypeOK
  <2>2. NumbersKnown'
    BY <1>3 DEF Kernel!kernelcapi_fault, Kernel!TypeOK, NumbersKnown
  <2>3. SlotsKnown'
    BY <1>3 DEF Kernel!kernelcapi_fault, Kernel!TypeOK, SlotsKnown
  <2>. QED BY <2>1, <2>2, <2>3
<1>4. ASSUME NEW c \in Appls, Kernel!kernelcapi_set_signal(c) PROVE KernelInv'
  <2>1. Kernel!Lookup(c) = c
    BY <1>4 DEF Kernel!kernelcapi_set_signal, Kernel!Lookup, SlotsKnown
  <2>2. /\ UNCHANGED <<kernelcapi_appls, number, applid, ap>> /\ pc' = [pc EXCEPT ![c] = "idle"]
        /\ pc[c] = "idle" /\ \E signal \in BOOLEAN : sig' = [sig EXCEPT ![c] = signal]
    BY <1>4, <2>1 DEF Kernel!kernelcapi_set_signal
  <2>3. Kernel!TypeOK'
    BY <2>2 DEF Kernel!TypeOK
  <2>4. NumbersKnown' /\ SlotsKnown'
    BY <2>2 DEF Kernel!TypeOK, NumbersKnown, SlotsKnown
  <2>. QED BY <2>3, <2>4
<1>5. ASSUME NEW c \in Appls, Kernel!kernelcapi_release(c) PROVE KernelInv'
  <2>1. Kernel!Lookup(c) = c
    BY <1>5 DEF Kernel!kernelcapi_release, Kernel!Released, Kernel!Lookup, SlotsKnown
  <2>2. /\ pc[c] = "idle" /\ pc' = [pc EXCEPT ![c] = "clear"]
        /\ number' = [number EXCEPT ![c] = 0] /\ ap' = [ap EXCEPT ![c] = c]
        /\ UNCHANGED <<kernelcapi_appls, sig, applid>>
    BY <1>5, <2>1 DEF Kernel!kernelcapi_release, Kernel!Released
  <2>3. Kernel!TypeOK'
    BY <2>2 DEF Kernel!TypeOK
  <2>4. NumbersKnown'
    BY <2>2 DEF Kernel!TypeOK, NumbersKnown
  <2>5. SlotsKnown'
    BY <2>2 DEF Kernel!TypeOK, SlotsKnown
  <2>. QED BY <2>3, <2>4, <2>5
<1>6. ASSUME NEW c \in Appls, Kernel!kernelcapi_release_clear(c) PROVE KernelInv'
  <2>1. Kernel!TypeOK'
    BY <1>6 DEF Kernel!kernelcapi_release_clear, Kernel!TypeOK, NumbersKnown
  <2>2. NumbersKnown'
    BY <1>6 DEF Kernel!kernelcapi_release_clear, Kernel!TypeOK, NumbersKnown
  <2>3. SlotsKnown'
    BY <1>6 DEF Kernel!kernelcapi_release_clear, Kernel!TypeOK, NumbersKnown, SlotsKnown
  <2>. QED BY <2>1, <2>2, <2>3
<1>7. CASE UNCHANGED Kernel!vars
  <2>1. Kernel!TypeOK'
    BY <1>7 DEF Kernel!vars, Kernel!TypeOK
  <2>2. NumbersKnown' /\ SlotsKnown'
    BY <1>7 DEF Kernel!vars, NumbersKnown, SlotsKnown
  <2>. QED BY <2>1, <2>2
<1>. QED BY <1>1, <1>2, <1>3, <1>4, <1>5, <1>6, <1>7 DEF Kernel!Next

LEMMA KernelInvAlways == Kernel!Spec => []KernelInv
<1>1. Kernel!Init => KernelInv
  BY KernelInvInit
<1>2. KernelInv /\ [Kernel!Next]_(Kernel!vars) => KernelInv'
  BY KernelInvNext
<1>. QED BY <1>1, <1>2, PTL DEF Kernel!Spec

-------------------------------------------------------------------------------
(* The users.  The entries of the list, which has no cycle, are attached    *)
(* users that have a callback.                                              *)
UsersList(s) ==
  /\ LinkedAs(s, kernelcapi_iface_list, next, Null)
  /\ Distinct(s)
  /\ \A k \in 1 .. Len(s) : s[k] \in attached \ Silent

UsersInv ==
  /\ next \in [Users -> Users \cup {Null}]
  /\ attached \subseteq Users
  /\ \E s \in Seq(Users) : UsersList(s)

(* The walk of the list, in the words of this module.                       *)
LEMMA Walk ==
  ASSUME NEW u
  PROVE  /\ Iface!From(u) = ToSet(Chain(next, u, Null, Cardinality(Users)))
         /\ Iface!Listed = Iface!From(kernelcapi_iface_list)
<1>1. Iface!Cardinality(Users) = Cardinality(Users)
  BY DEF Iface!Cardinality, Cardinality
<1>2. \A n : Iface!Chain(next, u, Null, n) = Chain(next, u, Null, n)
  BY DEF Iface!Chain, Chain
<1>3. \A s : Iface!ToSet(s) = ToSet(s)
  BY DEF Iface!ToSet, ToSet
<1>. QED BY <1>1, <1>2, <1>3 DEF Iface!From, Iface!Listed

(* What the list holds from one of its entries on, and all of it.           *)
LEMMA ListedEntries ==
  ASSUME UsersInv, NEW s \in Seq(Users), UsersList(s)
  PROVE  /\ Iface!Listed = {s[k] : k \in 1 .. Len(s)}
         /\ \A k \in 1 .. Len(s) :
              Iface!From(next[s[k]]) = {s[j] : j \in k + 1 .. Len(s)}
<1>1. /\ next \in [Users -> Users \cup {Null}] /\ Null \notin Users
      /\ LinkedAs(s, kernelcapi_iface_list, next, Null) /\ Len(s) \in Nat
  BY UsersAssumption DEF UsersInv, UsersList
<1>2. Len(s) <= Cardinality(Users) /\ Cardinality(Users) \in Nat
  BY DistinctFit, UsersAssumption DEF UsersList
<1>3. Iface!Listed = {s[k] : k \in 1 .. Len(s)}
  <2>1. Chain(next, kernelcapi_iface_list, Null, Cardinality(Users)) = s
    BY <1>1, <1>2, ChainIsLinked
  <2>. QED BY <1>1, <2>1, Walk DEF ToSet
<1>4. ASSUME NEW k \in 1 .. Len(s)
      PROVE  Iface!From(next[s[k]]) = {s[j] : j \in k + 1 .. Len(s)}
  <2>1. PICK t : t = SubSeq(s, k + 1, Len(s))
    OBVIOUS
  <2>2. LinkedAs(t, next[s[k]], next, Null)
    BY <1>1, <2>1, LinkedAfter
  <2>3. k \in 0 .. Len(s)
    BY <1>1
  <2>4. /\ t \in Seq(Users) /\ Len(t) = Len(s) - k
        /\ \A j \in 1 .. Len(s) - k : t[j] = s[k + j]
    BY <2>1, <2>3, AfterEntries
  <2>5. Len(t) <= Cardinality(Users)
    BY <1>1, <1>2, <2>4
  <2>6. Chain(next, next[s[k]], Null, Cardinality(Users)) = t
    BY <1>1, <1>2, <2>2, <2>4, <2>5, ChainIsLinked
  <2>7. Iface!From(next[s[k]]) = {t[j] : j \in 1 .. Len(t)}
    BY <2>6, <2>4, Walk DEF ToSet
  <2>8. ASSUME NEW j \in k + 1 .. Len(s) PROVE j - k \in 1 .. Len(t) /\ t[j - k] = s[j]
    <3>1. j - k \in 1 .. Len(s) - k /\ k + (j - k) = j
      BY <1>1
    <3>. QED BY <2>4, <3>1
  <2>9. ASSUME NEW j \in 1 .. Len(t) PROVE k + j \in k + 1 .. Len(s) /\ t[j] = s[k + j]
    BY <1>1, <2>4
  <2>10. {t[j] : j \in 1 .. Len(t)} = {s[j] : j \in k + 1 .. Len(s)}
    <3>1. {t[j] : j \in 1 .. Len(t)} \subseteq {s[j] : j \in k + 1 .. Len(s)}
      BY <2>9
    <3>2. {s[j] : j \in k + 1 .. Len(s)} \subseteq {t[j] : j \in 1 .. Len(t)}
      BY <2>8
    <3>. QED BY <3>1, <3>2
  <2>. QED BY <2>7, <2>10
<1>. QED BY <1>3, <1>4

LEMMA UsersInvInit == Iface!Init => UsersInv
<1>. SUFFICES ASSUME Iface!Init PROVE UsersInv
  OBVIOUS
<1>1. /\ kernelcapi_iface_list = Null /\ next = [u \in Users |-> Null] /\ attached = {}
  BY DEF Iface!Init
<1>2. UsersList(<<>>)
  BY <1>1 DEF UsersList, LinkedAs, Distinct
<1>3. <<>> \in Seq(Users)
  OBVIOUS
<1>. QED BY <1>1, <1>2, <1>3 DEF UsersInv

(* attach links the user before the others.                                 *)
LEMMA AttachKeeps ==
  ASSUME UsersInv, NEW u \in Users, Iface!attach_capi_interface(u)
  PROVE  UsersInv'
<1>1. PICK s \in Seq(Users) : UsersList(s)
  BY DEF UsersInv
<1>2. /\ next \in [Users -> Users \cup {Null}] /\ attached \subseteq Users
      /\ LinkedAs(s, kernelcapi_iface_list, next, Null) /\ Distinct(s)
      /\ Len(s) \in Nat /\ \A k \in 1 .. Len(s) : s[k] \in attached \ Silent /\ s[k] \in Users
  BY <1>1 DEF UsersInv, UsersList
<1>3. u \notin attached /\ attached' = attached \cup {u}
  BY DEF Iface!attach_capi_interface
<1>4. CASE UNCHANGED <<kernelcapi_iface_list, next>>
  <2>1. UsersList(s)'
    BY <1>2, <1>3, <1>4 DEF UsersList
  <2>. QED BY <1>2, <1>3, <1>4, <2>1 DEF UsersInv
<1>5. CASE /\ u \notin Silent
           /\ next' = [next EXCEPT ![u] = kernelcapi_iface_list]
           /\ kernelcapi_iface_list' = u
  <2>1. PICK t : t = <<u>> \o s
    OBVIOUS
  <2>2. \A k \in 1 .. Len(s) : s[k] # u
    BY <1>2, <1>3
  <2>3. /\ t \in Seq(Users) /\ Len(t) = Len(s) + 1 /\ Distinct(t)
        /\ t[1] = u /\ \A k \in 2 .. Len(s) + 1 : t[k] = s[k - 1]
    BY <1>2, <2>1, <2>2, DistinctBefore
  <2>4. kernelcapi_iface_list \in Users \cup {Null}
    BY <1>2 DEF LinkedAs
  <2>5. /\ next' \in [Users -> Users \cup {Null}]
        /\ next'[u] = kernelcapi_iface_list
        /\ \A k \in 1 .. Len(s) : next'[s[k]] = next[s[k]]
    BY <1>2, <1>5, <2>2, <2>4
  <2>6. LinkedAs(t, u, next', Null)
    BY <1>2, <2>1, <2>5, LinkedBefore
  <2>7. ASSUME NEW k \in 1 .. Len(t) PROVE t[k] \in attached' \ Silent
    <3>1. k = 1 \/ (k \in 2 .. Len(s) + 1 /\ k - 1 \in 1 .. Len(s))
      BY <1>2, <2>3
    <3>. QED BY <1>2, <1>3, <1>5, <2>3, <3>1
  <2>9. UsersList(t)'
    BY <1>5, <2>3, <2>6, <2>7 DEF UsersList
  <2>. QED BY <1>2, <1>3, <2>3, <2>5, <2>9 DEF UsersInv
<1>. QED BY <1>4, <1>5 DEF Iface!attach_capi_interface

(* detach keeps what followed the user, and nothing if it was not listed.   *)
LEMMA DetachKeeps ==
  ASSUME UsersInv, NEW u \in Users, Iface!detach_capi_interface(u)
  PROVE  UsersInv'
<1>1. PICK s \in Seq(Users) : UsersList(s)
  BY DEF UsersInv
<1>2. /\ next \in [Users -> Users \cup {Null}] /\ attached \subseteq Users
      /\ LinkedAs(s, kernelcapi_iface_list, next, Null) /\ Distinct(s)
      /\ Len(s) \in Nat /\ \A k \in 1 .. Len(s) : s[k] \in attached \ Silent /\ s[k] \in Users
  BY <1>1 DEF UsersInv, UsersList
<1>3. /\ attached' = attached \ {u} /\ next' = next
      /\ kernelcapi_iface_list' = IF u \in Iface!Listed THEN next[u] ELSE Null
  BY DEF Iface!detach_capi_interface, Iface!NewHead
<1>4. Iface!Listed = {s[k] : k \in 1 .. Len(s)}
  BY <1>1, ListedEntries
<1>5. CASE u \in Iface!Listed
  <2>1. PICK k \in 1 .. Len(s) : s[k] = u
    BY <1>4, <1>5
  <2>2. PICK t : t = SubSeq(s, k + 1, Len(s))
    OBVIOUS
  <2>3. LinkedAs(t, next[u], next, Null)
    BY <1>2, <2>1, <2>2, LinkedAfter
  <2>4. k \in 0 .. Len(s)
    BY <1>2
  <2>5. /\ t \in Seq(Users) /\ Len(t) = Len(s) - k
        /\ \A j \in 1 .. Len(s) - k : t[j] = s[k + j]
    BY <2>2, <2>4, AfterEntries
  <2>6. \A j \in 1 .. Len(t) : k + j \in 1 .. Len(s) /\ k + j # k /\ t[j] = s[k + j]
    BY <1>2, <2>5
  <2>7. \A j \in 1 .. Len(t) : t[j] # u /\ t[j] \in attached \ Silent
    BY <1>2, <2>1, <2>6 DEF Distinct
  <2>8. Distinct(t)
    <3>. SUFFICES ASSUME NEW j \in 1 .. Len(t), NEW m \in 1 .. Len(t), t[j] = t[m]
                  PROVE  j = m
      BY DEF Distinct
    <3>1. k + j = k + m
      BY <1>2, <2>6 DEF Distinct
    <3>. QED BY <3>1, <1>2, <2>5
  <2>9. UsersList(t)'
    BY <1>3, <1>5, <2>3, <2>7, <2>8 DEF UsersList
  <2>. QED BY <1>2, <1>3, <2>5, <2>9 DEF UsersInv
<1>6. CASE u \notin Iface!Listed
  <2>1. UsersList(<<>>)'
    BY <1>3, <1>6 DEF UsersList, LinkedAs, Distinct
  <2>2. <<>> \in Seq(Users)
    OBVIOUS
  <2>. QED BY <1>2, <1>3, <2>1, <2>2 DEF UsersInv
<1>. QED BY <1>5, <1>6

LEMMA UsersInvNext == UsersInv /\ [Iface!Next]_(Iface!vars) => UsersInv'
<1>. SUFFICES ASSUME UsersInv, [Iface!Next]_(Iface!vars) PROVE UsersInv'
  OBVIOUS
<1>1. CASE UNCHANGED <<kernelcapi_iface_list, next, attached>>
  BY <1>1 DEF UsersInv, UsersList
<1>2. CASE \E u \in Users :
             Iface!attach_capi_interface(u) \/ Iface!detach_capi_interface(u)
  BY <1>2, AttachKeeps, DetachKeeps
<1>3. CASE Iface!kernelcapi_report \/ Iface!ReportGoesOn
  BY <1>1, <1>3 DEF Iface!kernelcapi_report, Iface!ReportGoesOn,
     Iface!kernelcapi_report_lock, Iface!kernelcapi_report_callback,
     Iface!kernelcapi_report_done
<1>. QED BY <1>1, <1>2, <1>3 DEF Iface!Next, Iface!vars

-------------------------------------------------------------------------------
(* The registries together.                                                *)
JointVars == <<vars, tableVars, ifaceVars>>

(* A step of the whole is a step of the list, ...                          *)
LEMMA ListSteps == ListInv /\ [JointNext]_JointVars => [Next]_vars
<1>. SUFFICES ASSUME ListInv, [JointNext]_JointVars PROVE Next \/ UNCHANGED vars
  OBVIOUS
<1>1. CASE UNCHANGED JointVars \/ UNCHANGED vars
  BY <1>1 DEF JointVars
<1>2. ASSUME NEW c \in Appls, ClientStep(c) PROVE Next \/ UNCHANGED vars
  <2>1. CASE kernelcapi_register(c)
    BY <2>1 DEF kernelcapi_register, Next
  <2>2. CASE kernelcapi_release(c)
    <3>1. PICK b : b = Kernel!Lookup(c)
      OBVIOUS
    <3>2. capi_release(b)
      BY <2>2, <3>1 DEF kernelcapi_release
    <3>. QED BY <3>2, GivesBack DEF Next
  <2>. QED BY <1>2, <2>1, <2>2 DEF ClientStep
<1>3. ASSUME NEW r \in Readers, ReaderStep(r) PROVE Next
  BY <1>3 DEF ReaderStep, Next
<1>. QED BY <1>1, <1>2, <1>3 DEF JointNext

LEMMA JointListInv == MaxAppls + 1 < IdLimit => (JointSpec => []ListInv)
<1>. SUFFICES ASSUME MaxAppls + 1 < IdLimit PROVE JointSpec => []ListInv
  OBVIOUS
<1>1. JointInit => ListInv
  BY ListInit DEF JointInit
<1>2. ListInv /\ [JointNext]_JointVars => ListInv'
  BY ListSteps, ListNext
<1>. QED BY <1>1, <1>2, PTL DEF JointSpec, JointVars

(* ... a step of the table, to which the list gives the least number that  *)
(* no client has, ...                                                      *)
LEMMA TableRegisters ==
  ASSUME ListInv, MaxAppls + 1 < IdLimit, NEW c \in Appls, kernelcapi_register(c)
  PROVE  Kernel!kernelcapi_register(c) \/ UNCHANGED Kernel!vars
<1>1. capi_register(c)
  BY DEF kernelcapi_register
<1>2. CASE WalkEnd <= MaxAppls
  <2>1. PICK n : n = WalkEnd
    OBVIOUS
  <2>2. /\ n \in 1 .. MaxAppls /\ c \in registered'
        /\ number' = [number EXCEPT ![c] = n]
        /\ \A b \in Appls : number[b] # n
        /\ \A m \in 1 .. n - 1 : \E b \in Appls : number[b] = m
    BY <1>1, <1>2, <2>1, GivesLeast
  <2>3. n \in Kernel!Free
    BY <2>2 DEF Kernel!Free, Kernel!Numbers
  <2>4. ASSUME NEW m \in Kernel!Free PROVE n <= m
    <3>1. m \in 1 .. MaxAppls /\ \A b \in Appls : number[b] # m
      BY <2>4 DEF Kernel!Free, Kernel!Numbers
    <3>2. m \notin 1 .. n - 1
      BY <2>2, <3>1
    <3>. QED BY <2>2, <3>1, <3>2, NumbersAssumption
  <2>5. Kernel!Allocated(c)
    BY <2>2 DEF kernelcapi_register
  <2>. QED BY <2>2, <2>3, <2>4, <2>5 DEF Kernel!kernelcapi_register
<1>3. CASE ~(WalkEnd <= MaxAppls)
  <2>1. number' = number /\ c \notin registered'
    BY <1>1, <1>3, GivesNone
  <2>2. UNCHANGED tableVars
    BY <2>1 DEF kernelcapi_register
  <2>. QED BY <2>1, <2>2 DEF tableVars, Kernel!vars
<1>. QED BY <1>2, <1>3

LEMMA TableReleases ==
  ASSUME ListInv, NEW c \in Appls, kernelcapi_release(c)
  PROVE  Kernel!kernelcapi_release(c)
<1>1. PICK b : b = Kernel!Lookup(c)
  OBVIOUS
<1>2. Kernel!Released(c) /\ capi_release(b)
  BY <1>1 DEF kernelcapi_release
<1>3. number' = [number EXCEPT ![b] = 0]
  BY <1>2, GivesBack
<1>. QED BY <1>1, <1>2, <1>3 DEF Kernel!kernelcapi_release

LEMMA TableSteps ==
  MaxAppls + 1 < IdLimit /\ ListInv /\ [JointNext]_JointVars => [Kernel!Next]_(Kernel!vars)
<1>. SUFFICES ASSUME MaxAppls + 1 < IdLimit, ListInv, [JointNext]_JointVars
              PROVE  Kernel!Next \/ UNCHANGED Kernel!vars
  OBVIOUS
<1>1. CASE UNCHANGED tableVars /\ UNCHANGED <<id, registered>>
  <2>1. number' = number
    BY <1>1 DEF number
  <2>. QED BY <1>1, <2>1 DEF tableVars, Kernel!vars
<1>2. ASSUME NEW c \in Appls, ClientStep(c) PROVE Kernel!Next \/ UNCHANGED Kernel!vars
  <2>1. CASE kernelcapi_register(c)
    BY <2>1, TableRegisters DEF Kernel!Next
  <2>2. CASE kernelcapi_release(c)
    BY <2>2, TableReleases DEF Kernel!Next
  <2>. QED BY <1>2, <2>1, <2>2 DEF ClientStep, Kernel!Next
<1>3. ASSUME NEW r \in Readers, ReaderStep(r)
      PROVE  UNCHANGED tableVars /\ UNCHANGED <<id, registered>>
  BY <1>3 DEF ReaderStep, appl_start, appl_next, appl_stop
<1>4. CASE UNCHANGED JointVars \/ UNCHANGED <<vars, tableVars>>
  BY <1>1, <1>4 DEF JointVars, vars
<1>. QED BY <1>1, <1>2, <1>3, <1>4 DEF JointNext

(* core.c:228-250, kernelcapi.c:53-102: the walk of add_capi_appl is the   *)
(* allocation that the table of the kernelcapi relies on, however clients  *)
(* come and go and /proc/capi is read; a refused registration leaves no    *)
(* trace.                                                                  *)
THEOREM TableIsImplemented == MaxAppls + 1 < IdLimit => (JointSpec => TableImplemented)
<1>. SUFFICES ASSUME MaxAppls + 1 < IdLimit PROVE JointSpec => TableImplemented
  OBVIOUS
<1>1. JointInit => Kernel!Init
  BY DEF JointInit
<1>2. ListInv /\ [JointNext]_JointVars => [Kernel!Next]_(Kernel!vars)
  BY TableSteps
<1>3. JointSpec => []ListInv
  BY JointListInv
<1>. QED BY <1>1, <1>2, <1>3, PTL DEF JointSpec, JointVars, TableImplemented, Kernel!Spec

(* kernelcapi.c:98-101: no slot leads to a structure that kernelcapi_release *)
(* has freed, however registrations, calls and releases overlap.             *)
THEOREM SlotsLive == MaxAppls + 1 < IdLimit => (JointSpec => []NoDanglingSlot)
<1>. SUFFICES ASSUME MaxAppls + 1 < IdLimit PROVE JointSpec => []NoDanglingSlot
  OBVIOUS
<1>1. KernelInv => NoDanglingSlot
  BY DEF KernelInv, SlotsKnown, NoDanglingSlot, Kernel!NoDanglingSlot
<1>2. JointSpec => Kernel!Spec
  BY TableIsImplemented DEF TableImplemented
<1>. QED BY <1>1, <1>2, KernelInvAlways, PTL

(* kernelcapi.c:105-157: a call with a client's number never uses the        *)
(* structure of another client, although numbers are re-used before their    *)
(* slots are emptied.                                                        *)
THEOREM SlotsOwn == MaxAppls + 1 < IdLimit => (JointSpec => []NoForeignSlot)
<1>. SUFFICES ASSUME MaxAppls + 1 < IdLimit PROVE JointSpec => []NoForeignSlot
  OBVIOUS
<1>1. KernelInv => NoForeignSlot
  BY DEF KernelInv, SlotsKnown, NoForeignSlot, Kernel!NoForeignSlot
<1>2. JointSpec => Kernel!Spec
  BY TableIsImplemented DEF TableImplemented
<1>. QED BY <1>1, <1>2, KernelInvAlways, PTL

(* ... and a step of the users.  kernelcapi.c:244-273: whatever the users, *)
(* however they attach and detach and whenever reports are made, the list  *)
(* of the users holds nobody who is detached, and it has no cycle.         *)
THEOREM UsersListed == JointSpec => []ListedAreAttached
<1>1. UsersInv => ListedAreAttached
  <2>. SUFFICES ASSUME UsersInv PROVE Iface!ListedAreAttached
    BY DEF ListedAreAttached
  <2>1. PICK s \in Seq(Users) : UsersList(s)
    BY DEF UsersInv
  <2>2. /\ Iface!Listed = {s[k] : k \in 1 .. Len(s)}
        /\ \A k \in 1 .. Len(s) :
             Iface!From(next[s[k]]) = {s[j] : j \in k + 1 .. Len(s)}
    BY <2>1, ListedEntries
  <2>3. \A k \in 1 .. Len(s) : s[k] \notin {s[j] : j \in k + 1 .. Len(s)}
    BY <2>1 DEF UsersList, Distinct
  <2>. QED BY <2>1, <2>2, <2>3 DEF Iface!ListedAreAttached, UsersList
<1>2. JointInit => UsersInv
  BY UsersInvInit DEF JointInit
<1>3. [JointNext]_JointVars => [Iface!Next]_(Iface!vars)
  BY DEF JointNext, JointVars, ifaceVars, Iface!vars
<1>4. UsersInv /\ [Iface!Next]_(Iface!vars) => UsersInv'
  BY UsersInvNext
<1>. QED BY <1>1, <1>2, <1>3, <1>4, PTL DEF JointSpec, JointVars
===============================================================================
