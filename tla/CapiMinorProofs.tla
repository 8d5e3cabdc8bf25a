---------------------------- MODULE CapiMinorProofs ----------------------------
(***************************************************************************)
(* Theorems about the data path of a middleware tty, for any bounds: what  *)
(* the tty writes reaches the device in order, once, and what the device   *)
(* sends reaches the line discipline in order, once, however the calls     *)
(* nest; and the ackqueue holds the requests that are to be confirmed.     *)
(***************************************************************************)
EXTENDS CapiMinor, ListLemmas

-------------------------------------------------------------------------------
(* Bytes are numbered as the tty takes them.  Of w bytes, all but the lost *)
(* ones l, in order:                                                       *)
Taken(s, w, l) ==
  /\ \A i, j \in DOMAIN s : i < j => s[i] < s[j]
  /\ ToSet(s) = (1 .. w) \ l

(* The next byte comes behind them ...                                     *)
LEMMA AppendTaken ==
  ASSUME NEW s \in Seq(Nat), NEW w \in Nat, NEW l \in SUBSET (1 .. w), Taken(s, w, l)
  PROVE  Taken(Append(s, w + 1), w + 1, l)
<1>1. PICK t : t = Append(s, w + 1)
  OBVIOUS
<1>2. /\ Len(s) \in Nat /\ DOMAIN s = 1 .. Len(s) /\ DOMAIN t = 1 .. Len(s) + 1
      /\ \A i \in 1 .. Len(s) : t[i] = s[i]
      /\ t[Len(s) + 1] = w + 1
  BY <1>1, AppendProperties
<1>3. \A i \in 1 .. Len(s) : s[i] \in 1 .. w
  BY <1>2 DEF Taken, ToSet
<1>4. ASSUME NEW i \in DOMAIN t, NEW j \in DOMAIN t, i < j PROVE t[i] < t[j]
  <2>1. CASE j = Len(s) + 1
    <3>1. i \in 1 .. Len(s)
      BY <1>2, <1>4, <2>1
    <3> QED
      BY <1>2, <1>3, <2>1, <3>1
  <2>2. CASE j # Len(s) + 1
    <3>1. i \in DOMAIN s /\ j \in DOMAIN s
      BY <1>2, <1>4, <2>2
    <3>2. s[i] < s[j]
      BY <1>4, <3>1 DEF Taken
    <3> QED
      BY <1>2, <3>1, <3>2
  <2> QED
    BY <2>1, <2>2
<1>5. ToSet(t) = ToSet(s) \cup {w + 1}
  <2>1. \A i \in DOMAIN t : t[i] \in ToSet(s) \cup {w + 1}
    BY <1>2 DEF ToSet
  <2>2. \A i \in DOMAIN s : i \in DOMAIN t /\ t[i] = s[i]
    BY <1>2
  <2>3. Len(s) + 1 \in DOMAIN t
    BY <1>2
  <2> QED
    BY <1>2, <2>1, <2>2, <2>3 DEF ToSet
<1>6. ToSet(t) = (1 .. w + 1) \ l
  BY <1>5 DEF Taken
<1> QED
  BY <1>1, <1>4, <1>6 DEF Taken

(* ... or is lost.                                                         *)
LEMMA LoseTaken ==
  ASSUME NEW s, NEW w \in Nat, NEW l \in SUBSET (1 .. w), Taken(s, w, l)
  PROVE  Taken(s, w + 1, l \cup {w + 1})
<1>1. (1 .. w) \ l = (1 .. w + 1) \ (l \cup {w + 1})
  OBVIOUS
<1> QED
  BY <1>1 DEF Taken

(* A block in their midst may be lost.                                     *)
LEMMA DropTaken ==
  ASSUME NEW a \in Seq(Nat), NEW b \in Seq(Nat), NEW c \in Seq(Nat), NEW w, NEW l,
         Taken(a \o (b \o c), w, l)
  PROVE  Taken(a \o c, w, l \cup ToSet(b)) /\ ToSet(b) \subseteq 1 .. w
<1>1. PICK bc : bc = b \o c
  OBVIOUS
<1>2. PICK s, t : s = a \o bc /\ t = a \o c
  OBVIOUS
<1>3. /\ Len(a) \in Nat /\ Len(b) \in Nat /\ Len(c) \in Nat
      /\ DOMAIN a = 1 .. Len(a) /\ DOMAIN b = 1 .. Len(b) /\ DOMAIN c = 1 .. Len(c)
  OBVIOUS
<1>4. /\ bc \in Seq(Nat) /\ Len(bc) = Len(b) + Len(c)
      /\ \A i \in 1 .. Len(b) : bc[i] = b[i]
      /\ \A i \in 1 .. Len(c) : bc[Len(b) + i] = c[i]
  BY <1>1, ConcatEntries
<1>5. /\ s \in Seq(Nat) /\ Len(s) = Len(a) + (Len(b) + Len(c)) /\ DOMAIN s = 1 .. Len(s)
      /\ \A i \in 1 .. Len(a) : s[i] = a[i]
      /\ \A i \in 1 .. Len(b) + Len(c) : s[Len(a) + i] = bc[i]
  <2>1. /\ s \in Seq(Nat) /\ Len(s) = Len(a) + Len(bc)
        /\ \A i \in 1 .. Len(a) : s[i] = a[i]
        /\ \A i \in 1 .. Len(bc) : s[Len(a) + i] = bc[i]
    <3>1. bc \in Seq(Nat) /\ s = a \o bc
      BY <1>2, <1>4
    <3> QED
      BY <3>1, ConcatEntries
  <2> QED
    BY <1>4, <2>1
<1>6. /\ t \in Seq(Nat) /\ Len(t) = Len(a) + Len(c) /\ DOMAIN t = 1 .. Len(t)
      /\ \A i \in 1 .. Len(t) : t[i] = IF i <= Len(a) THEN a[i] ELSE c[i - Len(a)]
  BY <1>2, ConcatProperties
<1> DEFINE From(i) == IF i <= Len(a) THEN i ELSE i + Len(b)
<1>7. ASSUME NEW i \in DOMAIN t PROVE From(i) \in DOMAIN s /\ t[i] = s[From(i)]
  <2>1. CASE i <= Len(a)
    BY <1>3, <1>5, <1>6, <2>1
  <2>2. CASE ~(i <= Len(a))
    <3>1. PICK k : k = i - Len(a)
      OBVIOUS
    <3>2. k \in 1 .. Len(c) /\ i \in Nat /\ i = Len(a) + k
      BY <1>3, <1>6, <2>2, <3>1
    <3>4. /\ Len(b) + k \in 1 .. Len(b) + Len(c)
          /\ Len(a) + (Len(b) + k) = i + Len(b)
          /\ Len(a) + (Len(b) + k) \in DOMAIN s
      BY <1>3, <1>5, <3>2
    <3>3. t[i] = c[k] /\ bc[Len(b) + k] = c[k] /\ s[Len(a) + (Len(b) + k)] = bc[Len(b) + k]
      BY <1>4, <1>5, <1>6, <2>2, <3>1, <3>2, <3>4
    <3> QED
      BY <2>2, <3>3, <3>4
  <2> QED
    BY <2>1, <2>2
<1>8. ASSUME NEW i \in DOMAIN t, NEW j \in DOMAIN t, i < j PROVE t[i] < t[j]
  <2>1. From(i) < From(j)
    BY <1>3, <1>6, <1>8
  <2>2. From(i) \in DOMAIN s /\ From(j) \in DOMAIN s /\ t[i] = s[From(i)] /\ t[j] = s[From(j)]
    BY <1>7
  <2> HIDE DEF From
  <2> QED
    BY <1>1, <1>2, <2>1, <2>2 DEF Taken
<1>9. ASSUME NEW k \in DOMAIN b
      PROVE  Len(a) + k \in DOMAIN s /\ s[Len(a) + k] = b[k]
  <2>1. k \in 1 .. Len(b) /\ k \in 1 .. Len(b) + Len(c) /\ Len(a) + k \in 1 .. Len(s)
    BY <1>3, <1>5
  <2> QED
    BY <1>4, <1>5, <2>1
<1>10. ASSUME NEW i \in DOMAIN t PROVE t[i] \in ToSet(s) /\ t[i] \notin ToSet(b)
  <2>1. t[i] \in ToSet(s)
    BY <1>7 DEF ToSet
  <2>2. ASSUME NEW k \in DOMAIN b PROVE t[i] # b[k]
    <3>1. Len(a) + k < From(i) \/ From(i) < Len(a) + k
      BY <1>3, <1>6
    <3>2. From(i) \in DOMAIN s /\ t[i] = s[From(i)]
      BY <1>7
    <3> HIDE DEF From
    <3>3. s[Len(a) + k] < s[From(i)] \/ s[From(i)] < s[Len(a) + k]
      BY <1>1, <1>2, <1>9, <3>1, <3>2 DEF Taken
    <3>4. s[From(i)] \in Nat
      BY <1>5, <3>2
    <3> QED
      BY <1>9, <3>2, <3>3, <3>4
  <2> QED
    BY <2>1, <2>2 DEF ToSet
<1>11. ASSUME NEW i \in DOMAIN s, s[i] \notin ToSet(b) PROVE s[i] \in ToSet(t)
  <2>1. CASE i <= Len(a)
    <3>1. i \in DOMAIN t /\ From(i) = i
      BY <1>3, <1>5, <1>6, <2>1
    <3> QED
      BY <1>7, <3>1 DEF ToSet
  <2>2. CASE i > Len(a) /\ i <= Len(a) + Len(b)
    <3>1. i - Len(a) \in DOMAIN b /\ Len(a) + (i - Len(a)) = i
      BY <1>3, <1>5, <2>2
    <3>2. s[i] = b[i - Len(a)]
      BY <1>9, <3>1
    <3> QED
      BY <1>11, <3>1, <3>2 DEF ToSet
  <2>3. CASE i > Len(a) + Len(b)
    <3>1. i - Len(b) \in DOMAIN t /\ From(i - Len(b)) = i
      BY <1>3, <1>5, <1>6, <2>3, SMTT(30)
    <3> QED
      BY <1>7, <3>1 DEF ToSet
  <2> QED
    BY <1>3, <1>5, <2>1, <2>2, <2>3
<1> HIDE DEF From
<1>12. ToSet(t) = ToSet(s) \ ToSet(b) /\ ToSet(b) \subseteq ToSet(s)
  BY <1>9, <1>10, <1>11 DEF ToSet
<1> QED
  BY <1>1, <1>2, <1>8, <1>12 DEF Taken

(* There are no more of them than w.                                       *)
LEMMA TakenFits ==
  ASSUME NEW s \in Seq(Nat), NEW w \in Nat, NEW l, Taken(s, w, l)
  PROVE  Len(s) <= w
<1> DEFINE n == Len(s)
           P == {k \in 0 .. n : k # 0 => s[k] >= k}
<1>1. n \in Nat /\ DOMAIN s = 1 .. n /\ \A k \in 1 .. n : s[k] \in Nat
  OBVIOUS
<1> HIDE DEF n
<1>2. \A k \in 1 .. n : s[k] \in 1 .. w
  BY <1>1 DEF Taken, ToSet
<1>3. 0 \in P
  BY <1>1
<1>4. ASSUME NEW k \in 0 .. n - 1, k \in P PROVE k + 1 \in P
  <2>1. k + 1 \in 1 .. n /\ k + 1 \in 0 .. n
    BY <1>1
  <2>2. CASE k = 0
    BY <1>2, <2>1, <2>2
  <2>3. CASE k # 0
    <3>1. k \in DOMAIN s /\ k + 1 \in DOMAIN s /\ k < k + 1
      BY <1>1, <2>1, <2>3
    <3>2. s[k] < s[k + 1] /\ s[k] >= k
      BY <1>4, <2>3, <3>1 DEF Taken
    <3> QED
      BY <1>1, <2>1, <3>1, <3>2
  <2> QED
    BY <2>2, <2>3
<1> HIDE DEF P
<1>5. n \in 0 .. n /\ \A k \in 0 .. n - 1 : k \in P => k + 1 \in P
  BY <1>1, <1>4
<1>6. n \in P
  BY <1>1, <1>3, <1>5, UpTo
<1>7. n # 0 => s[n] >= n /\ s[n] \in 1 .. w
  BY <1>1, <1>2, <1>6 DEF P
<1> QED
  BY <1>1, <1>7 DEF n

-------------------------------------------------------------------------------
(* Output.  Besides the order of the bytes, outbytes is what it counts: so *)
(* it never exceeds the bytes that were written.                           *)
Bytes == 1 .. MaxWritten

OutputTyped ==
  /\ ttyskb \in Blocks /\ outqueue \in Seq(Blocks)
  /\ written \in 0 .. MaxWritten /\ sent \in Seq(Bytes) /\ lost \subseteq 1 .. written

OutbytesExact == outbytes = Len(FlattenSeq(outqueue))

OutputInv == OutputTyped /\ OutputInOrder /\ OutbytesExact

LEMMA OutputFacts ==
  ASSUME OutputTyped
  PROVE  /\ ttyskb \in Seq(Bytes) /\ sent \in Seq(Bytes) /\ outqueue \in Seq(Seq(Bytes))
         /\ FlattenSeq(outqueue) \in Seq(Bytes)
         /\ written \in Nat /\ lost \in SUBSET (1 .. written)
         /\ \A s \in Seq(Bytes) : s \in Seq(Nat) /\ Len(s) \in Nat
         /\ \A s, t \in Seq(Bytes) : s \o t \in Seq(Bytes) /\ Len(s \o t) = Len(s) + Len(t)
         /\ \A s \in Seq(Bytes) : s \o <<>> = s /\ <<>> \o s = s
<1>1. Blocks \subseteq Seq(Bytes)
  BY DEF Blocks, Bytes
<1>2. outqueue \in Seq(Seq(Bytes))
  BY <1>1, SeqMonotonic DEF OutputTyped
<1>3. FlattenSeq(outqueue) \in Seq(Bytes)
  BY <1>2, FlattenInSeq
<1>4. ASSUME NEW s \in Seq(Bytes) PROVE s \in Seq(Nat) /\ Len(s) \in Nat
  <2>1. Bytes \subseteq Nat
    BY DEF Bytes
  <2>2. s \in Seq(Nat)
    BY <2>1, SeqMonotonic
  <2> QED
    BY <2>2
<1>5. \A s, t \in Seq(Bytes) : s \o t \in Seq(Bytes) /\ Len(s \o t) = Len(s) + Len(t)
  BY ConcatProperties
<1>7. \A s \in Seq(Bytes) : s \o <<>> = s /\ <<>> \o s = s
  BY ConcatEmptySeq
<1>8. written \in Nat /\ lost \in SUBSET (1 .. written) /\ ttyskb \in Seq(Bytes) /\ sent \in Seq(Bytes)
  BY <1>1, MinorAssumption DEF OutputTyped
<1> QED
  BY <1>2, <1>3, <1>4, <1>5, <1>7, <1>8

LEMMA BytesAssociate == \A s, t, u \in Seq(Bytes) : s \o t \o u = s \o (t \o u)
BY ConcatAssociative

LEMMA OutputOfFields ==
  ASSUME OutputInv,
         UNCHANGED <<ttyskb, outqueue, outbytes, written, sent, lost>>
  PROVE  OutputInv'
BY DEF OutputInv, OutputTyped, OutputInOrder, OutbytesExact

NoOutput ==
  ttyskb = <<>> /\ outqueue = <<>> /\ outbytes = 0 /\ written = 0 /\ sent = <<>> /\ lost = {}

LEMMA OutputCleared == NoOutput => OutputInv
<1>0. SUFFICES ASSUME NoOutput PROVE OutputInv
  OBVIOUS
<1>1. FlattenSeq(outqueue) = <<>>
  BY <1>0, FlattenEmpty DEF NoOutput
<1>2. <<>> \in Seq(Nat) /\ Len(<<>>) = 0 /\ DOMAIN <<>> = {} /\ <<>> \in Blocks
  BY MinorAssumption DEF Blocks
<1>3. sent \o FlattenSeq(outqueue) \o ttyskb = <<>>
  BY <1>0, <1>1, <1>2, ConcatEmptySeq DEF NoOutput
<1>4. OutputInOrder
  BY <1>0, <1>2, <1>3 DEF OutputInOrder, ToSet, NoOutput
<1>5. OutputTyped
  BY <1>0, <1>2, MinorAssumption DEF OutputTyped, NoOutput
<1> QED
  BY <1>0, <1>1, <1>2, <1>4, <1>5 DEF OutputInv, OutbytesExact, NoOutput

(* The block of put_char joins the queue.                                  *)
LEMMA FlushedBytes ==
  ASSUME OutputTyped
  PROVE  Flushed \in Seq(Blocks) /\ FlattenSeq(Flushed) = FlattenSeq(outqueue) \o ttyskb
<1>1. CASE ttyskb = <<>>
  BY <1>1, OutputFacts DEF Flushed, OutputTyped
<1>2. CASE ttyskb # <<>>
  <2>1. Flushed = Append(outqueue, ttyskb)
    BY <1>2 DEF Flushed
  <2>2. Append(outqueue, ttyskb) \in Seq(Blocks)
    BY AppendProperties DEF OutputTyped
  <2>3. FlattenSeq(Append(outqueue, ttyskb)) = FlattenSeq(outqueue) \o ttyskb
    BY OutputFacts, FlattenAppend
  <2> QED
    BY <2>1, <2>2, <2>3
<1> QED
  BY <1>1, <1>2

(* What flush_chars, and a write that gets no memory, do.                  *)
LEMMA OutputFlushed ==
  ASSUME OutputInv, ttyskb' = <<>>, outqueue' = Flushed, outbytes' = outbytes + Len(ttyskb),
         UNCHANGED <<written, sent, lost>>
  PROVE  OutputInv'
<1>1. PICK f : f = FlattenSeq(outqueue)
  OBVIOUS
<1>2. OutputTyped /\ OutputInOrder /\ outbytes = Len(f)
  BY <1>1 DEF OutputInv, OutbytesExact
<1>3. FlattenSeq(outqueue') = f \o ttyskb /\ outqueue' \in Seq(Blocks)
  BY <1>1, <1>2, FlushedBytes
<1>4. f \in Seq(Bytes) /\ ttyskb \in Seq(Bytes) /\ sent \in Seq(Bytes)
  BY <1>1, <1>2, OutputFacts
<1>5. sent \o (f \o ttyskb) \o <<>> = sent \o f \o ttyskb
  <2>1. PICK g : g = f \o ttyskb
    OBVIOUS
  <2>2. g \in Seq(Bytes) /\ sent \o f \o ttyskb = sent \o g
    <3>1. g \in Seq(Bytes)
      BY <1>4, <2>1, ConcatProperties
    <3>2. sent \o f \o ttyskb = sent \o (f \o ttyskb)
      BY <1>4, BytesAssociate
    <3>. QED BY <2>1, <3>1, <3>2
  <2>3. sent \o g \in Seq(Bytes)
    BY <1>2, <1>4, <2>2, OutputFacts
  <2>4. sent \o g \o <<>> = sent \o g
    BY <1>2, <2>3, OutputFacts
  <2> QED
    BY <2>1, <2>2, <2>4
<1>6. OutputInOrder'
  BY <1>1, <1>2, <1>3, <1>5 DEF OutputInOrder
<1>7. OutbytesExact'
  BY <1>2, <1>3, <1>4, OutputFacts DEF OutbytesExact
<1>8. <<>> \in Blocks
  BY MinorAssumption DEF Blocks
<1>9. OutputTyped'
  BY <1>2, <1>3, <1>8 DEF OutputTyped
<1> QED
  BY <1>6, <1>7, <1>9 DEF OutputInv

(* The next byte comes behind all that there are ...                       *)
LEMMA NextByte ==
  ASSUME OutputInv, written < MaxWritten
  PROVE  LET stream == sent \o FlattenSeq(outqueue) \o ttyskb
             next == stream \o <<written + 1>> IN
         /\ written + 1 \in Bytes /\ written + 1 \in 0 .. MaxWritten
         /\ <<written + 1>> \in Seq(Bytes) /\ <<written + 1>> \in Blocks
         /\ \A i, j \in DOMAIN next : i < j => next[i] < next[j]
         /\ ToSet(next) = (1 .. written + 1) \ lost
<1>1. PICK stream : stream = sent \o FlattenSeq(outqueue) \o ttyskb
  OBVIOUS
<1>2. OutputTyped /\ Taken(stream, written, lost)
  BY <1>1 DEF OutputInv, OutputInOrder, Taken
<1>3. stream \in Seq(Bytes)
  BY <1>1, <1>2, OutputFacts
<1>4. written + 1 \in Bytes /\ written + 1 \in 0 .. MaxWritten
  BY <1>2, MinorAssumption DEF OutputTyped, Bytes
<1>5. Append(stream, written + 1) = stream \o <<written + 1>>
  BY <1>3, <1>4, AppendIsConcat
<1>6. Taken(Append(stream, written + 1), written + 1, lost)
  BY <1>2, <1>3, OutputFacts, AppendTaken
<1>7. <<written + 1>> \in Seq(Bytes) /\ <<written + 1>> \in Blocks
  <2>1. <<written + 1>> \in Seq(Bytes) /\ Len(<<written + 1>>) = 1
    BY <1>4
  <2> QED
    BY <2>1, MinorAssumption DEF Blocks, Bytes
<1> QED
  BY <1>1, <1>4, <1>5, <1>6, <1>7 DEF Taken

(* ... a write: in a block of its own ...                                  *)
LEMMA OutputWritten ==
  ASSUME OutputInv, written < MaxWritten, ttyskb' = <<>>, written' = written + 1,
         outqueue' = Append(Flushed, <<written + 1>>),
         outbytes' = outbytes + Len(ttyskb) + 1,
         UNCHANGED <<sent, lost>>
  PROVE  OutputInv'
<1>1. PICK f, b : f = FlattenSeq(outqueue) /\ b = <<written + 1>>
  OBVIOUS
<1>2. OutputTyped /\ outbytes = Len(f)
  BY <1>1 DEF OutputInv, OutbytesExact
<1>3. /\ f \in Seq(Bytes) /\ ttyskb \in Seq(Bytes) /\ sent \in Seq(Bytes) /\ b \in Seq(Bytes)
      /\ b \in Blocks /\ f \o ttyskb \in Seq(Bytes) /\ Len(b) = 1
  BY <1>1, <1>2, OutputFacts, NextByte
<1>4. Flushed \in Seq(Blocks) /\ Flushed \in Seq(Seq(Bytes)) /\ FlattenSeq(Flushed) = f \o ttyskb
  <2>1. Blocks \subseteq Seq(Bytes)
    BY DEF Blocks, Bytes
  <2>2. Flushed \in Seq(Blocks) /\ FlattenSeq(Flushed) = f \o ttyskb
    BY <1>1, <1>2, FlushedBytes
  <2> QED
    BY <2>1, <2>2, SeqMonotonic
<1>5. FlattenSeq(outqueue') = (f \o ttyskb) \o b /\ outqueue' \in Seq(Blocks)
  <2>1. FlattenSeq(Append(Flushed, b)) = FlattenSeq(Flushed) \o b
    BY <1>3, <1>4, FlattenAppend
  <2>2. Append(Flushed, b) \in Seq(Blocks)
    BY <1>3, <1>4, AppendProperties
  <2> QED
    BY <1>1, <1>4, <2>1, <2>2
<1>6. sent \o ((f \o ttyskb) \o b) \o <<>> = sent \o f \o ttyskb \o b
  <2>1. PICK g, h : g = f \o ttyskb /\ h = g \o b
    OBVIOUS
  <2>2. g \in Seq(Bytes) /\ h \in Seq(Bytes)
    BY <1>2, <1>3, <2>1, OutputFacts
  <2>3. sent \o h \in Seq(Bytes)
    BY <1>2, <1>3, <2>2, OutputFacts
  <2>4. sent \o h \o <<>> = sent \o h
    BY <1>2, <2>3, OutputFacts
  <2>5. sent \o g \o b = sent \o h
    <3>1. sent \in Seq(Bytes) /\ g \in Seq(Bytes) /\ b \in Seq(Bytes) /\ h = g \o b
      BY <1>3, <2>1, <2>2
    <3> QED
      BY <3>1, BytesAssociate
  <2>6. sent \o f \o ttyskb = sent \o g
    BY <1>3, <2>1, BytesAssociate
  <2> QED
    BY <2>1, <2>4, <2>5, <2>6
<1>7. OutputInOrder'
  <2>1. sent' \o FlattenSeq(outqueue') \o ttyskb' = sent \o FlattenSeq(outqueue) \o ttyskb \o <<written + 1>>
    BY <1>1, <1>5, <1>6
  <2> QED
    BY <2>1, NextByte DEF OutputInOrder
<1>8. OutbytesExact'
  <2>1. Len(f \o ttyskb) = Len(f) + Len(ttyskb)
    BY <1>2, <1>3, OutputFacts
  <2>2. Len((f \o ttyskb) \o b) = Len(f \o ttyskb) + Len(b)
    BY <1>2, <1>3, OutputFacts
  <2> QED
    BY <1>2, <1>3, <1>5, <2>1, <2>2 DEF OutbytesExact
<1>9. <<>> \in Blocks
  BY MinorAssumption DEF Blocks
<1>10. OutputTyped'
  <2>1. written + 1 \in 0 .. MaxWritten /\ lost \subseteq 1 .. written + 1
    BY <1>2, NextByte, MinorAssumption DEF OutputTyped
  <2> QED
    BY <1>2, <1>5, <1>9, <2>1 DEF OutputTyped
<1> QED
  BY <1>7, <1>8, <1>10 DEF OutputInv

(* ... and put_char: in its block ...                                      *)
LEMMA OutputPut ==
  ASSUME OutputInv, written < MaxWritten, written' = written + 1, Tailroom,
         ttyskb' = Append(ttyskb, written + 1),
         UNCHANGED <<outqueue, outbytes, sent, lost>>
  PROVE  OutputInv'
<1>1. PICK f, b : f = FlattenSeq(outqueue) /\ b = <<written + 1>>
  OBVIOUS
<1>2. OutputTyped /\ OutbytesExact
  BY DEF OutputInv
<1>3. /\ f \in Seq(Bytes) /\ ttyskb \in Seq(Bytes) /\ sent \in Seq(Bytes) /\ b \in Seq(Bytes)
      /\ written + 1 \in Bytes
  BY <1>1, <1>2, OutputFacts, NextByte
<1>4. /\ ttyskb' = ttyskb \o b /\ ttyskb' \in Seq(Bytes) /\ Len(ttyskb') = Len(ttyskb) + 1
  BY <1>1, <1>3, AppendIsConcat, AppendProperties
<1>5. ttyskb' \in Blocks
  <2>1. Len(ttyskb) < BlkSize /\ Len(ttyskb) \in Nat
    BY <1>3 DEF Tailroom
  <2> QED
    BY <1>4, <2>1, MinorAssumption DEF Blocks, Bytes
<1>6. OutputInOrder'
  <2>1. PICK g : g = sent \o f
    OBVIOUS
  <2>2. g \in Seq(Bytes)
    BY <1>2, <1>3, <2>1, OutputFacts
  <2>3. g \o ttyskb \o b = g \o (ttyskb \o b)
    BY <1>3, <2>2, BytesAssociate
  <2>4. sent' \o FlattenSeq(outqueue') \o ttyskb' = sent \o FlattenSeq(outqueue) \o ttyskb \o <<written + 1>>
    BY <1>1, <1>4, <2>1, <2>3
  <2> QED
    BY <2>4, NextByte DEF OutputInOrder
<1>7. OutputTyped'
  <2>1. written + 1 \in 0 .. MaxWritten /\ lost \subseteq 1 .. written + 1
    BY <1>2, NextByte, MinorAssumption DEF OutputTyped
  <2> QED
    BY <1>2, <1>5, <2>1 DEF OutputTyped
<1> QED
  BY <1>2, <1>6, <1>7 DEF OutputInv, OutbytesExact

(* ... or, when that is full, in the next one ...                          *)
LEMMA OutputPutNext ==
  ASSUME OutputInv, written < MaxWritten, written' = written + 1, ttyskb' = <<written + 1>>,
         outqueue' = Flushed, outbytes' = outbytes + Len(ttyskb),
         UNCHANGED <<sent, lost>>
  PROVE  OutputInv'
<1>1. PICK f, b : f = FlattenSeq(outqueue) /\ b = <<written + 1>>
  OBVIOUS
<1>2. OutputTyped /\ outbytes = Len(f)
  BY <1>1 DEF OutputInv, OutbytesExact
<1>3. /\ f \in Seq(Bytes) /\ ttyskb \in Seq(Bytes) /\ sent \in Seq(Bytes) /\ b \in Seq(Bytes)
      /\ b \in Blocks
  BY <1>1, <1>2, OutputFacts, NextByte
<1>4. FlattenSeq(outqueue') = f \o ttyskb /\ outqueue' \in Seq(Blocks)
  BY <1>1, <1>2, FlushedBytes
<1>5. OutputInOrder'
  <2>1. sent \o f \o ttyskb = sent \o (f \o ttyskb)
    BY <1>3, BytesAssociate
  <2>2. sent' \o FlattenSeq(outqueue') \o ttyskb' = sent \o FlattenSeq(outqueue) \o ttyskb \o <<written + 1>>
    BY <1>1, <1>4, <2>1
  <2> QED
    BY <2>2, NextByte DEF OutputInOrder
<1>6. OutbytesExact'
  BY <1>2, <1>3, <1>4, OutputFacts DEF OutbytesExact
<1>7. OutputTyped'
  <2>1. written + 1 \in 0 .. MaxWritten /\ lost \subseteq 1 .. written + 1
    BY <1>2, NextByte, MinorAssumption DEF OutputTyped
  <2> QED
    BY <1>1, <1>2, <1>3, <1>4, <2>1 DEF OutputTyped
<1> QED
  BY <1>5, <1>6, <1>7 DEF OutputInv

(* ... for which there may be no memory.                                   *)
LEMMA OutputPutLost ==
  ASSUME OutputInv, written < MaxWritten, written' = written + 1, ttyskb' = <<>>,
         outqueue' = Flushed, outbytes' = outbytes + Len(ttyskb),
         lost' = lost \cup {written + 1}, UNCHANGED sent
  PROVE  OutputInv'
<1>1. PICK f : f = FlattenSeq(outqueue)
  OBVIOUS
<1>2. OutputTyped /\ OutputInOrder /\ outbytes = Len(f)
  BY <1>1 DEF OutputInv, OutbytesExact
<1>3. f \in Seq(Bytes) /\ ttyskb \in Seq(Bytes) /\ sent \in Seq(Bytes)
  BY <1>1, <1>2, OutputFacts
<1>4. FlattenSeq(outqueue') = f \o ttyskb /\ outqueue' \in Seq(Blocks)
  BY <1>1, <1>2, FlushedBytes
<1>5. OutputInOrder'
  <2>1. PICK g : g = f \o ttyskb
    OBVIOUS
  <2>2. g \in Seq(Bytes) /\ sent \o f \o ttyskb = sent \o g
    <3>1. g \in Seq(Bytes)
      BY <1>3, <2>1, ConcatProperties
    <3>2. sent \o f \o ttyskb = sent \o (f \o ttyskb)
      BY <1>3, BytesAssociate
    <3>. QED BY <2>1, <3>1, <3>2
  <2>3. sent \o g \in Seq(Bytes)
    BY <1>2, <1>3, <2>2, OutputFacts
  <2>4. sent \o g \o <<>> = sent \o g
    BY <1>2, <2>3, OutputFacts
  <2>5. Taken(sent \o g, written + 1, lost \cup {written + 1})
    BY <1>1, <1>2, <2>2, OutputFacts, LoseTaken DEF OutputInOrder, Taken
  <2>6. sent' \o FlattenSeq(outqueue') \o ttyskb' = sent \o g
    BY <1>4, <2>1, <2>4
  <2> QED
    BY <2>5, <2>6 DEF OutputInOrder, Taken
<1>6. OutbytesExact'
  BY <1>2, <1>3, <1>4, OutputFacts DEF OutbytesExact
<1>7. <<>> \in Blocks
  BY MinorAssumption DEF Blocks
<1>8. OutputTyped'
  <2>1. written + 1 \in 0 .. MaxWritten /\ lost \cup {written + 1} \subseteq 1 .. written + 1
    BY <1>2, NextByte, MinorAssumption DEF OutputTyped
  <2> QED
    BY <1>2, <1>4, <1>7, <2>1 DEF OutputTyped
<1> QED
  BY <1>5, <1>6, <1>8 DEF OutputInv

(* A block that the device takes is sent, and one that it refuses for good *)
(* is lost; either way it leaves the queue.                                *)
LEMMA QueueHead ==
  ASSUME OutputTyped, outqueue # <<>>
  PROVE  /\ Head(outqueue) \in Seq(Bytes) /\ Tail(outqueue) \in Seq(Blocks)
         /\ FlattenSeq(Tail(outqueue)) \in Seq(Bytes)
         /\ FlattenSeq(outqueue) = Head(outqueue) \o FlattenSeq(Tail(outqueue))
         /\ Len(FlattenSeq(outqueue)) - Len(Head(outqueue)) = Len(FlattenSeq(Tail(outqueue)))
<1>1. Tail(outqueue) \in Seq(Blocks)
  BY HeadTailProperties DEF OutputTyped
<1>2. Head(outqueue) \in Seq(Bytes) /\ Tail(outqueue) \in Seq(Seq(Bytes))
  BY OutputFacts, HeadTailProperties
<1>3. FlattenSeq(Tail(outqueue)) \in Seq(Bytes)
  BY <1>2, FlattenInSeq
<1>4. FlattenSeq(outqueue) = Head(outqueue) \o FlattenSeq(Tail(outqueue))
  BY OutputFacts, FlattenHeadTail
<1>5. Len(FlattenSeq(outqueue)) - Len(Head(outqueue)) = Len(FlattenSeq(Tail(outqueue)))
  <2>1. PICK h, g : h = Head(outqueue) /\ g = FlattenSeq(Tail(outqueue))
    OBVIOUS
  <2>2. h \in Seq(Bytes) /\ g \in Seq(Bytes)
    BY <1>2, <1>3, <2>1
  <2>3. Len(h \o g) = Len(h) + Len(g) /\ Len(h) \in Nat /\ Len(g) \in Nat
    BY <2>2, OutputFacts
  <2>4. Len(h \o g) - Len(h) = Len(g)
    BY <2>3
  <2> QED
    BY <1>4, <2>1, <2>4
<1> QED
  BY <1>1, <1>2, <1>3, <1>4, <1>5

LEMMA OutputSent ==
  ASSUME OutputInv, outqueue # <<>>, sent' = sent \o Head(outqueue), outqueue' = Tail(outqueue),
         outbytes' = outbytes - Len(Head(outqueue)),
         UNCHANGED <<ttyskb, written, lost>>
  PROVE  OutputInv'
<1>1. PICK h, g : h = Head(outqueue) /\ g = FlattenSeq(Tail(outqueue))
  OBVIOUS
<1>2. OutputTyped /\ OutputInOrder /\ OutbytesExact
  BY DEF OutputInv
<1>3. h \in Seq(Bytes) /\ g \in Seq(Bytes) /\ sent \in Seq(Bytes) /\ FlattenSeq(outqueue) = h \o g
  BY <1>1, <1>2, QueueHead, OutputFacts
<1>4. OutputInOrder'
  <2>1. sent \o h \o g = sent \o (h \o g)
    BY <1>3, BytesAssociate
  <2>2. sent' \o FlattenSeq(outqueue') \o ttyskb' = sent \o FlattenSeq(outqueue) \o ttyskb
    BY <1>1, <1>3, <2>1
  <2> QED
    BY <1>2, <2>2 DEF OutputInOrder
<1>5. OutbytesExact'
  BY <1>2, QueueHead DEF OutbytesExact
<1>6. sent \o h \in Seq(Bytes)
  BY <1>3, ConcatProperties
<1>7. OutputTyped'
  BY <1>1, <1>2, <1>6, QueueHead DEF OutputTyped
<1> QED
  BY <1>4, <1>5, <1>7 DEF OutputInv

LEMMA OutputDropped ==
  ASSUME OutputInv, outqueue # <<>>, lost' = lost \cup ToSet(Head(outqueue)),
         outqueue' = Tail(outqueue), outbytes' = outbytes - Len(Head(outqueue)),
         UNCHANGED <<ttyskb, written, sent>>
  PROVE  OutputInv'
<1>1. PICK h, g : h = Head(outqueue) /\ g = FlattenSeq(Tail(outqueue))
  OBVIOUS
<1>2. OutputTyped /\ OutputInOrder /\ OutbytesExact
  BY DEF OutputInv
<1>3. /\ h \in Seq(Bytes) /\ g \in Seq(Bytes) /\ sent \in Seq(Bytes) /\ ttyskb \in Seq(Bytes)
      /\ FlattenSeq(outqueue) = h \o g
  BY <1>1, <1>2, QueueHead, OutputFacts
<1>4. PICK c : c = g \o ttyskb
  OBVIOUS
<1>5. c \in Seq(Bytes)
  BY <1>3, <1>4, ConcatProperties
<1>6. Taken(sent \o (h \o c), written, lost)
  <2>1. PICK a : a = h \o g
    OBVIOUS
  <2>2. a \in Seq(Bytes)
    BY <1>3, <2>1, ConcatProperties
  <2>3. sent \o a \o ttyskb = sent \o (a \o ttyskb)
    BY <1>3, <2>2, BytesAssociate
  <2>4. h \o g \o ttyskb = h \o (g \o ttyskb)
    BY <1>3, BytesAssociate
  <2>5. sent \o FlattenSeq(outqueue) \o ttyskb = sent \o (h \o c)
    BY <1>3, <1>4, <2>1, <2>3, <2>4
  <2> QED
    BY <1>2, <2>5 DEF OutputInOrder, Taken
<1>7. sent \in Seq(Nat) /\ h \in Seq(Nat) /\ c \in Seq(Nat)
  BY <1>2, <1>3, <1>5, OutputFacts
<1>8. Taken(sent \o c, written, lost \cup ToSet(h)) /\ ToSet(h) \subseteq 1 .. written
  BY <1>6, <1>7, DropTaken
<1>9. OutputInOrder'
  <2>1. sent \o g \o ttyskb = sent \o (g \o ttyskb)
    BY <1>3, BytesAssociate
  <2>2. sent' \o FlattenSeq(outqueue') \o ttyskb' = sent \o c
    BY <1>1, <1>4, <2>1
  <2> QED
    BY <1>1, <1>8, <2>2 DEF OutputInOrder, Taken
<1>10. OutbytesExact'
  BY <1>2, QueueHead DEF OutbytesExact
<1>11. OutputTyped'
  BY <1>1, <1>2, <1>8, QueueHead DEF OutputTyped
<1> QED
  BY <1>9, <1>10, <1>11 DEF OutputInv

LEMMA OutputInvNext == OutputInv /\ [Next]_vars => OutputInv'
<1> SUFFICES ASSUME OutputInv, [Next]_vars PROVE OutputInv'
  OBVIOUS
<1> DEFINE Unmoved == UNCHANGED <<ttyskb, outqueue, outbytes, written, sent, lost>>
<1>1. ASSUME Unmoved PROVE OutputInv'
  BY <1>1, OutputOfFields
<1>2. ASSUME Cleared PROVE OutputInv'
  <2>1. NoOutput'
    BY <1>2 DEF Cleared, NoOutput
  <2> QED
    BY <2>1, OutputCleared, PTL
<1> HIDE DEF Unmoved
<1>3. CASE UNCHANGED vars
  BY <1>1, <1>3 DEF vars, output, Unmoved
<1>4. CASE \/ capiminor_alloc \/ DataInd \/ \E h \in Handles : DataConf(h)
           \/ capi_read \/ ldisc_return \/ handle_minor_recv
           \/ capinc_tty_open \/ capinc_tty_throttle \/ capinc_tty_unthrottle
           \/ capinc_tty_stop \/ capinc_tty_start
  <2>1. UNCHANGED output
    BY <1>4 DEF capiminor_alloc, DataInd, DataConf, capi_read, ldisc_return, handle_minor_recv,
                capinc_tty_open, capinc_tty_throttle, capinc_tty_unthrottle, capinc_tty_stop,
                capinc_tty_start
  <2> QED
    BY <1>1, <2>1 DEF output, Unmoved
<1>5. CASE capincci_unlink \/ capincci_free
  BY <1>1, <1>2, <1>5 DEF capincci_unlink, capincci_free, capiminor_free, output, Unmoved
<1>6. CASE capinc_tty_close
  BY <1>1, <1>2, <1>6 DEF capinc_tty_close, capiminor_free, output, Unmoved
<1>7. CASE capi_recv_message
  BY <1>1, <1>7 DEF capi_recv_message, output, Unmoved
<1>8. CASE handle_minor_send
  <2>1. CASE UNCHANGED output
    BY <1>1, <2>1 DEF output, Unmoved
  <2>2. CASE /\ outqueue # <<>> /\ sent' = sent \o Head(outqueue)
             /\ outqueue' = Tail(outqueue)
             /\ outbytes' = outbytes - Len(Head(outqueue))
             /\ UNCHANGED <<ttyskb, written, lost>>
    BY <2>2, OutputSent
  <2>3. CASE outqueue' = outqueue /\ UNCHANGED <<ttyskb, outbytes, written, sent, lost>>
    BY <1>1, <2>3 DEF Unmoved
  <2>4. CASE /\ outqueue # <<>> /\ lost' = lost \cup ToSet(Head(outqueue))
             /\ outqueue' = Tail(outqueue)
             /\ outbytes' = outbytes - Len(Head(outqueue))
             /\ UNCHANGED <<ttyskb, written, sent>>
    BY <2>4, OutputDropped
  <2> QED
    BY <1>8, <2>1, <2>2, <2>3, <2>4 DEF handle_minor_send, Requeued
<1>9. CASE capinc_tty_write
  <2>1. /\ written < MaxWritten /\ ttyskb' = <<>> /\ UNCHANGED <<sent, lost>>
        /\ \/ /\ written' = written + 1
              /\ outqueue' = Append(Flushed, <<written + 1>>)
              /\ outbytes' = outbytes + Len(ttyskb) + 1
           \/ /\ outqueue' = Flushed
              /\ outbytes' = outbytes + Len(ttyskb)
              /\ UNCHANGED written
    BY <1>9 DEF capinc_tty_write
  <2> QED
    BY <2>1, OutputWritten, OutputFlushed
<1>10. CASE capinc_tty_put_char
  <2>1. /\ written < MaxWritten /\ written' = written + 1 /\ UNCHANGED sent
        /\ \/ /\ Tailroom /\ ttyskb' = Append(ttyskb, written + 1)
              /\ UNCHANGED <<outqueue, outbytes, lost>>
           \/ /\ outqueue' = Flushed /\ outbytes' = outbytes + Len(ttyskb)
              /\ ttyskb' = <<written + 1>> /\ UNCHANGED lost
           \/ /\ outqueue' = Flushed /\ outbytes' = outbytes + Len(ttyskb)
              /\ ttyskb' = <<>> /\ lost' = lost \cup {written + 1}
    BY <1>10 DEF capinc_tty_put_char
  <2> QED
    BY <2>1, OutputPut, OutputPutNext, OutputPutLost
<1>11. CASE capinc_tty_flush_chars
  <2>1. /\ ttyskb' = <<>> /\ outqueue' = Flushed /\ outbytes' = outbytes + Len(ttyskb)
        /\ UNCHANGED <<written, sent, lost>>
    BY <1>11 DEF capinc_tty_flush_chars
  <2> QED
    BY <2>1, OutputFlushed
<1> QED
  BY <1>3, <1>4, <1>5, <1>6, <1>7, <1>8, <1>9, <1>10, <1>11 DEF Next, CallsGoOn

LEMMA OutputInvInit == Init => OutputInv
BY OutputCleared DEF Init, NoOutput

LEMMA OutputInvAlways == Spec => []OutputInv
BY OutputInvInit, OutputInvNext, PTL DEF Spec

(* outbytes stays within what was written.                                 *)
LEMMA OutbytesFit == OutputInv => outbytes \in 0 .. MaxWritten
<1> SUFFICES ASSUME OutputInv PROVE outbytes \in 0 .. MaxWritten
  OBVIOUS
<1>1. PICK f : f = FlattenSeq(outqueue)
  OBVIOUS
<1>2. OutputTyped /\ OutputInOrder /\ outbytes = Len(f)
  BY <1>1 DEF OutputInv, OutbytesExact
<1>3. f \in Seq(Bytes) /\ sent \in Seq(Bytes) /\ ttyskb \in Seq(Bytes)
  BY <1>1, <1>2, OutputFacts
<1>4. PICK a, s : a = sent \o f /\ s = a \o ttyskb
  OBVIOUS
<1>5. /\ a \in Seq(Bytes) /\ Len(a) = Len(sent) + Len(f)
      /\ s \in Seq(Bytes) /\ Len(s) = Len(a) + Len(ttyskb)
  <2>1. a \in Seq(Bytes) /\ Len(a) = Len(sent) + Len(f)
    BY <1>3, <1>4, ConcatProperties
  <2> QED
    BY <1>3, <1>4, <2>1, ConcatProperties
<1>6. Len(s) <= written
  <2>1. Taken(s, written, lost)
    BY <1>1, <1>2, <1>4 DEF OutputInOrder, Taken
  <2> QED
    BY <1>2, <1>5, <2>1, OutputFacts, TakenFits
<1>7. Len(sent) \in Nat /\ Len(f) \in Nat /\ Len(ttyskb) \in Nat
  BY <1>3
<1> QED
  BY <1>2, <1>5, <1>6, <1>7, MinorAssumption DEF OutputTyped

-------------------------------------------------------------------------------
(* Input.  Packets are numbered as the device sends them: those delivered  *)
(* and queued are the first ones, those still to be read are the others,   *)
(* in order.                                                               *)
Packets == 1 .. MaxReceived
Messages == {Ind(n) : n \in 1 .. MaxReceived} \cup {Conf(h) : h \in Handles}

InputTyped ==
  /\ inqueue \in Seq(Packets) /\ delivered \in Seq(Packets)
  /\ msgs \in Seq(Messages) /\ received \in 0 .. MaxReceived

Numbered(s) == \A i \in DOMAIN s : s[i] = i

(* The minor is gone with its queues, and so are the messages of an NCCI.  *)
Gone ==
  /\ ~linked => msgs = <<>> /\ outstanding = {}
  /\ ~alive => ~nccip /\ ~linked /\ ~tty /\ inqueue = <<>> /\ delivered = <<>> /\ received = 0

ToRead ==
  LET stream == delivered \o inqueue IN
  /\ Numbered(stream) /\ Len(stream) <= received
  /\ linked => \A n \in Packets : Contains(msgs, Ind(n)) <=> n \in Len(stream) + 1 .. received
  /\ \A i, j \in DOMAIN msgs : \A m, n \in Packets :
       i < j /\ msgs[i] = Ind(m) /\ msgs[j] = Ind(n) => m < n

InputInv == InputTyped /\ Gone /\ ToRead

LEMMA DistinctMessages ==
  /\ \A m, n : Ind(m) = Ind(n) => m = n
  /\ \A n, h : Ind(n) # Conf(h)
  /\ \A n \in Packets : Ind(n) \in Messages
  /\ \A h \in Handles : Conf(h) \in Messages
BY DEF Ind, Conf, Messages, Packets

LEMMA InputFacts ==
  ASSUME InputTyped
  PROVE  /\ delivered \o inqueue \in Seq(Packets)
         /\ Len(delivered \o inqueue) \in Nat /\ received \in Nat
         /\ DOMAIN (delivered \o inqueue) = 1 .. Len(delivered \o inqueue)
         /\ Len(msgs) \in Nat /\ DOMAIN msgs = 1 .. Len(msgs)
<1>1. delivered \o inqueue \in Seq(Packets)
  BY ConcatProperties DEF InputTyped
<1> QED
  BY <1>1, MinorAssumption DEF InputTyped

LEMMA InputOfFields ==
  ASSUME InputInv, UNCHANGED <<alive, linked, inqueue, delivered, msgs, received>>,
         tty' => alive', nccip' => alive', ~linked => outstanding' = {}
  PROVE  InputInv'
BY DEF InputInv, InputTyped, Gone, ToRead, Numbered

NoInput ==
  msgs = <<>> /\ outstanding = {} /\ inqueue = <<>> /\ delivered = <<>> /\ received = 0

LEMMA InputCleared == NoInput /\ ~nccip /\ ~linked /\ ~tty => InputInv
<1>0. SUFFICES ASSUME NoInput, ~nccip, ~linked, ~tty PROVE InputInv
  OBVIOUS
<1>1. <<>> \in Seq(Packets) /\ <<>> \in Seq(Messages) /\ Len(<<>>) = 0 /\ DOMAIN <<>> = {}
  OBVIOUS
<1>2. delivered \o inqueue = <<>>
  BY <1>0, <1>1, ConcatEmptySeq DEF NoInput
<1>3. InputTyped
  BY <1>0, <1>1, MinorAssumption DEF InputTyped, NoInput
<1>4. Gone
  BY <1>0 DEF Gone, NoInput
<1>5. ToRead
  BY <1>0, <1>1, <1>2 DEF ToRead, NoInput, Numbered
<1> QED
  BY <1>3, <1>4, <1>5 DEF InputInv

(* The NCCI ends with the messages for it, its minor lives on.             *)
LEMMA InputEnds ==
  ASSUME InputInv, ~linked', msgs' = <<>>, outstanding' = {},
         UNCHANGED <<alive, nccip, tty, inqueue, delivered, received>>
  PROVE  InputInv'
<1>1. <<>> \in Seq(Messages) /\ DOMAIN <<>> = {}
  OBVIOUS
<1> QED
  BY <1>1 DEF InputInv, InputTyped, Gone, ToRead, Numbered

(* A new minor starts from nothing.                                        *)
LEMMA InputStarts ==
  ASSUME InputInv, ~alive, alive', linked',
         UNCHANGED <<tty, inqueue, delivered, msgs, received>>
  PROVE  InputInv'
<1>1. NoInput /\ ~tty
  BY DEF InputInv, Gone, NoInput
<1>2. delivered \o inqueue = <<>> /\ Len(<<>>) = 0
  BY <1>1, ConcatEmptySeq DEF InputInv, InputTyped, NoInput
<1>3. \A n \in Packets : ~Contains(<<>>, Ind(n))
  BY DEF Contains
<1>4. \A n \in Packets : n \notin 0 + 1 .. 0
  OBVIOUS
<1>5. ToRead'
  BY <1>1, <1>2, <1>3, <1>4 DEF InputInv, ToRead, NoInput
<1> QED
  BY <1>1, <1>5 DEF InputInv, InputTyped, Gone, NoInput

(* The device sends a packet: the last one to read ...                     *)
LEMMA InputSent ==
  ASSUME InputInv, linked, received < MaxReceived, received' = received + 1,
         msgs' = Append(msgs, Ind(received + 1)),
         UNCHANGED <<alive, nccip, linked, tty, inqueue, delivered>>
  PROVE  InputInv'
<1>1. PICK k \in Nat : k = Len(delivered \o inqueue)
  BY InputFacts DEF InputInv
<1>2. PICK r : r = received + 1
  OBVIOUS
<1>3. /\ InputTyped /\ Gone /\ ToRead /\ received \in Nat /\ r \in Packets
      /\ Ind(r) \in Messages
  BY <1>2, InputFacts, MinorAssumption, DistinctMessages DEF InputInv, InputTyped, Packets
<1>4. /\ msgs' \in Seq(Messages) /\ Len(msgs) \in Nat /\ DOMAIN msgs = 1 .. Len(msgs)
      /\ DOMAIN msgs' = 1 .. Len(msgs) + 1
      /\ \A i \in 1 .. Len(msgs) : msgs'[i] = msgs[i]
      /\ msgs'[Len(msgs) + 1] = Ind(r)
  BY <1>2, <1>3, AppendProperties DEF InputTyped
<1>5. k <= received /\ \A n \in Packets : Contains(msgs, Ind(n)) <=> n \in k + 1 .. received
  BY <1>1, <1>3 DEF ToRead
<1>6. ASSUME NEW n \in Packets PROVE Contains(msgs', Ind(n)) <=> n \in k + 1 .. r
  <2>1. Contains(msgs', Ind(n)) <=> Contains(msgs, Ind(n)) \/ Ind(r) = Ind(n)
    BY <1>2, <1>3, ContainsAppend DEF InputTyped
  <2>2. Ind(r) = Ind(n) <=> r = n
    BY DistinctMessages
  <2>3. n \in k + 1 .. r <=> n \in k + 1 .. received \/ r = n
    BY <1>2, <1>3, <1>5
  <2> QED
    BY <1>5, <2>1, <2>2, <2>3
<1>7. ASSUME NEW i \in DOMAIN msgs', NEW j \in DOMAIN msgs', NEW m \in Packets, NEW n \in Packets,
             i < j, msgs'[i] = Ind(m), msgs'[j] = Ind(n)
      PROVE  m < n
  <2>1. i \in DOMAIN msgs /\ msgs[i] = Ind(m)
    BY <1>4, <1>7
  <2>2. CASE j = Len(msgs) + 1
    <3>1. n = r
      BY <1>4, <1>7, <2>2, DistinctMessages
    <3>2. Contains(msgs, Ind(m))
      BY <1>4, <2>1 DEF Contains
    <3>3. m \in k + 1 .. received
      BY <1>5, <3>2
    <3> QED
      BY <1>2, <1>3, <3>1, <3>3
  <2>3. CASE j # Len(msgs) + 1
    <3>1. j \in DOMAIN msgs /\ msgs[j] = Ind(n)
      BY <1>4, <1>7, <2>3
    <3> QED
      BY <1>3, <1>7, <2>1, <3>1 DEF ToRead
  <2> QED
    BY <2>2, <2>3
<1>8. (delivered \o inqueue)' = delivered \o inqueue /\ k <= r
  BY <1>2, <1>3, <1>5
<1>9. ToRead'
  BY <1>1, <1>2, <1>3, <1>6, <1>7, <1>8 DEF ToRead
<1>10. InputTyped'
  BY <1>3, <1>4, MinorAssumption DEF InputTyped
<1> QED
  BY <1>3, <1>9, <1>10 DEF InputInv, Gone

(* ... or a confirmation, which is none.                                   *)
LEMMA InputConfirmed ==
  ASSUME InputInv, NEW h \in outstanding, outstanding \subseteq Handles, outstanding' \subseteq outstanding,
         msgs' = Append(msgs, Conf(h)),
         UNCHANGED <<alive, nccip, linked, tty, inqueue, delivered, received>>
  PROVE  InputInv'
<1>1. /\ InputTyped /\ Gone /\ ToRead /\ Conf(h) \in Messages /\ linked
  BY DistinctMessages DEF InputInv, Gone
<1>2. /\ msgs' \in Seq(Messages) /\ Len(msgs) \in Nat /\ DOMAIN msgs = 1 .. Len(msgs)
      /\ DOMAIN msgs' = 1 .. Len(msgs) + 1
      /\ \A i \in 1 .. Len(msgs) : msgs'[i] = msgs[i]
      /\ msgs'[Len(msgs) + 1] = Conf(h)
  BY <1>1, AppendProperties DEF InputTyped
<1>3. ASSUME NEW n \in Packets PROVE Contains(msgs', Ind(n)) <=> Contains(msgs, Ind(n))
  <2>1. Contains(msgs', Ind(n)) <=> Contains(msgs, Ind(n)) \/ Conf(h) = Ind(n)
    BY <1>1, ContainsAppend DEF InputTyped
  <2> QED
    BY <2>1, DistinctMessages
<1>4. ASSUME NEW i \in DOMAIN msgs', NEW n \in Packets, msgs'[i] = Ind(n)
      PROVE  i \in DOMAIN msgs /\ msgs[i] = Ind(n)
  BY <1>2, <1>4, DistinctMessages
<1>5. ToRead'
  BY <1>1, <1>3, <1>4 DEF ToRead
<1>6. InputTyped'
  BY <1>1, <1>2 DEF InputTyped
<1>7. Gone'
  BY <1>1 DEF Gone
<1> QED
  BY <1>5, <1>6, <1>7 DEF InputInv

(* A message is read.                                                      *)
LEMMA ReadOrder ==
  ASSUME InputInv, msgs # <<>>, msgs' = Tail(msgs)
  PROVE  /\ Head(msgs) \in Messages /\ msgs' \in Seq(Messages) /\ linked
         /\ \A n \in Packets : Contains(msgs, Ind(n)) <=> Head(msgs) = Ind(n) \/ Contains(msgs', Ind(n))
         /\ \A i, j \in DOMAIN msgs' : \A m, n \in Packets :
              i < j /\ msgs'[i] = Ind(m) /\ msgs'[j] = Ind(n) => m < n
         /\ \A m, n \in Packets : Head(msgs) = Ind(m) /\ Contains(msgs', Ind(n)) => m < n
<1>1. InputTyped /\ Gone /\ ToRead
  BY DEF InputInv
<1>2. /\ Len(msgs) \in Nat /\ Len(msgs) # 0 /\ DOMAIN msgs = 1 .. Len(msgs)
      /\ Head(msgs) = msgs[1] /\ Head(msgs) \in Messages
      /\ msgs' \in Seq(Messages) /\ DOMAIN msgs' = 1 .. Len(msgs) - 1 /\ Len(msgs') = Len(msgs) - 1
      /\ \A i \in 1 .. Len(msgs) - 1 : msgs'[i] = msgs[i + 1]
  BY <1>1, HeadTailProperties, EmptySeq DEF InputTyped
<1>3. ASSUME NEW n \in Packets
      PROVE  Contains(msgs, Ind(n)) <=> Head(msgs) = Ind(n) \/ Contains(msgs', Ind(n))
  BY <1>1, ContainsTail DEF InputTyped
<1>4. \A i \in DOMAIN msgs' : i + 1 \in DOMAIN msgs /\ msgs'[i] = msgs[i + 1] /\ 1 < i + 1
  BY <1>2
<1>5. ASSUME NEW i \in DOMAIN msgs', NEW j \in DOMAIN msgs', NEW m \in Packets, NEW n \in Packets,
             i < j, msgs'[i] = Ind(m), msgs'[j] = Ind(n)
      PROVE  m < n
  <2>1. i + 1 < j + 1
    BY <1>2, <1>5
  <2> QED
    BY <1>1, <1>4, <1>5, <2>1 DEF ToRead
<1>6. ASSUME NEW m \in Packets, NEW n \in Packets, Head(msgs) = Ind(m), Contains(msgs', Ind(n))
      PROVE  m < n
  <2>1. PICK j \in DOMAIN msgs' : msgs'[j] = Ind(n)
    BY <1>2, <1>6 DEF Contains
  <2>2. 1 \in DOMAIN msgs /\ msgs[1] = Ind(m)
    BY <1>2, <1>6
  <2> QED
    BY <1>1, <1>4, <2>1, <2>2 DEF ToRead
<1> QED
  BY <1>1, <1>2, <1>3, <1>5, <1>6 DEF Gone

LEMMA InputConfRead ==
  ASSUME InputInv, msgs # <<>>, msgs' = Tail(msgs), NEW h, Head(msgs) = Conf(h),
         UNCHANGED <<alive, nccip, linked, tty, inqueue, delivered, received, outstanding>>
  PROVE  InputInv'
<1>1. InputTyped /\ Gone /\ ToRead
  BY DEF InputInv
<1>2. \A n \in Packets : Contains(msgs', Ind(n)) <=> Contains(msgs, Ind(n))
  BY ReadOrder, DistinctMessages
<1>3. ToRead'
  BY <1>1, <1>2, ReadOrder DEF ToRead
<1> QED
  BY <1>1, <1>3, ReadOrder DEF InputInv, InputTyped, Gone

LEMMA InputRead ==
  ASSUME InputInv, msgs # <<>>, msgs' = Tail(msgs), NEW n \in Packets, Head(msgs) = Ind(n),
         inqueue' = Append(inqueue, n),
         UNCHANGED <<alive, nccip, linked, tty, delivered, received, outstanding>>
  PROVE  InputInv'
<1>1. PICK s, t : s = delivered \o inqueue /\ t = delivered \o inqueue'
  OBVIOUS
<1>2. /\ InputTyped /\ Gone /\ ToRead /\ linked
      /\ s \in Seq(Packets) /\ Len(s) \in Nat /\ DOMAIN s = 1 .. Len(s) /\ received \in Nat
  BY <1>1, InputFacts, ReadOrder DEF InputInv
<1>3. /\ Numbered(s) /\ Len(s) <= received
      /\ \A m \in Packets : Contains(msgs, Ind(m)) <=> m \in Len(s) + 1 .. received
  BY <1>1, <1>2 DEF ToRead
<1>4. n = Len(s) + 1 /\ n <= received
  <2>1. n \in Len(s) + 1 .. received
    BY <1>3, ReadOrder
  <2>2. Len(s) + 1 \in Packets /\ Len(s) + 1 \in Len(s) + 1 .. received
    BY <1>2, <2>1, MinorAssumption DEF Packets, InputTyped
  <2>3. Head(msgs) = Ind(Len(s) + 1) \/ Contains(msgs', Ind(Len(s) + 1))
    BY <1>3, <2>2, ReadOrder
  <2>4. n = Len(s) + 1 \/ n < Len(s) + 1
    BY <2>2, <2>3, ReadOrder, DistinctMessages
  <2> QED
    BY <1>2, <2>1, <2>4
<1>5. t = Append(s, n) /\ t \in Seq(Packets) /\ inqueue' \in Seq(Packets)
  <2>1. PICK b : b = <<n>>
    OBVIOUS
  <2>2. b \in Seq(Packets) /\ delivered \in Seq(Packets) /\ inqueue \in Seq(Packets)
    BY <1>2, <2>1 DEF InputTyped
  <2>3. delivered \o (inqueue \o b) = (delivered \o inqueue) \o b
    BY <2>2, ConcatAssociative
  <2>4. Append(inqueue, n) = inqueue \o b /\ Append(s, n) = s \o b
    BY <1>2, <2>1, <2>2, AppendIsConcat
  <2>5. Append(inqueue, n) \in Seq(Packets) /\ Append(s, n) \in Seq(Packets)
    BY <1>2, <2>2, AppendProperties
  <2> QED
    BY <1>1, <2>3, <2>4, <2>5
<1>6. /\ Len(t) = Len(s) + 1 /\ DOMAIN t = 1 .. Len(s) + 1
      /\ \A i \in 1 .. Len(s) : t[i] = s[i]
      /\ t[Len(s) + 1] = n
  BY <1>2, <1>5, AppendProperties
<1>7. Numbered(t)
  BY <1>2, <1>3, <1>4, <1>6 DEF Numbered
<1>8. ASSUME NEW m \in Packets PROVE Contains(msgs', Ind(m)) <=> m \in Len(t) + 1 .. received
  <2>1. CASE m = n
    <3>1. ~Contains(msgs', Ind(m))
      <4>1. ~(n < n)
        BY <1>2, <1>4
      <4> QED
        BY <2>1, <4>1, ReadOrder
    <3> QED
      BY <1>2, <1>4, <1>6, <2>1, <3>1
  <2>2. CASE m # n
    <3>1. Head(msgs) # Ind(m)
      BY <2>2, DistinctMessages
    <3>2. Contains(msgs', Ind(m)) <=> m \in Len(s) + 1 .. received
      BY <1>3, <3>1, ReadOrder
    <3> QED
      BY <1>2, <1>4, <1>6, <2>2, <3>2
  <2> QED
    BY <2>1, <2>2
<1>9. ToRead'
  BY <1>1, <1>2, <1>4, <1>6, <1>7, <1>8, ReadOrder DEF ToRead
<1>10. Gone'
  BY <1>2 DEF Gone
<1> QED
  BY <1>2, <1>5, <1>9, <1>10, ReadOrder DEF InputInv, InputTyped

(* The head of the input queue is delivered.                               *)
LEMMA InputDelivered ==
  ASSUME InputInv, inqueue # <<>>, delivered' = Append(delivered, Head(inqueue)),
         inqueue' = Tail(inqueue),
         UNCHANGED <<alive, nccip, linked, tty, msgs, received, outstanding>>
  PROVE  InputInv'
<1>1. PICK e, t : e = Head(inqueue) /\ t = Tail(inqueue)
  OBVIOUS
<1>2. InputTyped /\ Gone /\ ToRead
  BY DEF InputInv
<1>3. PICK b : b = <<e>>
  OBVIOUS
<1>4. /\ delivered \in Seq(Packets) /\ inqueue \in Seq(Packets)
      /\ e \in Packets /\ t \in Seq(Packets) /\ b \in Seq(Packets)
  BY <1>1, <1>2, <1>3, HeadTailProperties DEF InputTyped
<1>5. inqueue = b \o t
  BY <1>1, <1>3, <1>4, HeadTailProperties
<1>6. delivered' = delivered \o b /\ delivered' \in Seq(Packets)
  BY <1>1, <1>3, <1>4, AppendIsConcat, AppendProperties
<1>7. (delivered \o b) \o t = delivered \o (b \o t)
  BY <1>4, ConcatAssociative, SMTT(30)
<1>8. delivered' \o inqueue' = delivered \o inqueue
  BY <1>1, <1>5, <1>6, <1>7
<1>9. ToRead'
  BY <1>2, <1>8 DEF ToRead
<1>10. alive
  BY <1>2 DEF Gone
<1> QED
  BY <1>1, <1>2, <1>4, <1>6, <1>9, <1>10 DEF InputInv, InputTyped, Gone

LEMMA InputInvNext == InputInv /\ outstanding \subseteq Handles /\ [Next]_vars => InputInv'
<1> SUFFICES ASSUME InputInv, outstanding \subseteq Handles, [Next]_vars PROVE InputInv'
  OBVIOUS
<1> DEFINE Unmoved == /\ UNCHANGED <<alive, linked, inqueue, delivered, msgs, received>>
                      /\ (tty' => alive') /\ (nccip' => alive')
                      /\ ~linked => outstanding' = {}
<1>1. ASSUME Unmoved PROVE InputInv'
  BY <1>1, InputOfFields
<1>2. ASSUME Cleared, ~nccip', ~linked', ~tty' PROVE InputInv'
  <2>1. (NoInput /\ ~nccip /\ ~linked /\ ~tty)'
    BY <1>2 DEF Cleared, NoInput
  <2> QED
    BY <2>1, InputCleared, PTL
<1>3. (tty => alive) /\ (nccip => alive) /\ (linked => alive) /\ (~linked => outstanding = {})
  BY DEF InputInv, Gone
<1> HIDE DEF Unmoved
<1>4. CASE UNCHANGED vars
  BY <1>1, <1>3, <1>4 DEF vars, life, input, device, Unmoved
<1>5. CASE capiminor_alloc
  BY <1>5, InputStarts DEF capiminor_alloc, input, device
<1>6. CASE capincci_unlink
  <2>1. /\ ~linked' /\ msgs' = <<>> /\ outstanding' = {}
        /\ UNCHANGED <<alive, nccip, tty, inqueue, delivered, received>>
    BY <1>6 DEF capincci_unlink, input
  <2> QED
    BY <2>1, InputEnds
<1>15. CASE capincci_free
  <2>1. CASE tty
    <3>1. /\ ~nccip' /\ UNCHANGED <<alive, linked, tty>>
          /\ UNCHANGED <<inqueue, delivered, msgs, received, outstanding>>
      BY <1>15, <2>1 DEF capincci_free, input, device
    <3> QED
      BY <1>1, <1>3, <3>1 DEF Unmoved
  <2>2. CASE ~tty
    BY <1>2, <1>15, <2>2 DEF capincci_free, capiminor_free
  <2> QED
    BY <2>1, <2>2
<1>7. CASE DataInd
  <2>1. /\ linked /\ received < MaxReceived /\ received' = received + 1
        /\ msgs' = Append(msgs, Ind(received + 1))
        /\ UNCHANGED <<alive, nccip, linked, tty, inqueue, delivered, outstanding>>
    BY <1>7 DEF DataInd, life, input
  <2> QED
    BY <2>1, InputSent
<1>8. ASSUME NEW h \in Handles, DataConf(h) PROVE InputInv'
  <2>1. /\ h \in outstanding /\ outstanding' \subseteq outstanding
        /\ msgs' = Append(msgs, Conf(h))
        /\ UNCHANGED <<alive, nccip, linked, tty, inqueue, delivered, received>>
    BY <1>8 DEF DataConf, life, input
  <2> QED
    BY <2>1, InputConfirmed
<1>9. CASE \/ capi_read \/ ldisc_return
           \/ capinc_tty_write \/ capinc_tty_put_char \/ capinc_tty_flush_chars
           \/ capinc_tty_throttle \/ capinc_tty_unthrottle \/ capinc_tty_stop \/ capinc_tty_start
  <2>1. UNCHANGED <<life, input, device>>
    BY <1>9 DEF capi_read, ldisc_return, capinc_tty_write, capinc_tty_put_char,
                capinc_tty_flush_chars, capinc_tty_throttle, capinc_tty_unthrottle,
                capinc_tty_stop, capinc_tty_start
  <2> QED
    BY <1>1, <1>3, <2>1 DEF life, input, device, Unmoved
<1>10. CASE capi_recv_message
  <2>1. UNCHANGED <<alive, nccip, linked, tty, outstanding, received>>
    BY <1>10 DEF capi_recv_message, life
  <2>2. CASE msgs = <<>>
    BY <1>1, <1>3, <1>10, <2>1, <2>2 DEF capi_recv_message, input, Unmoved
  <2>3. CASE msgs # <<>> /\ \E n \in 1 .. MaxReceived : Head(msgs) = Ind(n) /\ OnInd(n)
    <3>1. PICK n \in Packets : Head(msgs) = Ind(n) /\ OnInd(n)
      BY <2>3 DEF Packets
    <3>2. msgs' = Tail(msgs) /\ UNCHANGED delivered
      BY <1>10, <2>3, <3>1, DistinctMessages DEF capi_recv_message, input
    <3> QED
      BY <2>1, <2>3, <3>1, <3>2, InputRead DEF OnInd
  <2>4. CASE msgs # <<>> /\ \E h \in Handles : Head(msgs) = Conf(h)
    <3>1. msgs' = Tail(msgs) /\ UNCHANGED <<inqueue, delivered>>
      BY <1>10, <2>4, DistinctMessages DEF capi_recv_message, input
    <3> QED
      BY <2>1, <2>4, <3>1, InputConfRead
  <2> QED
    BY <1>10, <2>2, <2>3, <2>4 DEF capi_recv_message
<1>11. CASE handle_minor_recv
  <2>1. UNCHANGED <<alive, nccip, linked, tty, msgs, outstanding, received>>
    BY <1>11 DEF handle_minor_recv, life, device
  <2>2. \/ /\ inqueue # <<>> /\ delivered' = Append(delivered, Head(inqueue))
           /\ inqueue' = Tail(inqueue)
        \/ UNCHANGED <<inqueue, delivered>>
    BY <1>11 DEF handle_minor_recv, input
  <2> QED
    BY <1>1, <1>3, <2>1, <2>2, InputDelivered DEF Unmoved
<1>12. CASE handle_minor_send
  <2>1. UNCHANGED <<alive, nccip, linked, tty, inqueue, delivered, msgs, received>>
    BY <1>12 DEF handle_minor_send, life, input
  <2>2. ~linked => outstanding' = outstanding
    BY <1>12 DEF handle_minor_send, output
  <2> QED
    BY <1>1, <1>3, <2>1, <2>2 DEF Unmoved
<1>13. CASE capinc_tty_open
  <2>1. nccip /\ UNCHANGED <<alive, nccip, linked, inqueue, delivered, msgs, received, outstanding>>
    BY <1>13 DEF capinc_tty_open, input, device
  <2> QED
    BY <1>1, <1>3, <2>1 DEF Unmoved
<1>14. CASE capinc_tty_close
  <2>1. CASE nccip
    <3>1. ~tty' /\ UNCHANGED <<alive, nccip, linked, inqueue, delivered, msgs, received, outstanding>>
      BY <1>14, <2>1 DEF capinc_tty_close, input, device
    <3> QED
      BY <1>1, <1>3, <3>1 DEF Unmoved
  <2>2. CASE ~nccip
    BY <1>2, <1>14, <2>2 DEF capinc_tty_close, capiminor_free
  <2> QED
    BY <2>1, <2>2
<1> QED
  BY <1>4, <1>5, <1>6, <1>7, <1>8, <1>9, <1>10, <1>11, <1>12, <1>13, <1>14, <1>15 DEF Next, CallsGoOn

LEMMA InputInvInit == Init => InputInv
BY InputCleared DEF Init, NoInput

-------------------------------------------------------------------------------
(* The types of the other variables *)
OthersTyped ==
  /\ alive \in BOOLEAN /\ nccip \in BOOLEAN /\ linked \in BOOLEAN /\ tty \in BOOLEAN
  /\ ttyinstop \in BOOLEAN /\ ttyoutstop \in BOOLEAN
  /\ ackqueue \in Seq(Handles) /\ datahandle \in Handles
  /\ todo \in Seq(Calls) /\ outstanding \subseteq Handles /\ stalled \subseteq {"in", "out"}

LEMMA OthersTypedInit == Init => OthersTyped
<1>1. 0 \in Handles /\ <<>> \in Seq(Handles) /\ <<>> \in Seq(Calls)
  BY MinorAssumption DEF Handles
<1> QED
  BY <1>1 DEF Init, OthersTyped

(* The stack stays one of calls. *)
LEMMA CallsTyped ==
  ASSUME OthersTyped
  PROVE  /\ todo # <<>> /\ Return => todo' \in Seq(Calls)
         /\ \A calls \in Seq(Calls) : Call(calls) => todo' \in Seq(Calls)
<1>1. todo # <<>> => Tail(todo) \in Seq(Calls)
  BY HeadTailProperties DEF OthersTyped
<1>2. \A calls \in Seq(Calls) : calls \o todo \in Seq(Calls)
  BY ConcatProperties DEF OthersTyped
<1> QED
  BY <1>1, <1>2 DEF Return, Call

LEMMA CallLists ==
  /\ <<>> \in Seq(Calls) /\ <<"ldisc">> \in Seq(Calls) /\ <<"capi_recv_message">> \in Seq(Calls)
  /\ <<"handle_minor_recv">> \in Seq(Calls) /\ <<"handle_minor_send">> \in Seq(Calls)
  /\ <<"handle_minor_send", "handle_minor_recv">> \in Seq(Calls)
  /\ OnConf \in Seq(Calls)
  /\ (IF ttyskb = <<>> THEN <<>> ELSE <<"handle_minor_send">>) \o <<"handle_minor_recv">> \in Seq(Calls)
<1>1. "ldisc" \in Calls /\ "capi_recv_message" \in Calls /\ "handle_minor_recv" \in Calls /\ "handle_minor_send" \in Calls
  BY DEF Calls
<1>2. /\ <<>> \in Seq(Calls) /\ <<"ldisc">> \in Seq(Calls) /\ <<"capi_recv_message">> \in Seq(Calls)
      /\ <<"handle_minor_recv">> \in Seq(Calls) /\ <<"handle_minor_send">> \in Seq(Calls)
      /\ <<"handle_minor_send", "handle_minor_recv">> \in Seq(Calls)
  BY <1>1
<1>3. \A s, t \in Seq(Calls) : s \o t \in Seq(Calls)
  BY ConcatProperties
<1>4. OnConf \in Seq(Calls)
  BY <1>2, <1>3 DEF OnConf
<1>5. (IF ttyskb = <<>> THEN <<>> ELSE <<"handle_minor_send">>) \o <<"handle_minor_recv">> \in Seq(Calls)
  BY <1>2, <1>3
<1> QED
  BY <1>2, <1>4, <1>5

LEMMA AcksTyped ==
  ASSUME OthersTyped
  PROVE  /\ \A h \in Handles : del_ack(ackqueue, h) \in Seq(Handles)
         /\ Append(ackqueue, datahandle) \in Seq(Handles)
         /\ del_ack(Append(ackqueue, datahandle), datahandle) \in Seq(Handles)
         /\ (datahandle + 1) % HandleLimit \in Handles
<1>1. Append(ackqueue, datahandle) \in Seq(Handles)
  BY AppendProperties DEF OthersTyped
<1>2. (datahandle + 1) % HandleLimit \in Handles
  BY MinorAssumption DEF OthersTyped, Handles
<1> QED
  BY <1>1, <1>2, RemoveFirstEntries DEF OthersTyped, del_ack

LEMMA OthersTypedNext == OthersTyped /\ [Next]_vars => OthersTyped'
<1> SUFFICES ASSUME OthersTyped, [Next]_vars PROVE OthersTyped'
  OBVIOUS
<1> USE DEF OthersTyped
<1>1. /\ 0 \in Handles /\ <<>> \in Seq(Handles) /\ {} \subseteq Handles /\ {} \subseteq {"in", "out"}
      /\ stalled \cup {"in"} \subseteq {"in", "out"} /\ stalled \ {"in"} \subseteq {"in", "out"}
      /\ stalled \cup {"out"} \subseteq {"in", "out"} /\ stalled \ {"out"} \subseteq {"in", "out"}
  BY MinorAssumption DEF Handles
<1>2. CASE UNCHANGED vars
  BY <1>2 DEF vars, life, flow, output, device
<1>3. ASSUME capiminor_free, UNCHANGED todo PROVE OthersTyped'
  BY <1>1, <1>3 DEF capiminor_free, Cleared
<1>4. CASE capiminor_alloc
  BY <1>4 DEF capiminor_alloc, flow, output, device
<1>5. CASE capincci_unlink \/ capincci_free
  BY <1>1, <1>3, <1>5 DEF capincci_unlink, capincci_free, flow, output, device
<1>6. CASE DataInd
  BY <1>6 DEF DataInd, life, flow, output
<1>7. ASSUME NEW h \in Handles, DataConf(h) PROVE OthersTyped'
  BY <1>7 DEF DataConf, life, flow, output
<1>8. CASE ldisc_return
  BY <1>8, CallsTyped DEF ldisc_return, Under, life, flow, output, device
<1>9. CASE capi_read
  BY <1>9, CallsTyped, CallLists DEF capi_read, life, flow, output, device
<1>10. CASE capi_recv_message
  <2>1. /\ UNCHANGED <<life, flow, outstanding, stalled, datahandle>>
        /\ \/ UNCHANGED ackqueue
           \/ \E h \in Handles : ackqueue' = del_ack(ackqueue, h)
    BY <1>10 DEF capi_recv_message, output
  <2>2. \/ todo # <<>> /\ Return
        \/ Call(<<"handle_minor_recv">>) \/ Call(OnConf)
    BY <1>10 DEF capi_recv_message, Under
  <2>3. todo' \in Seq(Calls)
    BY <2>2, CallsTyped, CallLists
  <2> QED
    BY <2>1, <2>3, AcksTyped DEF life, flow
<1>11. CASE handle_minor_recv
  <2>1. UNCHANGED <<life, flow, output, device>>
    BY <1>11 DEF handle_minor_recv
  <2>2. Call(<<"ldisc">>) \/ (todo # <<>> /\ Return)
    BY <1>11 DEF handle_minor_recv, Under
  <2>3. stalled' \subseteq {"in", "out"}
    BY <1>1, <1>11 DEF handle_minor_recv
  <2>4. todo' \in Seq(Calls)
    BY <2>2, CallsTyped, CallLists
  <2> QED
    BY <2>1, <2>3, <2>4 DEF life, flow, output, device
<1>12. CASE handle_minor_send
  <2>1. UNCHANGED <<life, flow>>
    BY <1>12 DEF handle_minor_send
  <2>2. UNCHANGED todo \/ (todo # <<>> /\ Return)
    BY <1>12 DEF handle_minor_send, Under
  <2>3. todo' \in Seq(Calls)
    BY <2>2, CallsTyped
  <2>4. stalled' \subseteq {"in", "out"}
    BY <1>1, <1>12 DEF handle_minor_send
  <2>5. outstanding' \subseteq Handles
    BY <1>12 DEF handle_minor_send
  <2>6. datahandle' \in Handles
    BY <1>12, AcksTyped DEF handle_minor_send, output, Accepted
  <2>7. ackqueue' \in Seq(Handles)
    BY <1>12, AcksTyped DEF handle_minor_send, output
  <2> QED
    BY <2>1, <2>3, <2>4, <2>5, <2>6, <2>7 DEF life, flow
<1>13. CASE capinc_tty_open
  BY <1>13, CallsTyped, CallLists DEF capinc_tty_open, flow, output, device
<1>14. CASE capinc_tty_close
  BY <1>3, <1>14 DEF capinc_tty_close, flow, output, device
<1>15. CASE capinc_tty_write
  <2>1. UNCHANGED <<life, flow, ackqueue, datahandle, device>>
    BY <1>15 DEF capinc_tty_write
  <2>2. Call(<<"handle_minor_send", "handle_minor_recv">>) \/ UNCHANGED todo
    BY <1>15 DEF capinc_tty_write
  <2>3. stalled' \subseteq {"in", "out"}
    BY <1>1, <1>15 DEF capinc_tty_write
  <2>4. todo' \in Seq(Calls)
    BY <2>2, CallsTyped, CallLists
  <2> QED
    BY <2>1, <2>3, <2>4 DEF life, flow, device
<1>16. CASE capinc_tty_put_char
  <2>1. UNCHANGED <<life, flow, ackqueue, datahandle, device, stalled>>
    BY <1>16 DEF capinc_tty_put_char
  <2>2. Call(<<>>) \/ Call(<<"handle_minor_send">>) \/ UNCHANGED todo
    BY <1>16 DEF capinc_tty_put_char
  <2>3. todo' \in Seq(Calls)
    BY <2>2, CallsTyped, CallLists
  <2> QED
    BY <2>1, <2>3 DEF life, flow, device
<1>17. CASE capinc_tty_flush_chars
  BY <1>17, CallsTyped, CallLists DEF capinc_tty_flush_chars, life, flow, device
<1>18. CASE capinc_tty_throttle \/ capinc_tty_stop
  BY <1>18 DEF capinc_tty_throttle, capinc_tty_stop, life, output, device
<1>19. CASE capinc_tty_unthrottle
  BY <1>19, CallsTyped, CallLists DEF capinc_tty_unthrottle, OnUnthrottle, life, output, device
<1>20. CASE capinc_tty_start
  BY <1>20, CallsTyped, CallLists DEF capinc_tty_start, life, output, device
<1> QED
  BY <1>2, <1>4, <1>5, <1>6, <1>7, <1>8, <1>9, <1>10, <1>11, <1>12, <1>13, <1>14, <1>15,
     <1>16, <1>17, <1>18, <1>19, <1>20 DEF Next, CallsGoOn

-------------------------------------------------------------------------------
(* The theorems *)

MinorInv == OthersTyped /\ OutputInv /\ InputInv

LEMMA MinorInvAlways == Spec => []MinorInv
<1>1. Init => MinorInv
  BY OthersTypedInit, OutputInvInit, InputInvInit DEF MinorInv
<1>2. MinorInv /\ [Next]_vars => MinorInv'
  BY OthersTypedNext, OutputInvNext, InputInvNext DEF MinorInv, OthersTyped
<1> QED
  BY <1>1, <1>2, PTL DEF Spec

(* The fields of a minor keep their types; among them, a block never holds *)
(* more bytes than it has room for and outbytes never runs below zero.     *)
THEOREM MinorTypeOK == Spec => []TypeOK
<1>1. MinorInv => TypeOK
  <2> SUFFICES ASSUME MinorInv PROVE TypeOK
    OBVIOUS
  <2>1. outbytes \in 0 .. MaxWritten
    BY OutbytesFit DEF MinorInv
  <2>2. lost \subseteq 1 .. MaxWritten
    BY MinorAssumption DEF MinorInv, OutputInv, OutputTyped
  <2> QED
    BY <2>1, <2>2 DEF MinorInv, TypeOK, OthersTyped, OutputInv, OutputTyped, InputInv, InputTyped,
       Bytes, Packets, Messages
<1> QED
  BY <1>1, MinorInvAlways, PTL

(* handle_minor_send, write, put_char and flush_chars: the bytes that the  *)
(* tty took reach the device in order, once, except the blocks that are    *)
(* dropped.                                                                *)
THEOREM MinorOutputInOrder == Spec => []OutputInOrder
<1>1. MinorInv => OutputInOrder
  BY DEF MinorInv, OutputInv
<1> QED
  BY <1>1, MinorInvAlways, PTL

(* outbytes, which capinc_tty_chars_in_buffer reports, is the number of    *)
(* the bytes in outqueue.                                                  *)
THEOREM MinorOutbytesExact == Spec => []OutbytesExact
<1>1. MinorInv => OutbytesExact
  BY DEF MinorInv, OutputInv
<1> QED
  BY <1>1, MinorInvAlways, PTL

(* capi_recv_message and handle_minor_recv: packets reach the line         *)
(* discipline in order, once.                                              *)
THEOREM MinorInputInOrder == Spec => []InputInOrder
<1>1. MinorInv => InputInOrder
  <2> SUFFICES ASSUME MinorInv, linked PROVE InputInOrder
    BY DEF InputInOrder
  <2>1. PICK s : s = delivered \o inqueue
    OBVIOUS
  <2>2. InputTyped /\ ToRead
    BY DEF MinorInv, InputInv
  <2>3. s \in Seq(Packets)
    BY <2>1, <2>2, InputFacts
  <2>4. s = [i \in DOMAIN s |-> i]
    <3>1. s \in [1 .. Len(s) -> Packets] /\ DOMAIN s = 1 .. Len(s)
      BY <2>3
    <3>2. \A i \in DOMAIN s : s[i] = i
      BY <2>1, <2>2 DEF ToRead, Numbered
    <3> QED
      BY <3>1, <3>2
  <2> QED
    BY <2>1, <2>2, <2>4 DEF InputInOrder, ToRead, Packets
<1> QED
  BY <1>1, MinorInvAlways, PTL

-------------------------------------------------------------------------------
(* The ackqueue. *)

(* RemoveFirst of a list takes one entry out, and keeps the others.        *)
LEMMA RemoveFirstAt ==
  ASSUME NEW S, NEW s \in Seq(S), NEW e, Contains(s, e)
  PROVE  \E k \in 1 .. Len(s) :
           /\ s[k] = e /\ \A j \in 1 .. k - 1 : s[j] # e
           /\ RemoveFirst(s, e) \in Seq(S) /\ Len(RemoveFirst(s, e)) = Len(s) - 1
           /\ \A j \in 1 .. Len(s) - 1 :
                RemoveFirst(s, e)[j] = IF j < k THEN s[j] ELSE s[j + 1]
<1> DEFINE hits == {i \in 1 .. Len(s) : s[i] = e}
<1>1. RemoveFirst(s, e) = RemoveAt(s, Min(hits))
  BY DEF Contains, RemoveFirst, SelectInSeq
<1>2. hits # {} /\ hits \in SUBSET Nat /\ Len(s) \in Nat
  BY DEF Contains
<1>3. \E k \in hits : \A j \in hits : k <= j
  BY <1>2, LeastExists
<1>4. PICK k : k = Min(hits)
  OBVIOUS
<1>5. k \in hits /\ \A j \in hits : k <= j
  BY <1>3, <1>4 DEF Min
<1>6. k \in 1 .. Len(s) /\ s[k] = e /\ \A j \in 1 .. k - 1 : s[j] # e
  BY <1>2, <1>5
<1>7. PICK t : t = RemoveAt(s, k)
  OBVIOUS
<1>8. /\ t \in Seq(S) /\ Len(t) = Len(s) - 1
      /\ \A j \in 1 .. Len(t) : t[j] = IF j < k THEN s[j] ELSE s[j + 1]
  BY <1>6, <1>7, RemoveEntries
<1>9. RemoveFirst(s, e) = t
  BY <1>1, <1>4, <1>7
<1>. QED BY <1>6, <1>8, <1>9

LEMMA DistinctWithout ==
  ASSUME NEW S, NEW s \in Seq(S), Distinct(s), NEW e
  PROVE  /\ RemoveFirst(s, e) \in Seq(S) /\ Distinct(RemoveFirst(s, e))
         /\ \A x : Contains(RemoveFirst(s, e), x) <=> Contains(s, x) /\ x # e
<1>1. CASE ~Contains(s, e)
  <2>1. RemoveFirst(s, e) = s
    BY <1>1 DEF RemoveFirst, Contains
  <2>. QED BY <1>1, <2>1 DEF Contains
<1>2. CASE Contains(s, e)
  <2>1. PICK t : t = RemoveFirst(s, e)
    OBVIOUS
  <2>2. PICK k \in 1 .. Len(s) :
           /\ s[k] = e /\ t \in Seq(S) /\ Len(t) = Len(s) - 1
           /\ \A j \in 1 .. Len(s) - 1 : t[j] = IF j < k THEN s[j] ELSE s[j + 1]
    BY <1>2, <2>1, RemoveFirstAt
  <2>3. Len(s) \in Nat
    OBVIOUS
  <2>4. \A j \in 1 .. Len(t) : \E i \in 1 .. Len(s) :
           i # k /\ t[j] = s[i] /\ j = (IF i < k THEN i ELSE i - 1)
    BY <2>2, <2>3
  <2>5. \A i \in 1 .. Len(s) : i # k => \E j \in 1 .. Len(t) : t[j] = s[i]
    <3>. SUFFICES ASSUME NEW i \in 1 .. Len(s), i # k PROVE \E j \in 1 .. Len(t) : t[j] = s[i]
      OBVIOUS
    <3>1. CASE i < k
      BY <2>2, <2>3, <3>1
    <3>2. CASE i > k
      <4>1. i - 1 \in 1 .. Len(t) /\ i - 1 >= k /\ (i - 1) + 1 = i
        BY <2>2, <2>3, <3>2
      <4>. QED BY <2>2, <4>1
    <3>. QED BY <2>2, <2>3, <3>1, <3>2
  <2>6. Distinct(t)
    BY <2>4 DEF Distinct
  <2>7. ASSUME NEW x PROVE Contains(t, x) <=> Contains(s, x) /\ x # e
    <3>1. Contains(t, x) => Contains(s, x) /\ x # e
      <4>. SUFFICES ASSUME NEW j \in 1 .. Len(t), t[j] = x PROVE Contains(s, x) /\ x # e
        BY DEF Contains
      <4>1. PICK m \in 1 .. Len(s) : m # k /\ x = s[m]
        BY <2>4
      <4>2. s[m] # s[k]
        BY <4>1 DEF Distinct
      <4>. QED BY <2>2, <4>1, <4>2 DEF Contains
    <3>2. Contains(s, x) /\ x # e => Contains(t, x)
      BY <2>2, <2>5 DEF Contains
    <3>. QED BY <3>1, <3>2
  <2>. QED BY <2>1, <2>2, <2>6, <2>7
<1>. QED BY <1>1, <1>2

(* A handle is put on the ackqueue, ...                                    *)
LEMMA DistinctWith ==
  ASSUME NEW S, NEW s \in Seq(S), Distinct(s), NEW e \in S, ~Contains(s, e)
  PROVE  /\ Append(s, e) \in Seq(S) /\ Distinct(Append(s, e))
         /\ \A x : Contains(Append(s, e), x) <=> Contains(s, x) \/ x = e
<1>1. \A k \in 1 .. Len(s) : s[k] # e
  BY DEF Contains
<1>2. Append(s, e) \in Seq(S) /\ Distinct(Append(s, e))
  BY <1>1, DistinctAppend
<1>. QED BY <1>2, ContainsAppend

(* ... and taken off again when the device refuses the request, also if    *)
(* there was such a handle before.                                         *)
LEMMA DistinctAgain ==
  ASSUME NEW S, NEW s \in Seq(S), Distinct(s), NEW e \in S
  PROVE  LET t == RemoveFirst(Append(s, e), e) IN
         Distinct(t) /\ \A x : Contains(t, x) <=> Contains(s, x)
<1>1. CASE ~Contains(s, e)
  <2>1. PICK a : a = Append(s, e)
    OBVIOUS
  <2>2. a \in Seq(S) /\ Distinct(a) /\ \A x : Contains(a, x) <=> Contains(s, x) \/ x = e
    BY <1>1, <2>1, DistinctWith
  <2>3. /\ Distinct(RemoveFirst(a, e))
        /\ \A x : Contains(RemoveFirst(a, e), x) <=> Contains(a, x) /\ x # e
    BY <2>2, DistinctWithout
  <2>4. \A x : Contains(RemoveFirst(a, e), x) <=> Contains(s, x)
    BY <1>1, <2>2, <2>3
  <2>. QED BY <2>1, <2>3, <2>4
<1>2. CASE Contains(s, e)
  <2>1. PICK a : a = Append(s, e)
    OBVIOUS
  <2>2. /\ a \in Seq(S) /\ Len(a) = Len(s) + 1 /\ Len(s) \in Nat
        /\ a[Len(s) + 1] = e /\ \A i \in 1 .. Len(s) : a[i] = s[i]
    BY <2>1, AppendProperties
  <2>3. PICK h \in 1 .. Len(s) : s[h] = e
    BY <1>2 DEF Contains
  <2>4. Contains(a, e)
    BY <2>2, <2>3 DEF Contains
  <2>5. PICK t : t = RemoveFirst(a, e)
    OBVIOUS
  <2>6. PICK k \in 1 .. Len(a) :
           /\ a[k] = e /\ \A j \in 1 .. k - 1 : a[j] # e
           /\ t \in Seq(S) /\ Len(t) = Len(a) - 1
           /\ \A j \in 1 .. Len(a) - 1 : t[j] = IF j < k THEN a[j] ELSE a[j + 1]
    <3>1. a \in Seq(S)
      BY <2>2
    <3>. QED BY <2>4, <2>5, <3>1, RemoveFirstAt
  <2>7. k \in 1 .. Len(s) /\ s[k] = e
    <3>1. ~(h < k)
      BY <2>2, <2>3, <2>6
    <3>. QED BY <2>2, <2>3, <2>6, <3>1
  <2>8. \A j \in 1 .. Len(s) : t[j] = IF j < k THEN s[j] ELSE IF j = Len(s) THEN e ELSE s[j + 1]
    BY <2>2, <2>6, <2>7
  (* The entries of t are those of s in another order.                     *)
  <2>9. \A j \in 1 .. Len(s) : \E i \in 1 .. Len(s) :
           t[j] = s[i] /\ i = (IF j < k THEN j ELSE IF j = Len(s) THEN k ELSE j + 1)
    BY <2>2, <2>7, <2>8
  <2>10. Distinct(t)
    <3>. SUFFICES ASSUME NEW i \in 1 .. Len(s), NEW j \in 1 .. Len(s), t[i] = t[j] PROVE i = j
      BY <2>2, <2>6 DEF Distinct
    <3>1. PICK m \in 1 .. Len(s) :
             t[i] = s[m] /\ m = (IF i < k THEN i ELSE IF i = Len(s) THEN k ELSE i + 1)
      BY <2>9
    <3>2. PICK n \in 1 .. Len(s) :
             t[j] = s[n] /\ n = (IF j < k THEN j ELSE IF j = Len(s) THEN k ELSE j + 1)
      BY <2>9
    <3>3. m = n
      BY <3>1, <3>2 DEF Distinct
    <3>. QED BY <2>2, <2>7, <3>1, <3>2, <3>3
  <2>11. \A i \in 1 .. Len(s) : \E j \in 1 .. Len(s) : t[j] = s[i]
    <3>. SUFFICES ASSUME NEW i \in 1 .. Len(s) PROVE \E j \in 1 .. Len(s) : t[j] = s[i]
      OBVIOUS
    <3>1. CASE i < k
      BY <2>8, <3>1
    <3>2. CASE i = k
      BY <2>2, <2>7, <2>8, <3>2
    <3>3. CASE i > k
      <4>1. i - 1 \in 1 .. Len(s) /\ ~(i - 1 < k) /\ i - 1 # Len(s) /\ (i - 1) + 1 = i
        BY <2>2, <2>7, <3>3
      <4>. QED BY <2>8, <4>1
    <3>. QED BY <2>2, <2>7, <3>1, <3>2, <3>3
  <2>12. ASSUME NEW x PROVE Contains(t, x) <=> Contains(s, x)
    <3>1. Len(t) = Len(s)
      BY <2>2, <2>6
    <3>. QED BY <2>9, <2>11, <3>1 DEF Contains
  <2>. QED BY <2>1, <2>5, <2>10, <2>12
<1>. QED BY <1>1, <1>2

(* The handles A on the ackqueue are those of the requests O, which the    *)
(* device has not confirmed, and of the confirmations in the messages M.   *)
AckLedger(A, M, O) ==
  /\ Distinct(A)
  /\ \A h : Contains(A, h) <=> h \in O \/ Contains(M, Conf(h))
  /\ \A h \in O : ~Contains(M, Conf(h))
  /\ \A i, j \in 1 .. Len(M) : \A h : M[i] = Conf(h) /\ M[j] = Conf(h) => i = j

LEMMA ConfDistinct ==
  /\ \A g, h : Conf(g) = Conf(h) => g = h
  /\ \A n, h : Ind(n) # Conf(h)
  BY DEF Conf, Ind

(* A request is confirmed.                                                 *)
LEMMA LedgerConfirmed ==
  ASSUME NEW A, NEW M \in Seq(Messages), NEW O, AckLedger(A, M, O), NEW h \in O, Conf(h) \in Messages
  PROVE  AckLedger(A, Append(M, Conf(h)), O \ {h})
<1>1. PICK N : N = Append(M, Conf(h))
  OBVIOUS
<1>2. /\ Len(N) = Len(M) + 1 /\ Len(M) \in Nat /\ N[Len(M) + 1] = Conf(h)
      /\ \A i \in 1 .. Len(M) : N[i] = M[i]
  BY <1>1, AppendProperties
<1>3. \A x : Contains(N, x) <=> Contains(M, x) \/ Conf(h) = x
  BY <1>1, ContainsAppend
<1>4. \A g : Contains(A, g) <=> g \in O \ {h} \/ Contains(N, Conf(g))
  BY <1>3, ConfDistinct DEF AckLedger
<1>5. \A g \in O \ {h} : ~Contains(N, Conf(g))
  BY <1>3, ConfDistinct DEF AckLedger
<1>6. ASSUME NEW i \in 1 .. Len(N), NEW j \in 1 .. Len(N), NEW g, N[i] = Conf(g), N[j] = Conf(g)
      PROVE  i = j
  <2>1. \A k \in 1 .. Len(N) : k \in 1 .. Len(M) \/ k = Len(M) + 1
    BY <1>2
  <2>2. CASE g = h
    <3>1. \A k \in 1 .. Len(M) : M[k] # Conf(h)
      BY DEF AckLedger, Contains
    <3>. QED BY <1>2, <1>6, <2>1, <2>2, <3>1
  <2>3. CASE g # h
    <3>1. i \in 1 .. Len(M) /\ j \in 1 .. Len(M)
      BY <1>2, <1>6, <2>1, <2>3, ConfDistinct
    <3>. QED BY <1>2, <1>6, <3>1 DEF AckLedger
  <2>. QED BY <2>2, <2>3
<1>7. AckLedger(A, N, O \ {h})
  BY <1>4, <1>5, <1>6 DEF AckLedger
<1>. QED BY <1>1, <1>7

(* A packet arrives: its message is no confirmation.                       *)
LEMMA LedgerIndicated ==
  ASSUME NEW A, NEW M \in Seq(Messages), NEW O, AckLedger(A, M, O), NEW n, Ind(n) \in Messages
  PROVE  AckLedger(A, Append(M, Ind(n)), O)
<1>1. PICK N : N = Append(M, Ind(n))
  OBVIOUS
<1>2. /\ Len(N) = Len(M) + 1 /\ Len(M) \in Nat /\ N[Len(M) + 1] = Ind(n)
      /\ \A i \in 1 .. Len(M) : N[i] = M[i]
  BY <1>1, AppendProperties
<1>3. \A h : Contains(N, Conf(h)) <=> Contains(M, Conf(h))
  BY <1>1, ContainsAppend, ConfDistinct
<1>4. \A i \in 1 .. Len(N) : \A h : N[i] = Conf(h) => i \in 1 .. Len(M) /\ M[i] = Conf(h)
  BY <1>2, ConfDistinct
<1>5. AckLedger(A, N, O)
  BY <1>3, <1>4 DEF AckLedger
<1>. QED BY <1>1, <1>5

(* A message is read; if it is a confirmation, its handle goes.            *)
Rest(M, m, N) == N = Tail(M) /\ m = Head(M)

LEMMA LedgerTail ==
  ASSUME NEW A, NEW M \in Seq(Messages), NEW O, AckLedger(A, M, O), M # <<>>,
         NEW m, NEW N, Rest(M, m, N)
  PROVE  /\ \A x : Contains(M, x) <=> m = x \/ Contains(N, x)
         /\ \A h : m = Conf(h) => ~Contains(N, Conf(h))
         /\ \A i, j \in 1 .. Len(N) : \A h : N[i] = Conf(h) /\ N[j] = Conf(h) => i = j
<1>1. N = Tail(M) /\ m = Head(M)
  BY DEF Rest
<1>2. /\ N \in Seq(Messages) /\ Len(N) = Len(M) - 1 /\ Len(M) \in Nat /\ Len(M) # 0 /\ m = M[1]
      /\ \A i \in 1 .. Len(N) : N[i] = M[i + 1]
  BY <1>1, HeadTailProperties, EmptySeq
<1>3. \A x : Contains(M, x) <=> m = x \/ Contains(N, x)
  BY <1>1, ContainsTail
<1>4. \A i \in 1 .. Len(N) : i + 1 \in 1 .. Len(M) /\ i + 1 # 1 /\ N[i] = M[i + 1]
  BY <1>2
<1>5. ASSUME NEW h, m = Conf(h) PROVE ~Contains(N, Conf(h))
  <2>. SUFFICES ASSUME NEW i \in 1 .. Len(N), N[i] = Conf(h) PROVE FALSE
    BY DEF Contains
  <2>1. 1 \in 1 .. Len(M) /\ M[1] = Conf(h) /\ M[i + 1] = Conf(h)
    BY <1>2, <1>4, <1>5
  <2>. QED BY <1>4, <2>1 DEF AckLedger
<1>6. ASSUME NEW i \in 1 .. Len(N), NEW j \in 1 .. Len(N), NEW h, N[i] = Conf(h), N[j] = Conf(h)
      PROVE  i = j
  <2>1. i + 1 = j + 1
    BY <1>4, <1>6 DEF AckLedger
  <2>. QED BY <1>2, <2>1
<1>. QED BY <1>3, <1>5, <1>6

LEMMA LedgerRead ==
  ASSUME NEW A \in Seq(Handles), NEW M \in Seq(Messages), NEW O, AckLedger(A, M, O), M # <<>>
  PROVE  /\ \A n : Head(M) = Ind(n) => AckLedger(A, Tail(M), O)
         /\ \A h : Head(M) = Conf(h) => AckLedger(RemoveFirst(A, h), Tail(M), O)
<1>1. PICK N, m : N = Tail(M) /\ m = Head(M)
  OBVIOUS
<1>2. /\ \A x : Contains(M, x) <=> m = x \/ Contains(N, x)
      /\ \A h : m = Conf(h) => ~Contains(N, Conf(h))
      /\ \A i, j \in 1 .. Len(N) : \A h : N[i] = Conf(h) /\ N[j] = Conf(h) => i = j
  <2>1. Rest(M, m, N)
    BY <1>1 DEF Rest
  <2>. QED BY <2>1, LedgerTail
<1>3. ASSUME NEW n, m = Ind(n) PROVE AckLedger(A, N, O)
  <2>1. \A h : Contains(M, Conf(h)) <=> Contains(N, Conf(h))
    BY <1>2, <1>3, ConfDistinct
  <2>. QED BY <1>2, <2>1 DEF AckLedger
<1>4. ASSUME NEW h, m = Conf(h) PROVE AckLedger(RemoveFirst(A, h), N, O)
  <2>1. PICK B : B = RemoveFirst(A, h)
    OBVIOUS
  <2>2. Distinct(B) /\ \A x : Contains(B, x) <=> Contains(A, x) /\ x # h
    <3>1. Distinct(A)
      BY DEF AckLedger
    <3>. QED BY <2>1, <3>1, DistinctWithout
  <2>3. /\ Contains(M, Conf(h)) /\ ~Contains(N, Conf(h))
        /\ \A g : g # h => (Contains(M, Conf(g)) <=> Contains(N, Conf(g)))
    BY <1>2, <1>4, ConfDistinct
  <2>4. \A g : Contains(B, g) <=> g \in O \/ Contains(N, Conf(g))
    BY <2>2, <2>3 DEF AckLedger
  <2>5. \A g \in O : ~Contains(N, Conf(g))
    BY <1>2 DEF AckLedger
  <2>6. AckLedger(B, N, O)
    BY <1>2, <2>2, <2>4, <2>5 DEF AckLedger
  <2>. QED BY <2>1, <2>6
<1>. QED BY <1>1, <1>3, <1>4

(* The device takes a request, ...                                         *)
LEMMA LedgerAccepted ==
  ASSUME NEW A \in Seq(Handles), NEW M, NEW O, AckLedger(A, M, O),
         NEW h \in Handles, ~Contains(A, h)
  PROVE  AckLedger(Append(A, h), M, O \cup {h})
<1>1. PICK B : B = Append(A, h)
  OBVIOUS
<1>2. Distinct(B) /\ \A x : Contains(B, x) <=> Contains(A, x) \/ x = h
  <2>1. Distinct(A)
    BY DEF AckLedger
  <2>. QED BY <1>1, <2>1, DistinctWith
<1>3. AckLedger(B, M, O \cup {h})
  BY <1>2 DEF AckLedger
<1>. QED BY <1>1, <1>3

(* ... or refuses it.                                                      *)
LEMMA LedgerRefused ==
  ASSUME NEW A \in Seq(Handles), NEW M, NEW O, AckLedger(A, M, O), NEW h \in Handles
  PROVE  AckLedger(RemoveFirst(Append(A, h), h), M, O)
<1>1. PICK B : B = RemoveFirst(Append(A, h), h)
  OBVIOUS
<1>2. Distinct(B) /\ \A x : Contains(B, x) <=> Contains(A, x)
  <2>1. Distinct(A)
    BY DEF AckLedger
  <2>. QED BY <1>1, <2>1, DistinctAgain
<1>3. AckLedger(B, M, O)
  BY <1>2 DEF AckLedger
<1>. QED BY <1>1, <1>3

AcksInv ==
  /\ linked => AckLedger(ackqueue, msgs, outstanding)
  /\ ~alive => ackqueue = <<>> /\ outqueue = <<>>

(* A request that the device takes gets a handle of which no confirmation  *)
(* is due: the counter of 16 bits does not come round to one that is.      *)
HandleFresh == linked /\ Len(ackqueue') > Len(ackqueue) => ~Contains(ackqueue, datahandle)

LEMMA AcksSame ==
  ASSUME AcksInv, UNCHANGED <<alive, linked, ackqueue, msgs, outstanding>>,
         alive \/ outqueue' = outqueue
  PROVE  AcksInv'
BY DEF AcksInv

LEMMA AcksEmpty == AckLedger(<<>>, <<>>, {})
BY DEF AckLedger, Distinct, Contains

(* handle_minor_send: the request is taken, refused, or not made.          *)
LEMMA AcksSend ==
  ASSUME MinorInv, AcksInv, HandleFresh, handle_minor_send
  PROVE  AcksInv'
<1>1. /\ ackqueue \in Seq(Handles) /\ datahandle \in Handles
      /\ UNCHANGED <<alive, nccip, linked, msgs>>
  BY DEF handle_minor_send, MinorInv, OthersTyped, life
<1>3. CASE UNCHANGED <<ackqueue, outstanding, outqueue>>
  BY <1>1, <1>3, AcksSame
<1>4. CASE /\ outqueue # <<>>
           /\ ackqueue' = Append(ackqueue, datahandle)
           /\ outstanding' = outstanding \cup (IF linked THEN {datahandle} ELSE {})
  <2>1. Len(ackqueue') > Len(ackqueue)
    BY <1>1, <1>4
  <2>2. linked => AckLedger(ackqueue', msgs', outstanding')
    BY <1>1, <1>4, <2>1, LedgerAccepted DEF AcksInv, HandleFresh
  <2>. QED BY <1>1, <1>4, <2>2 DEF AcksInv
<1>5. CASE /\ outqueue # <<>>
           /\ ackqueue' = del_ack(Append(ackqueue, datahandle), datahandle)
           /\ outstanding' = outstanding
  <2>1. linked => AckLedger(ackqueue', msgs', outstanding')
    BY <1>1, <1>5, LedgerRefused DEF AcksInv, del_ack
  <2>. QED BY <1>1, <1>5, <2>1 DEF AcksInv
<1>. QED BY <1>3, <1>4, <1>5 DEF handle_minor_send, output, Requeued

LEMMA AcksNext == MinorInv /\ AcksInv /\ [Next]_vars /\ [HandleFresh]_vars => AcksInv'
<1>. SUFFICES ASSUME MinorInv, AcksInv, [Next]_vars, [HandleFresh]_vars PROVE AcksInv'
  OBVIOUS
<1>1. /\ msgs \in Seq(Messages) /\ ackqueue \in Seq(Handles) /\ outstanding \subseteq Handles
      /\ received \in 0 .. MaxReceived
      /\ ~linked => msgs = <<>> /\ outstanding = {}
      /\ ~alive => ~nccip /\ ~linked
  BY DEF MinorInv, OthersTyped, InputInv, InputTyped, Gone
<1>2. CASE UNCHANGED vars
  BY <1>2, AcksSame DEF vars, life, output, device
<1>3. CASE capiminor_alloc
  BY <1>1, <1>3, AcksEmpty DEF capiminor_alloc, output, device, AcksInv
<1>4. CASE capincci_free
  <2>1. CASE UNCHANGED <<alive, linked, output, device>>
    BY <2>1, AcksSame DEF output, device
  <2>2. CASE capiminor_free
    BY <2>2 DEF capiminor_free, Cleared, AcksInv
  <2>. QED BY <1>4, <2>1, <2>2 DEF capincci_free
<1>11. CASE capincci_unlink
  BY <1>11 DEF capincci_unlink, output, AcksInv
<1>5. CASE DataInd
  <2>1. Ind(received + 1) \in Messages
    <3>1. received + 1 \in 1 .. MaxReceived
      BY <1>1, <1>5, MinorAssumption DEF DataInd
    <3>. QED BY <3>1, Zenon DEF Messages
  <2>2. AckLedger(ackqueue, Append(msgs, Ind(received + 1)), outstanding)
    BY <1>1, <1>5, <2>1, LedgerIndicated DEF DataInd, AcksInv
  <2>. QED BY <1>5, <2>2 DEF DataInd, life, output, AcksInv
<1>6. ASSUME NEW h \in Handles, DataConf(h) PROVE AcksInv'
  <2>1. Conf(h) \in Messages /\ h \in outstanding /\ linked
    BY <1>1, <1>6 DEF DataConf, Messages
  <2>2. AckLedger(ackqueue, Append(msgs, Conf(h)), outstanding \ {h})
    BY <1>1, <2>1, LedgerConfirmed DEF AcksInv
  <2>. QED BY <1>6, <2>2 DEF DataConf, life, output, AcksInv
<1>7. CASE \/ capi_read \/ ldisc_return \/ handle_minor_recv \/ capinc_tty_open
           \/ capinc_tty_write \/ capinc_tty_put_char \/ capinc_tty_flush_chars
           \/ capinc_tty_throttle \/ capinc_tty_unthrottle \/ capinc_tty_stop \/ capinc_tty_start
  <2>1. UNCHANGED <<alive, nccip, linked, ackqueue, msgs, outstanding>> /\ (nccip \/ outqueue' = outqueue)
    BY <1>7 DEF capi_read, ldisc_return, handle_minor_recv, capinc_tty_open,
                capinc_tty_write, capinc_tty_put_char, capinc_tty_flush_chars,
                capinc_tty_throttle, capinc_tty_unthrottle, capinc_tty_stop, capinc_tty_start,
                life, output, device
  <2>. QED BY <1>1, <2>1, AcksSame
<1>8. CASE capi_recv_message
  <2>1. UNCHANGED <<alive, nccip, linked, outstanding>>
    BY <1>8 DEF capi_recv_message, life
  <2>2. CASE msgs = <<>>
    <3>1. UNCHANGED <<ackqueue, msgs, outqueue>>
      BY <1>8, <2>2 DEF capi_recv_message, output
    <3>. QED BY <2>1, <3>1, AcksSame
  <2>3. ASSUME msgs # <<>>, NEW n \in 1 .. MaxReceived, Head(msgs) = Ind(n),
               msgs' = Tail(msgs), UNCHANGED output
        PROVE  AcksInv'
    <3>1. AckLedger(ackqueue, Tail(msgs), outstanding) /\ alive
      BY <1>1, <2>3, LedgerRead DEF AcksInv
    <3>. QED BY <2>1, <2>3, <3>1 DEF AcksInv, output
  <2>4. ASSUME msgs # <<>>, NEW h \in Handles, Head(msgs) = Conf(h),
               msgs' = Tail(msgs), ackqueue' = del_ack(ackqueue, h)
        PROVE  AcksInv'
    <3>1. AckLedger(RemoveFirst(ackqueue, h), Tail(msgs), outstanding) /\ alive
      BY <1>1, <2>4, LedgerRead DEF AcksInv
    <3>. QED BY <2>1, <2>4, <3>1 DEF AcksInv, del_ack
  <2>. QED BY <1>8, <2>2, <2>3, <2>4 DEF capi_recv_message
<1>9. CASE handle_minor_send
  <2>1. CASE vars' = vars
    BY <2>1, AcksSame DEF vars, life, output, device
  <2>2. CASE HandleFresh
    BY <1>9, <2>2, AcksSend
  <2>. QED BY <2>1, <2>2
<1>10. CASE capinc_tty_close
  <2>1. CASE UNCHANGED <<alive, linked, output, device>>
    BY <2>1, AcksSame DEF output, device
  <2>2. CASE capiminor_free
    BY <2>2 DEF capiminor_free, Cleared, AcksInv
  <2>. QED BY <1>10, <2>1, <2>2 DEF capinc_tty_close
<1>. QED BY <1>2, <1>3, <1>4, <1>5, <1>6, <1>7, <1>8, <1>9, <1>10, <1>11 DEF Next, CallsGoOn

(* handle_minor_send, del_ack and capi_recv_message: each handle on the     *)
(* ackqueue is that of one request whose confirmation is still to come or   *)
(* to be read, through requests that are refused and confirmations in any   *)
(* order, as long as no request gets a handle that is still in use.         *)
THEOREM MinorAcksExact == Spec /\ [][HandleFresh]_vars => []AcksExact
<1>1. Init => AcksInv
  BY DEF Init, AcksInv
<1>2. MinorInv /\ AcksInv => AcksExact
  <2>. SUFFICES ASSUME MinorInv, AcksInv, linked PROVE AcksExact
    BY DEF AcksExact
  <2>1. /\ AckLedger(ackqueue, msgs, outstanding) /\ ackqueue \in Seq(Handles)
        /\ outstanding \subseteq Handles
    BY DEF MinorInv, OthersTyped, AcksInv
  <2>2. IsInjective(ackqueue)
    BY <2>1 DEF AckLedger, Distinct, IsInjective
  <2>3. \A h : h \in ToSet(ackqueue) <=> Contains(ackqueue, h)
    BY <2>1 DEF ToSet, Contains
  <2>4. \A h : Contains(ackqueue, h) => h \in Handles
    BY <2>1 DEF Contains
  <2>5. ToSet(ackqueue) = outstanding \cup {h \in Handles : Contains(msgs, Conf(h))}
    BY <2>1, <2>3, <2>4 DEF AckLedger
  <2>. QED BY <2>2, <2>5 DEF AcksExact
<1>. QED BY <1>1, <1>2, AcksNext, MinorInvAlways, PTL DEF Spec
================================================================================
