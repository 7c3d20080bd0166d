--------------------------- MODULE HandshakeProofs ---------------------------
(***************************************************************************)
(* Proofs about the handshake of one connection, for every ClientHello,    *)
(* every way to cut it into CRYPTO frames and Initials, every order in     *)
(* which they arrive, and every choice of connection IDs.                  *)
(***************************************************************************)
EXTENDS Handshake, SequenceTheorems, WellFoundedInduction, TLAPS

Octet == 0..255
CIDs == Seq(Octet) \ {<<>>}

\* A byte is a number.
LEMMA OctetIsNat == Octet \subseteq Nat
  BY DEF Octet

\* Induction over the natural numbers: a set that has 0 and the successor of
\* each of its numbers has them all.
LEMMA SetInduction ==
  ASSUME NEW S, 0 \in S, \A n \in Nat : n \in S => n + 1 \in S
  PROVE  Nat \subseteq S
<1> DEFINE T == Nat \ S
           R == OpToRel(<, Nat)
<1>1. SUFFICES ASSUME T # {} PROVE FALSE
  OBVIOUS
<1>2. IsWellFoundedOn(R, Nat)
  BY NatLessThanWellFounded
<1>3. T \subseteq Nat
  OBVIOUS
<1> HIDE DEF T, R
<1>4. PICK x \in T : \A y \in T : ~(<<y, x>> \in R)
  BY <1>1, <1>2, <1>3, WFMin
<1>5. \A y \in T : ~(y < x)
  BY <1>4, <1>3 DEF R, OpToRel
<1>6. x \in Nat /\ x \notin S
  BY DEF T
<1>7. x # 0
  BY <1>6
<1>8. x - 1 \in Nat
  BY <1>6, <1>7
<1>9. x - 1 \in S
  BY <1>8, <1>5, <1>6 DEF T
<1> QED BY <1>9, <1>8, <1>6

\* The same for an interval.
LEMMA IntervalInduction ==
  ASSUME NEW a \in Int, NEW b \in Int, NEW T, a <= b => a \in T,
         \A i \in a..(b - 1) : i \in T => i + 1 \in T
  PROVE  a..b \subseteq T
<1> DEFINE S == {n \in Nat : a + n <= b => a + n \in T}
<1>1. 0 \in S
  OBVIOUS
<1>2. \A n \in Nat : n \in S => n + 1 \in S
  <2> SUFFICES ASSUME NEW n \in Nat, n \in S, a + (n + 1) <= b PROVE a + (n + 1) \in T
    OBVIOUS
  <2>1. a + n \in T /\ a + n \in a..(b - 1)
    OBVIOUS
  <2> QED BY <2>1
<1>3. Nat \subseteq S
  <2> HIDE DEF S
  <2> QED BY <1>1, <1>2, SetInduction
<1>4. ASSUME NEW i \in a..b PROVE i \in T
  <2>1. i - a \in Nat
    OBVIOUS
  <2>2. i - a \in S
    BY <2>1, <1>3
  <2> QED BY <2>2
<1> QED BY <1>4

\* Of sequences with a bounded length one is the longest.
LEMMA Longest ==
  ASSUME NEW S, NEW e0 \in S, NEW B \in Nat, \A e \in S : Len(e) \in 0..B
  PROVE  \E e \in S : \A f \in S : Len(e) >= Len(f)
<1> DEFINE T == {n \in Nat : \E e \in S : n = B - Len(e)}
           R == OpToRel(<, Nat)
<1>1. B - Len(e0) \in T
  OBVIOUS
<1>2. IsWellFoundedOn(R, Nat)
  BY NatLessThanWellFounded
<1>3. T \subseteq Nat /\ T # {}
  BY <1>1
<1> HIDE DEF T, R
<1>4. PICK x \in T : \A y \in T : ~(<<y, x>> \in R)
  BY <1>2, <1>3, WFMin
<1>5. \A y \in T : ~(y < x)
  BY <1>4, <1>3 DEF R, OpToRel
<1>6. PICK e \in S : x = B - Len(e)
  BY DEF T
<1>7. ASSUME NEW f \in S PROVE Len(e) >= Len(f)
  <2>1. B - Len(f) \in T
    BY DEF T
  <2>2. ~(B - Len(f) < B - Len(e))
    BY <2>1, <1>5, <1>6
  <2> QED BY <2>2
<1> QED BY <1>7

-----------------------------------------------------------------------------
(* Connection IDs of packets with a short header.                          *)

\* A packet with the ID c and two more bytes.
ShortHeader(p, c, x) == p = <<64>> \o c \o <<x, x>>
LEMMA ShortPacket ==
  ASSUME NEW c \in Seq(Octet), NEW x \in Octet, NEW p, ShortHeader(p, c, x)
  PROVE  /\ p \in Seq(Octet) /\ Len(p) = Len(c) + 3 /\ p[1] = 64
         /\ SubSeq(p, 2, Len(c) + 1) = c
<1>0. Len(c) \in Nat /\ <<64>> \in Seq(Octet) /\ <<x, x>> \in Seq(Octet)
      /\ Len(<<64>>) = 1 /\ Len(<<x, x>>) = 2 /\ <<64>>[1] = 64
  BY LenProperties DEF Octet
<1> DEFINE h == <<64>> \o c
<1>1. /\ h \in Seq(Octet) /\ Len(h) = 1 + Len(c)
      /\ \A i \in 1..(1 + Len(c)) : h[i] = IF i <= 1 THEN <<64>>[i] ELSE c[i - 1]
  BY <1>0, ConcatProperties
<1> HIDE DEF h
<1>2. /\ h \o <<x, x>> \in Seq(Octet) /\ Len(h \o <<x, x>>) = Len(h) + 2
      /\ \A i \in 1..(Len(h) + 2) : (h \o <<x, x>>)[i] = IF i <= Len(h) THEN h[i] ELSE <<x, x>>[i - Len(h)]
  BY <1>0, <1>1, ConcatProperties
<1>3. p = h \o <<x, x>>
  BY Zenon DEF h, ShortHeader
<1>4. p \in Seq(Octet) /\ Len(p) = Len(c) + 3 /\ \A i \in 1..(Len(c) + 1) : p[i] = h[i]
  BY <1>0, <1>1, <1>2, <1>3
<1>5. p[1] = 64 /\ \A i \in 1..Len(c) : p[i + 1] = c[i]
  BY <1>0, <1>1, <1>4, SMTT(30), ZenonT(60)
<1>6. SubSeq(p, 2, Len(c) + 1) = c
  <2>1. 2 \in Int /\ Len(c) + 1 \in Int /\ \A i \in 2..(Len(c) + 1) : p[i] \in Octet
    BY <1>0, <1>4, ElementOfSeq
  <2>2. /\ SubSeq(p, 2, Len(c) + 1) \in Seq(Octet)
        /\ Len(SubSeq(p, 2, Len(c) + 1)) = IF 2 <= Len(c) + 1 THEN Len(c) + 1 - 2 + 1 ELSE 0
        /\ \A i \in 1..(Len(c) + 1 - 2 + 1) : SubSeq(p, 2, Len(c) + 1)[i] = p[2 + i - 1]
    BY <2>1, SubSeqProperties
  <2>3. Len(SubSeq(p, 2, Len(c) + 1)) = Len(c)
    BY <2>2, <1>0
  <2>4. \A i \in 1..Len(c) : SubSeq(p, 2, Len(c) + 1)[i] = c[i]
    BY <2>2, <1>0, <1>5
  <2> QED BY <2>2, <2>3, <2>4, SeqEqual
<1> QED BY <1>4, <1>5, <1>6

\* The ID of a guessed length.
LEMMA ShortDCID ==
  ASSUME NEW p \in Seq(Octet), Len(p) >= 1, p[1] = 64, NEW n \in Nat
  PROVE  ExtractDCID(p, n) = IF n = 0 \/ Len(p) < n + 1 THEN NoCID ELSE SubSeq(p, 2, n + 1)
<1>1. Len(p) \in Nat /\ ~LongHeader(p[1])
  BY LenProperties DEF LongHeader
<1> QED BY <1>1 DEF ExtractDCID, Slice

-----------------------------------------------------------------------------
(* Integers in the headers.                                                *)

\* v[k] is the value of the first k bytes.
Values(v, d, o, n) ==
  v = [k \in 0..n |-> IF k = 0 THEN 0 ELSE 256 * v[k - 1] + Byte(d, o + k - 1)]

\* There is such a function.
LEMMA ValuesExist ==
  ASSUME NEW d, NEW o \in Int, NEW n \in Nat, \A j \in o..(o + n - 1) : Byte(d, j) \in Nat
  PROVE  \E v \in [0..n -> Nat] : Values(v, d, o, n)
<1> DEFINE Upto(v, m) == \A k \in 0..m : v[k] = IF k = 0 THEN 0 ELSE 256 * v[k - 1] + Byte(d, o + k - 1)
           T == {m \in 0..n : \E v \in [0..m -> Nat] : Upto(v, m)}
<1>1. 0 \in T
  <2>1. [k \in 0..0 |-> 0] \in [0..0 -> Nat] /\ Upto([k \in 0..0 |-> 0], 0)
    OBVIOUS
  <2>2. 0 \in 0..n
    OBVIOUS
  <2> QED BY <2>1, <2>2, ZenonT(60)
<1>2. ASSUME NEW m \in 0..(n - 1), m \in T PROVE m + 1 \in T
  <2>0. m + 1 \in 0..n /\ m \in Nat /\ o + m \in o..(o + n - 1) /\ o + (m + 1) - 1 = o + m
    OBVIOUS
  <2>1. SUFFICES \E v \in [0..(m + 1) -> Nat] : Upto(v, m + 1)
    BY <2>0, Zenon
  <2>2. PICK v \in [0..m -> Nat] : Upto(v, m)
    BY <1>2
  <2>b. PICK b \in Nat : b = Byte(d, o + m)
    BY <2>0
  <2> DEFINE last == 256 * v[m] + b
             h == [k \in 0..(m + 1) |-> IF k = m + 1 THEN last ELSE v[k]]
  <2>3. last \in Nat
    BY <2>0
  <2>4. h \in [0..(m + 1) -> Nat]
    BY <2>3
  <2>5. ASSUME NEW k \in 0..(m + 1)
        PROVE  h[k] = IF k = 0 THEN 0 ELSE 256 * h[k - 1] + Byte(d, o + k - 1)
    <3>1. CASE k = m + 1
      <4>1. h[k] = 256 * v[m] + b /\ h[k - 1] = v[m] /\ k # 0
        BY <3>1
      <4>2. o + k - 1 = o + m
        BY <3>1
      <4> HIDE DEF h
      <4> QED BY <4>1, <4>2, <2>b
    <3>2. CASE k # m + 1
      <4>1. k \in 0..m /\ h[k] = v[k] /\ (k # 0 => k - 1 \in 0..m /\ h[k - 1] = v[k - 1])
        BY <3>2
      <4>2. v[k] = IF k = 0 THEN 0 ELSE 256 * v[k - 1] + Byte(d, o + k - 1)
        BY <2>2, <4>1
      <4> HIDE DEF h
      <4> QED BY <4>1, <4>2
    <3> QED BY <3>1, <3>2
  <2> HIDE DEF h
  <2> QED BY <2>4, <2>5, ZenonT(60)
<1>3. n \in T
  <2>1. 0 \in Int /\ n \in Int /\ n \in 0..n
    OBVIOUS
  <2> HIDE DEF T
  <2>2. 0..n \subseteq T
    BY <1>1, <1>2, <2>1, IntervalInduction, Zenon
  <2> QED BY <2>1, <2>2
<1>4. PICK v \in [0..n -> Nat] : Upto(v, n)
  BY <1>3
<1> QED BY <1>4, SMTT(30) DEF Values

\* There is one such function only, as far as the bytes are the same.
LEMMA ValuesUnique ==
  ASSUME NEW d, NEW e, NEW o \in Int, NEW n \in Nat, NEW v, NEW w,
         Values(v, d, o, n), Values(w, e, o, n),
         \A j \in o..(o + n - 1) : Byte(d, j) = Byte(e, j)
  PROVE  v[n] = w[n]
<1> DEFINE T == {k \in 0..n : v[k] = w[k]}
<1>1. 0 \in T
  BY DEF Values
<1>2. ASSUME NEW k \in 0..(n - 1), k \in T PROVE k + 1 \in T
  <2>1. k + 1 \in 0..n /\ k + 1 # 0 /\ (k + 1) - 1 = k /\ o + (k + 1) - 1 \in o..(o + n - 1)
        /\ v[k] = w[k]
    BY <1>2
  <2>2. v[k + 1] = 256 * v[(k + 1) - 1] + Byte(d, o + (k + 1) - 1)
    BY <2>1, ZenonT(60) DEF Values
  <2>3. w[k + 1] = 256 * w[(k + 1) - 1] + Byte(e, o + (k + 1) - 1)
    BY <2>1, Zenon DEF Values
  <2>4. Byte(d, o + (k + 1) - 1) = Byte(e, o + (k + 1) - 1)
    BY <2>1
  <2> QED BY <2>1, <2>2, <2>3, <2>4
<1>3. 0..n \subseteq T
  <2>1. 0 \in Int /\ n \in Int
    OBVIOUS
  <2> HIDE DEF T
  <2> QED BY <1>1, <1>2, <2>1, IntervalInduction, Zenon
<1> QED BY <1>3

\* BigEndian is the last value of such a function.
LEMMA BigEndianDef ==
  ASSUME NEW d, NEW o \in Int, NEW n \in Nat, \A j \in o..(o + n - 1) : Byte(d, j) \in Nat
  PROVE  \E v : Values(v, d, o, n) /\ BigEndian(d, o, n) = v[n]
<1> DEFINE C == CHOOSE v : v = [k \in 0..n |-> IF k = 0 THEN 0 ELSE 256 * v[k - 1] + Byte(d, o + k - 1)]
<1>1. \E v : v = [k \in 0..n |-> IF k = 0 THEN 0 ELSE 256 * v[k - 1] + Byte(d, o + k - 1)]
  <2>1. PICK v \in [0..n -> Nat] : Values(v, d, o, n)
    BY ValuesExist
  <2> QED BY <2>1, ZenonT(60) DEF Values
<1>2. C = [k \in 0..n |-> IF k = 0 THEN 0 ELSE 256 * C[k - 1] + Byte(d, o + k - 1)]
  BY <1>1, Zenon
<1>3. BigEndian(d, o, n) = C[n]
  BY Zenon DEF BigEndian
<1> HIDE DEF C
<1> QED BY <1>2, <1>3, Zenon DEF Values

\* A number is read, and which one depends on its bytes alone.
LEMMA BigEndianType ==
  ASSUME NEW d, NEW o \in Int, NEW n \in Nat, \A j \in o..(o + n - 1) : Byte(d, j) \in Nat
  PROVE  /\ BigEndian(d, o, n) \in Nat
         /\ \A e : (\A j \in o..(o + n - 1) : Byte(e, j) = Byte(d, j))
                     => BigEndian(e, o, n) = BigEndian(d, o, n)
<1>1. PICK v : Values(v, d, o, n) /\ BigEndian(d, o, n) = v[n]
  BY BigEndianDef
<1>2. PICK w \in [0..n -> Nat] : Values(w, d, o, n)
  BY ValuesExist
<1>3. v[n] = w[n]
  BY <1>1, <1>2, ValuesUnique
<1>4. BigEndian(d, o, n) \in Nat
  BY <1>1, <1>2, <1>3
<1>5. ASSUME NEW e, \A j \in o..(o + n - 1) : Byte(e, j) = Byte(d, j)
      PROVE  BigEndian(e, o, n) = BigEndian(d, o, n)
  <2>1. \A j \in o..(o + n - 1) : Byte(e, j) \in Nat
    BY <1>5
  <2>2. PICK u : Values(u, e, o, n) /\ BigEndian(e, o, n) = u[n]
    BY <2>1, BigEndianDef
  <2>3. u[n] = v[n]
    BY <2>2, <1>1, <1>5, ValuesUnique
  <2> QED BY <1>1, <2>2, <2>3
<1> QED BY <1>4, <1>5

\* A part of a sequence of bytes.
LEMMA SliceType ==
  ASSUME NEW d \in Seq(Octet), NEW from \in Nat, NEW to \in Nat, to <= Len(d)
  PROVE  /\ Slice(d, from, to) \in Seq(Octet)
         /\ Len(Slice(d, from, to)) = IF from < to THEN to - from ELSE 0
         /\ \A i \in 1..(to - from) : Slice(d, from, to)[i] = d[from + i]
<1>1. Len(d) \in Nat
  BY LenProperties
<1>2. from + 1 \in Int /\ to \in Int /\ \A i \in (from + 1)..to : d[i] \in Octet
  BY <1>1, ElementOfSeq
<1>3. /\ SubSeq(d, from + 1, to) \in Seq(Octet)
      /\ Len(SubSeq(d, from + 1, to)) = IF from + 1 <= to THEN to - (from + 1) + 1 ELSE 0
      /\ \A i \in 1..(to - (from + 1) + 1) : SubSeq(d, from + 1, to)[i] = d[from + 1 + i - 1]
  BY <1>2, SubSeqProperties
<1> QED BY <1>3, SMTT(30) DEF Slice

\* An integer lies within the data, or none is read.
LEMMA VarIntType ==
  ASSUME NEW d \in Seq(Octet), NEW o \in 0..Len(d)
  PROVE  LET v == readVarInt(d, o)
         IN v.n = 0 \/ (v.n \in Nat /\ v.n > 0 /\ v.val \in Nat /\ o + v.n <= Len(d))
<1>0. Len(d) \in Nat
  BY LenProperties
<1>1. CASE o = Len(d)
  BY <1>1 DEF readVarInt, NoVarInt
<1>2. CASE o # Len(d)
  <2>1. PICK b \in Octet : b = Byte(d, o)
    <3>1. o + 1 \in 1..Len(d)
      BY <1>0, <1>2
    <3> QED BY <3>1, ElementOfSeq DEF Byte
  <2>2. PICK n : n = <<1, 2, 4, 8>>[Byte(d, o) \div 64 + 1]
    OBVIOUS
  <2>3. n \in {1, 2, 4, 8}
    <3>1. b \div 64 + 1 \in 1..4
      BY DEF Octet
    <3>2. n = <<1, 2, 4, 8>>[b \div 64 + 1]
      BY <2>1, <2>2
    <3>3. \A i \in 1..4 : <<1, 2, 4, 8>>[i] \in {1, 2, 4, 8}
      OBVIOUS
    <3> QED BY <3>1, <3>2, <3>3
  <2>4. CASE o + n > Len(d)
    BY <1>2, <2>2, <2>4 DEF readVarInt, NoVarInt
  <2>5. CASE ~(o + n > Len(d))
    <3> DEFINE s == <<Byte(d, o) % 64>> \o Slice(d, o + 1, o + n)
    <3>1. readVarInt(d, o) = [n |-> n, val |-> BigEndian(s, 0, n)]
      BY <1>2, <2>2, <2>5, Zenon DEF readVarInt
    <3>2. \A j \in 0..(0 + n - 1) : Byte(s, j) \in Nat
      <4>1. Slice(d, o + 1, o + n) \in Seq(Octet) /\ Len(Slice(d, o + 1, o + n)) = n - 1
        <5>1. o + 1 \in Nat /\ o + n \in Nat /\ o + n <= Len(d)
          BY <1>0, <2>3, <2>5
        <5>2. (IF o + 1 < o + n THEN (o + n) - (o + 1) ELSE 0) = n - 1
          BY <2>3
        <5> QED BY <5>1, <5>2, SliceType
      <4>2. Byte(d, o) % 64 \in Octet
        <5>1. \A y \in 0..255 : y % 64 \in 0..255
          OBVIOUS
        <5> QED BY <5>1, <2>1, Zenon DEF Octet
      <4>3. <<Byte(d, o) % 64>> \in Seq(Octet) /\ Len(<<Byte(d, o) % 64>>) = 1
        BY <4>2
      <4>4. s \in Seq(Octet) /\ Len(s) = n
        BY <4>1, <4>3, <2>3, ConcatProperties
      <4> HIDE DEF s
      <4>5. ASSUME NEW j \in 0..(0 + n - 1) PROVE Byte(s, j) \in Nat
        <5>1. j + 1 \in 1..Len(s)
          BY <4>4, <2>3
        <5>2. s[j + 1] \in Octet
          BY <5>1, <4>4, ElementOfSeq
        <5>3. s[j + 1] \in Nat
          BY <5>2, OctetIsNat, Zenon
        <5> QED BY <5>3, Zenon DEF Byte
      <4> QED BY <4>5
    <3> HIDE DEF s
    <3>3. BigEndian(s, 0, n) \in Nat
      BY <3>2, <2>3, BigEndianType
    <3> QED BY <3>1, <3>3, <2>3, <2>5, <1>0
  <2> QED BY <2>4, <2>5
<1> QED BY <1>1, <1>2

\* A zero byte is an integer of one byte.
LEMMA VarIntZero ==
  ASSUME NEW d \in Seq(Octet), NEW e \in Nat, e < Len(d), Byte(d, e) = 0
  PROVE  readVarInt(d, e) = [n |-> 1, val |-> 0]
<1>0. PICK L \in Nat : L = Len(d)
  BY LenProperties
<1>1. PICK x : x = <<0>> \o Slice(d, e + 1, e + 1)
  OBVIOUS
<1>2. Byte(x, 0) = 0
  <2>1. Slice(d, e + 1, e + 1) \in Seq(Octet)
    <3>1. e + 1 \in Nat /\ e + 1 <= Len(d)
      BY <1>0
    <3> QED BY <3>1, SliceType
  <2>2. <<0>> \in Seq(Octet) /\ Len(<<0>>) = 1 /\ <<0>>[1] = 0
    BY DEF Octet
  <2>3. PICK t \in Seq(Octet) : t = Slice(d, e + 1, e + 1)
    BY <2>1
  <2>4. (<<0>> \o t)[1] = <<0>>[1]
    <3>1. Len(t) \in Nat
      BY LenProperties
    <3>2. 1 \in 1..(Len(<<0>>) + Len(t)) /\ 1 <= Len(<<0>>)
      BY <2>2, <3>1
    <3> QED BY <2>2, <3>2, ConcatProperties
  <2> QED BY <1>1, <2>2, <2>3, <2>4 DEF Byte
<1>3. BigEndian(x, 0, 1) = 0
  <2>1. \A j \in 0..(0 + 1 - 1) : Byte(x, j) \in Nat
    <3>1. \A j \in 0..(0 + 1 - 1) : j = 0
      OBVIOUS
    <3>2. Byte(x, 0) \in Nat
      BY <1>2
    <3> QED BY <3>1, <3>2, Zenon
  <2>2. 0 \in Int /\ 1 \in Nat
    OBVIOUS
  <2>3. PICK v : Values(v, x, 0, 1) /\ BigEndian(x, 0, 1) = v[1]
    BY <2>1, <2>2, BigEndianDef, Zenon
  <2>4. v[0] = 0 /\ v[1] = 256 * v[0] + Byte(x, 0 + 1 - 1)
    BY <2>3 DEF Values
  <2>5. 0 + 1 - 1 = 0
    OBVIOUS
  <2>6. v[1] = 256 * 0 + 0
    BY <2>4, <2>5, <1>2, ZenonT(60)
  <2> QED BY <2>3, <2>6
<1>4. <<1, 2, 4, 8>>[0 \div 64 + 1] = 1 /\ 0 % 64 = 0
  BY Z3
<1>5. ~(e = Len(d)) /\ ~(e + 1 > Len(d))
  BY <1>0
<1> QED BY <1>1, <1>3, <1>4, <1>5, ZenonT(60) DEF readVarInt

-----------------------------------------------------------------------------
(* The walk over a datagram of the server.                                 *)

\* W[o] is what the walk finds from o on: a[o] there, the rest from nx[o] on.
Walks(W, a, nx, L) ==
  W = [o \in 0..L |-> a[o] \cup IF nx[o] < 0 THEN {} ELSE W[nx[o]]]

\* A walk that only goes on is defined.
LEMMA WalkExists ==
  ASSUME NEW L \in Nat, NEW a, NEW nx, \A o \in 0..L : nx[o] = -1 \/ nx[o] \in (o + 1)..L
  PROVE  \E W : Walks(W, a, nx, L)
<1> DEFINE From(W, m) == \A o \in (L - m)..L : W[o] = a[o] \cup IF nx[o] < 0 THEN {} ELSE W[nx[o]]
           T == {m \in 0..L : \E W : From(W, m)}
<1>1. 0 \in T
  <2>1. nx[L] = -1
    <3>1. nx[L] = -1 \/ nx[L] \in (L + 1)..L
      OBVIOUS
    <3> QED BY <3>1
  <2>2. From([o \in {L} |-> a[L]], 0)
    <3> SUFFICES ASSUME NEW o \in (L - 0)..L
                 PROVE  [q \in {L} |-> a[L]][o] = a[o] \cup IF nx[o] < 0 THEN {} ELSE [q \in {L} |-> a[L]][nx[o]]
      OBVIOUS
    <3>1. o = L
      OBVIOUS
    <3> QED BY <3>1, <2>1
  <2>3. 0 \in 0..L
    OBVIOUS
  <2> QED BY <2>2, <2>3, Zenon
<1>2. ASSUME NEW m \in 0..(L - 1), m \in T PROVE m + 1 \in T
  <2>0. m + 1 \in 0..L /\ L - (m + 1) \in 0..L
    OBVIOUS
  <2>1. SUFFICES \E W : From(W, m + 1)
    BY <2>0, Zenon
  <2>2. PICK W : From(W, m)
    BY <1>2
  <2>b. PICK b \in 0..L : b = L - (m + 1)
    BY <2>0
  <2> DEFINE V == [o \in b..L |-> IF o = b THEN a[o] \cup IF nx[o] < 0 THEN {} ELSE W[nx[o]] ELSE W[o]]
  <2>3. ASSUME NEW o \in b..L
        PROVE  V[o] = a[o] \cup IF nx[o] < 0 THEN {} ELSE V[nx[o]]
    <3>1. V[o] = a[o] \cup IF nx[o] < 0 THEN {} ELSE W[nx[o]]
      <4>1. CASE o = b
        BY <4>1
      <4>2. CASE o # b
        <5>1. o \in (L - m)..L /\ V[o] = W[o]
          BY <4>2, <2>b
        <5> QED BY <5>1, <2>2
      <4> QED BY <4>1, <4>2
    <3>2. nx[o] = -1 \/ nx[o] \in (o + 1)..L
      BY <2>b
    <3>3. nx[o] # -1 => V[nx[o]] = W[nx[o]] /\ ~(nx[o] < 0)
      BY <3>2
    <3> HIDE DEF V
    <3> QED BY <3>1, <3>2, <3>3
  <2> HIDE DEF V
  <2>4. From(V, m + 1)
    BY <2>3, <2>b
  <2> QED BY <2>4
<1>3. L \in T
  <2>1. 0 \in Int /\ L \in Int /\ L \in 0..L
    OBVIOUS
  <2> HIDE DEF T
  <2>2. 0..L \subseteq T
    BY <1>1, <1>2, <2>1, IntervalInduction, Zenon
  <2> QED BY <2>1, <2>2
<1>4. PICK W : From(W, L)
  BY <1>3
<1>5. PICK V : V = [o \in 0..L |-> W[o]]
  OBVIOUS
<1>6. \A o \in 0..L : V[o] = a[o] \cup IF nx[o] < 0 THEN {} ELSE V[nx[o]]
  <2> SUFFICES ASSUME NEW o \in 0..L PROVE V[o] = a[o] \cup IF nx[o] < 0 THEN {} ELSE V[nx[o]]
    OBVIOUS
  <2>1. o \in (L - L)..L /\ V[o] = W[o]
    BY <1>5
  <2>2. V[o] = a[o] \cup IF nx[o] < 0 THEN {} ELSE W[nx[o]]
    BY <1>4, <2>1
  <2>3. nx[o] # -1 => V[nx[o]] = W[nx[o]] /\ ~(nx[o] < 0)
    BY <1>5
  <2>4. nx[o] = -1 => nx[o] < 0
    OBVIOUS
  <2> QED BY <2>2, <2>3, <2>4
<1>7. V = [o \in 0..L |-> V[o]]
  BY <1>5
<1>8. [o \in 0..L |-> V[o]] = [o \in 0..L |-> a[o] \cup IF nx[o] < 0 THEN {} ELSE V[nx[o]]]
  BY <1>6
<1> QED BY <1>7, <1>8, Zenon DEF Walks

\* It finds nothing but what is found at the places it goes to.
LEMMA WalkFinds ==
  ASSUME NEW L \in Nat, NEW a, NEW nx, \A o \in 0..L : nx[o] = -1 \/ nx[o] \in (o + 1)..L,
         NEW W, Walks(W, a, nx, L), NEW S, \A o \in 0..L : a[o] \subseteq S
  PROVE  W[0] \subseteq S
<1> DEFINE T == {m \in 0..L : \A o \in (L - m)..L : W[o] \subseteq S}
<1>0. \A o \in 0..L : W[o] = a[o] \cup IF nx[o] < 0 THEN {} ELSE W[nx[o]]
  BY Zenon DEF Walks
<1>1. 0 \in T
  <2>1. L \in 0..L /\ (nx[L] = -1 \/ nx[L] \in (L + 1)..L)
    OBVIOUS
  <2>2. nx[L] = -1
    BY <2>1
  <2>3. W[L] = a[L]
    <3>1. nx[L] < 0
      BY <2>2
    <3> QED BY <2>1, <3>1, <1>0
  <2>4. \A o \in (L - 0)..L : o = L
    OBVIOUS
  <2> QED BY <2>1, <2>3, <2>4
<1>2. ASSUME NEW m \in 0..(L - 1), m \in T PROVE m + 1 \in T
  <2>0. m + 1 \in 0..L
    OBVIOUS
  <2>1. ASSUME NEW o \in (L - (m + 1))..L PROVE W[o] \subseteq S
    <3>1. o \in 0..L /\ (o \in (L - m)..L \/ o = L - (m + 1))
      OBVIOUS
    <3>2. CASE o \in (L - m)..L
      BY <3>2, <1>2
    <3>3. CASE o = L - (m + 1)
      <4>1. nx[o] = -1 \/ nx[o] \in (o + 1)..L
        BY <3>1
      <4>2. nx[o] # -1 => nx[o] \in (L - m)..L
        BY <4>1, <3>3
      <4>3. nx[o] # -1 => W[nx[o]] \subseteq S
        BY <4>2, <1>2
      <4>4. nx[o] = -1 => nx[o] < 0
        OBVIOUS
      <4>5. a[o] \subseteq S
        BY <3>1
      <4> QED BY <3>1, <4>3, <4>4, <4>5, <1>0
    <3> QED BY <3>1, <3>2, <3>3
  <2> QED BY <2>0, <2>1
<1>3. L \in T
  <2>1. 0 \in Int /\ L \in Int /\ L \in 0..L
    OBVIOUS
  <2> HIDE DEF T
  <2>2. 0..L \subseteq T
    BY <1>1, <1>2, <2>1, IntervalInduction, Zenon
  <2> QED BY <2>1, <2>2
<1>4. 0 \in (L - L)..L
  OBVIOUS
<1> QED BY <1>3, <1>4

\* The places of the walk over the datagram d, as ExtractAllSCIDs has them.
ScidLen(d, o) == o + 6 + Byte(d, o + 5)
ScidEnd(d, o) == ScidLen(d, o) + 1 + Byte(d, ScidLen(d, o))
NextPacket(d, o) == ScidEnd(d, o) + readVarInt(d, ScidEnd(d, o)).n + readVarInt(d, ScidEnd(d, o)).val
Stops(d, o) == \/ o >= Len(d) \/ ~LongHeader(Byte(d, o))
               \/ Len(d) - o < 6 \/ ScidLen(d, o) >= Len(d) \/ ScidEnd(d, o) > Len(d)
Found(d, o) == IF Stops(d, o) THEN {} ELSE {Slice(d, ScidLen(d, o) + 1, ScidEnd(d, o))}
Ends(d, o) == Stops(d, o) \/ readVarInt(d, ScidEnd(d, o)).n = 0 \/ NextPacket(d, o) > Len(d)
Onward(d, o) == IF Ends(d, o) THEN -1 ELSE NextPacket(d, o)

\* A byte of a datagram.
LEMMA ByteType ==
  ASSUME NEW d \in Seq(Octet), NEW j \in 0..(Len(d) - 1)
  PROVE  Byte(d, j) \in Octet
<1>1. Len(d) \in Nat
  BY LenProperties
<1>2. j + 1 \in 1..Len(d)
  BY <1>1
<1>3. d[j + 1] \in Octet
  BY <1>2, ElementOfSeq
<1> QED BY <1>3, Zenon DEF Byte

\* The walk stays within the datagram and goes on.
LEMMA WalkStep ==
  ASSUME NEW d \in Seq(Octet), NEW o \in 0..Len(d)
  PROVE  /\ Found(d, o) \subseteq Seq(Octet)
         /\ ~Ends(d, o) => NextPacket(d, o) \in (o + 1)..Len(d)
<1>0. Len(d) \in Nat
  BY LenProperties
<1>l. PICK L \in Nat : L = Len(d)
  BY <1>0
<1>1. CASE Stops(d, o)
  BY <1>1 DEF Found, Ends
<1>2. CASE ~Stops(d, o)
  <2>1. o < L /\ ~(L - o < 6) /\ ~(ScidLen(d, o) >= L) /\ ~(ScidEnd(d, o) > L)
    BY <1>2, <1>l, <1>0 DEF Stops
  <2>2. o + 5 \in 0..(L - 1)
    BY <2>1, <1>l
  <2>3. PICK b \in Nat : b = Byte(d, o + 5)
    BY <2>2, <1>l, ByteType, OctetIsNat
  <2>4. PICK s \in Nat : s = ScidLen(d, o)
    BY <2>3, <1>l DEF ScidLen
  <2>5. s = o + 6 + b
    BY <2>3, <2>4, Zenon DEF ScidLen
  <2>6. s \in 0..(L - 1)
    BY <2>1, <2>4
  <2>7. PICK c \in Nat : c = Byte(d, s)
    BY <2>6, <1>l, ByteType, OctetIsNat
  <2>8. PICK e \in Nat : e = s + 1 + c
    OBVIOUS
  <2>9. e = ScidEnd(d, o)
    BY <2>4, <2>7, <2>8, Zenon DEF ScidEnd
  <2>10. e <= L /\ e > o
    BY <2>1, <2>5, <2>8, <2>9
  <2>11. Slice(d, s + 1, e) \in Seq(Octet)
    <3>1. s + 1 \in Nat /\ e <= Len(d)
      BY <2>10, <1>l
    <3> QED BY <3>1, SliceType
  <2>12. Found(d, o) \subseteq Seq(Octet)
    BY <1>2, <2>4, <2>9, <2>11, Zenon DEF Found
  <2>13. PICK v : v = readVarInt(d, e)
    OBVIOUS
  <2>14. v.n = 0 \/ (v.n \in Nat /\ v.n > 0 /\ v.val \in Nat /\ e + v.n <= L)
    <3>1. e \in 0..Len(d)
      BY <2>10, <1>l
    <3> QED BY <3>1, <2>13, <1>l, VarIntType
  <2>15. NextPacket(d, o) = e + v.n + v.val
    BY <2>9, <2>13, Zenon DEF NextPacket
  <2>16. ~Ends(d, o) => v.n # 0 /\ ~(e + v.n + v.val > L)
    BY <1>l, <2>9, <2>13, <2>15, Zenon DEF Ends
  <2>17. ~Ends(d, o) => NextPacket(d, o) \in (o + 1)..L
    BY <2>10, <2>14, <2>15, <2>16
  <2> QED BY <2>12, <2>17, <1>l
<1> QED BY <1>1, <1>2

\* The walk of ExtractAllSCIDs.
SCIDWalk(W, d) ==
  /\ ExtractAllSCIDs(d) = W[0] \ {<<>>}
  /\ Walks(W, [o \in 0..Len(d) |-> Found(d, o)], [o \in 0..Len(d) |-> Onward(d, o)], Len(d))
LEMMA WalkDef ==
  ASSUME NEW d \in Seq(Octet)
  PROVE  \E W : SCIDWalk(W, d)
<1> DEFINE body(W, o) ==
             LET scidLen == o + 6 + Byte(d, o + 5)
                 end == scidLen + 1 + Byte(d, scidLen)
                 length == readVarInt(d, end)
                 next == end + length.n + length.val
             IN IF \/ o >= Len(d) \/ ~LongHeader(Byte(d, o))
                   \/ Len(d) - o < 6 \/ scidLen >= Len(d) \/ end > Len(d)
                THEN {}
                ELSE {Slice(d, scidLen + 1, end)} \cup
                     IF length.n = 0 \/ next > Len(d) THEN {} ELSE W[next]
           C == CHOOSE W : W = [o \in 0..Len(d) |-> body(W, o)]
<1>0. PICK L \in Nat : L = Len(d)
  BY LenProperties
<1>1. PICK a : a = [o \in 0..L |-> Found(d, o)]
  OBVIOUS
<1>2. PICK nx : nx = [o \in 0..L |-> Onward(d, o)]
  OBVIOUS
<1>3. \A o \in 0..L : a[o] \subseteq Seq(Octet) /\ (nx[o] = -1 \/ nx[o] \in (o + 1)..L)
  <2> SUFFICES ASSUME NEW o \in 0..L
               PROVE  a[o] \subseteq Seq(Octet) /\ (nx[o] = -1 \/ nx[o] \in (o + 1)..L)
    OBVIOUS
  <2>1. a[o] = Found(d, o) /\ nx[o] = Onward(d, o)
    BY <1>1, <1>2
  <2>2. Found(d, o) \subseteq Seq(Octet) /\ (~Ends(d, o) => NextPacket(d, o) \in (o + 1)..L)
    BY <1>0, WalkStep
  <2>3. Onward(d, o) = IF Ends(d, o) THEN -1 ELSE NextPacket(d, o)
    BY Zenon DEF Onward
  <2> QED BY <2>1, <2>2, <2>3
<1>4. ASSUME NEW W, NEW o \in 0..L
      PROVE  body(W, o) = a[o] \cup IF nx[o] < 0 THEN {} ELSE W[nx[o]]
  <2>1. a[o] = Found(d, o) /\ nx[o] = Onward(d, o)
    BY <1>1, <1>2
  <2>2. ~Ends(d, o) => NextPacket(d, o) \in (o + 1)..L
    BY <1>0, WalkStep
  <2>3. body(W, o) = IF Stops(d, o) THEN {}
                     ELSE {Slice(d, ScidLen(d, o) + 1, ScidEnd(d, o))} \cup
                          IF readVarInt(d, ScidEnd(d, o)).n = 0 \/ NextPacket(d, o) > Len(d) THEN {}
                          ELSE W[NextPacket(d, o)]
    BY Zenon DEF Stops, ScidLen, ScidEnd, NextPacket
  <2> HIDE DEF body
  <2>4. body(W, o) = Found(d, o) \cup IF Ends(d, o) THEN {} ELSE W[NextPacket(d, o)]
    <3>1. CASE Stops(d, o)
      BY <2>3, <3>1 DEF Found, Ends
    <3>2. CASE ~Stops(d, o)
      BY <2>3, <3>2, Zenon DEF Found, Ends
    <3> QED BY <3>1, <3>2
  <2>5. CASE Ends(d, o)
    <3>1. nx[o] = -1
      BY <2>1, <2>5, Zenon DEF Onward
    <3>2. nx[o] < 0
      BY <3>1
    <3> QED BY <2>1, <2>4, <2>5, <3>2, Zenon
  <2>6. CASE ~Ends(d, o)
    <3>1. nx[o] = NextPacket(d, o)
      BY <2>1, <2>6, Zenon DEF Onward
    <3>2. ~(nx[o] < 0)
      BY <2>2, <2>6, <3>1
    <3> QED BY <2>1, <2>4, <2>6, <3>1, <3>2, Zenon
  <2> QED BY <2>5, <2>6
<1>5. \A W : [o \in 0..L |-> body(W, o)] = [o \in 0..L |-> a[o] \cup IF nx[o] < 0 THEN {} ELSE W[nx[o]]]
  <2> HIDE DEF body
  <2> QED BY <1>4
<1>6. \E W : W = [o \in 0..Len(d) |-> body(W, o)]
  <2> HIDE DEF body
  <2>1. PICK W : Walks(W, a, nx, L)
    BY <1>3, WalkExists
  <2>2. W = [o \in 0..L |-> body(W, o)]
    BY <2>1, <1>5, Zenon DEF Walks
  <2> QED BY <2>2, <1>0, Zenon
<1>7. C = [o \in 0..Len(d) |-> body(C, o)]
  <2> HIDE DEF body
  <2> QED BY <1>6, Zenon
<1>8. ExtractAllSCIDs(d) = C[0] \ {<<>>}
  BY Zenon DEF ExtractAllSCIDs
<1> HIDE DEF C, body
<1>9. Walks(C, a, nx, L)
  BY <1>0, <1>5, <1>7, Zenon DEF Walks
<1> QED BY <1>0, <1>1, <1>2, <1>8, <1>9, Zenon DEF SCIDWalk

\* The connection IDs that are learnt are bytes of the datagram, and not empty.
LEMMA SCIDsType ==
  ASSUME NEW d \in Seq(Octet)
  PROVE  ExtractAllSCIDs(d) \subseteq CIDs
<1>0. PICK L \in Nat : L = Len(d)
  BY LenProperties
<1>1. PICK W : SCIDWalk(W, d)
  BY WalkDef
<1>2. PICK a, nx : a = [o \in 0..L |-> Found(d, o)] /\ nx = [o \in 0..L |-> Onward(d, o)]
  OBVIOUS
<1>3. \A o \in 0..L : a[o] \subseteq Seq(Octet) /\ (nx[o] = -1 \/ nx[o] \in (o + 1)..L)
  <2> SUFFICES ASSUME NEW o \in 0..L
               PROVE  a[o] \subseteq Seq(Octet) /\ (nx[o] = -1 \/ nx[o] \in (o + 1)..L)
    OBVIOUS
  <2>1. a[o] = Found(d, o) /\ nx[o] = Onward(d, o)
    BY <1>2
  <2>2. Found(d, o) \subseteq Seq(Octet) /\ (~Ends(d, o) => NextPacket(d, o) \in (o + 1)..L)
    BY <1>0, WalkStep
  <2>3. Onward(d, o) = IF Ends(d, o) THEN -1 ELSE NextPacket(d, o)
    BY Zenon DEF Onward
  <2> QED BY <2>1, <2>2, <2>3
<1>4. Walks(W, a, nx, L)
  BY <1>0, <1>1, <1>2, Zenon DEF SCIDWalk
<1>5. W[0] \subseteq Seq(Octet)
  BY <1>3, <1>4, WalkFinds
<1> QED BY <1>1, <1>5, Zenon DEF SCIDWalk, CIDs

\* What the walk finds from one place on.
LEMMA WalkAt ==
  ASSUME NEW d \in Seq(Octet), NEW W, SCIDWalk(W, d), NEW o \in 0..Len(d)
  PROVE  W[o] = Found(d, o) \cup IF Ends(d, o) THEN {} ELSE W[NextPacket(d, o)]
<1>1. W[o] = Found(d, o) \cup IF Onward(d, o) < 0 THEN {} ELSE W[Onward(d, o)]
  <2>1. PICK a, nx : /\ a = [i \in 0..Len(d) |-> Found(d, i)]
                     /\ nx = [i \in 0..Len(d) |-> Onward(d, i)]
    OBVIOUS
  <2>2. W = [i \in 0..Len(d) |-> a[i] \cup IF nx[i] < 0 THEN {} ELSE W[nx[i]]]
    BY <2>1, Zenon DEF SCIDWalk, Walks
  <2>3. W[o] = a[o] \cup IF nx[o] < 0 THEN {} ELSE W[nx[o]]
    BY <2>2
  <2> QED BY <2>1, <2>3
<1>2. CASE Ends(d, o)
  <2>1. Onward(d, o) = -1
    BY <1>2, Zenon DEF Onward
  <2>2. Onward(d, o) < 0
    BY <2>1
  <2> QED BY <1>1, <1>2, <2>2, Zenon
<1>3. CASE ~Ends(d, o)
  <2>1. Onward(d, o) = NextPacket(d, o)
    BY <1>3, Zenon DEF Onward
  <2>2. ~(Onward(d, o) < 0)
    <3>1. NextPacket(d, o) \in (o + 1)..Len(d)
      BY <1>3, WalkStep
    <3> QED BY <2>1, <3>1
  <2> QED BY <1>1, <1>3, <2>1, <2>2, Zenon
<1> QED BY <1>2, <1>3

\* From the end of the datagram, and from what is no long header, it finds nothing.
LEMMA WalkStops ==
  ASSUME NEW d \in Seq(Octet), NEW W, SCIDWalk(W, d), NEW o \in 0..Len(d),
         o = Len(d) \/ ~LongHeader(Byte(d, o))
  PROVE  W[o] = {}
<1>1. Stops(d, o)
  <2>1. Len(d) \in Nat
    BY LenProperties
  <2>2. o = Len(d) => o >= Len(d)
    BY <2>1
  <2> QED BY <2>2, Zenon DEF Stops
<1> QED BY <1>1, WalkAt, Zenon DEF Found, Ends

\* From a packet on, it finds its connection ID and, unless the packet has a
\* token, what it finds from the next packet on.
LEMMA WalkPacket ==
  ASSUME NEW d \in Seq(Octet), NEW W, SCIDWalk(W, d), NEW o, NEW next, NEW p,
         LaidOut(d, o, next, p)
  PROVE  /\ p.type = "1-RTT" => W[o] = {}
         /\ p.type = "Initial" => W[o] = {p.scid}
         /\ p.type \notin {"1-RTT", "Initial"} => W[o] = {p.scid} \cup W[next]
<1>0. PICK L \in Nat : L = Len(d)
  BY LenProperties
<1>1. o \in 0..L /\ next \in (o + 1)..L /\ (LongHeader(Byte(d, o)) <=> p.type # "1-RTT")
  BY <1>0, Zenon DEF LaidOut
<1>2. CASE p.type = "1-RTT"
  <2>1. W[o] = {}
    BY <1>0, <1>1, <1>2, WalkStops
  <2> QED BY <1>2, <2>1, Zenon
<1>3. CASE p.type # "1-RTT"
  <2>1. /\ o + 6 < next /\ ScidLen(d, o) < next /\ ScidEnd(d, o) + 1 < next
        /\ Slice(d, ScidLen(d, o) + 1, ScidEnd(d, o)) = p.scid
        /\ IF p.type = "Initial"
           THEN Byte(d, ScidEnd(d, o)) = 0 /\ ~LongHeader(Byte(d, ScidEnd(d, o) + 1))
           ELSE /\ readVarInt(d, ScidEnd(d, o)).n > 0
                /\ next = NextPacket(d, o)
    BY <1>3, Zenon DEF LaidOut, ScidLen, ScidEnd, NextPacket
  <2>2. PICK b \in Nat : b = Byte(d, o + 5)
    <3>1. o + 5 \in 0..(L - 1)
      BY <1>1, <2>1
    <3> QED BY <1>0, <3>1, ByteType, OctetIsNat
  <2>3. PICK s \in Nat : s = ScidLen(d, o)
    BY <1>1, <2>2 DEF ScidLen
  <2>4. s \in 0..(L - 1)
    BY <1>1, <2>1, <2>3
  <2>5. PICK c \in Nat : c = Byte(d, s)
    BY <1>0, <2>4, ByteType, OctetIsNat
  <2>6. PICK e \in Nat : e = s + 1 + c
    OBVIOUS
  <2>7. e = ScidEnd(d, o)
    BY <2>3, <2>5, <2>6, Zenon DEF ScidEnd
  <2>8. s < L /\ e + 1 < L /\ o < L /\ ~(L - o < 6)
    BY <1>1, <2>1, <2>3, <2>7
  <2>9. ~Stops(d, o)
    <3>1. ~(o >= L) /\ ~(s >= L) /\ ~(e > L)
      BY <1>1, <2>8
    <3> QED BY <1>0, <1>1, <1>3, <2>3, <2>7, <2>8, <3>1, Zenon DEF Stops
  <2>10. Found(d, o) = {p.scid}
    BY <2>1, <2>9, Zenon DEF Found
  <2>11. W[o] = {p.scid} \cup IF Ends(d, o) THEN {} ELSE W[NextPacket(d, o)]
    <3>1. o \in 0..Len(d)
      BY <1>0, <1>1
    <3>2. W[o] = Found(d, o) \cup IF Ends(d, o) THEN {} ELSE W[NextPacket(d, o)]
      BY <3>1, WalkAt
    <3> QED BY <2>10, <3>2, Zenon
  <2>12. CASE p.type = "Initial"
    \* The token's length is taken for the packet's, and nothing follows it.
    <3>1. Byte(d, e) = 0 /\ ~LongHeader(Byte(d, e + 1))
      BY <2>1, <2>7, <2>12, Zenon
    <3>2. readVarInt(d, e) = [n |-> 1, val |-> 0]
      BY <1>0, <2>8, <3>1, VarIntZero
    <3>3. NextPacket(d, o) = e + 1
      <4>1. NextPacket(d, o) = e + readVarInt(d, e).n + readVarInt(d, e).val
        BY <2>7, Zenon DEF NextPacket
      <4> QED BY <3>2, <4>1
    <3>4. W[e + 1] = {}
      <4>1. e + 1 \in 0..L
        BY <2>8
      <4> QED BY <1>0, <3>1, <4>1, WalkStops, Zenon
    <3> QED BY <2>11, <2>12, <3>3, <3>4, Zenon
  <2>13. CASE p.type # "Initial"
    <3>1. readVarInt(d, ScidEnd(d, o)).n # 0 /\ next = NextPacket(d, o)
      BY <2>1, <2>13
    <3>2. ~(next > L)
      BY <1>1
    <3>3. ~Ends(d, o)
      BY <1>0, <2>9, <3>1, <3>2, Zenon DEF Ends
    <3> QED BY <1>3, <2>11, <2>13, <3>1, <3>3, Zenon
  <2> QED BY <2>12, <2>13
<1> QED BY <1>2, <1>3


-----------------------------------------------------------------------------
(* The assembler.                                                          *)

\* A ClientHello that is cut off is not accepted.
LEMMA CutOffHello ==
  ASSUME NEW data, Len(data) < 4 + BigEndian(data, 1, 3)
  PROVE  parseTLSClientHello(data) = NoHello
  BY Zenon DEF parseTLSClientHello

Assembly ==
  [present : {TRUE}, buffer : [1..BufferSize -> Octet], written : SUBSET Bits,
   maxOffset : 0..BufferSize, expired : BOOLEAN]

\* The assembler has the bytes of raw at the offsets of C, as far as they fit.
Holds(a, raw, C) ==
  /\ a \in Assembly
  /\ a.written = C \cap Bits
  /\ \A j \in a.written : j < a.maxOffset /\ j < Len(raw) /\ a.buffer[j + 1] = raw[j + 1]

\* The frame f carries a part of raw, the bytes of Span(f).
Part(f, raw) ==
  /\ f \in [offset : Nat, data : Seq(Octet)]
  /\ f.offset + Len(f.data) <= Len(raw)
  /\ f.data = Slice(raw, f.offset, f.offset + Len(f.data))
Span(f) == f.offset..(f.offset + Len(f.data) - 1)

\* Bytes copied into the middle of a buffer.
Spliced(s, b, t, o, e, m) == s = Slice(b, 0, o) \o Slice(t, 0, e - o) \o Slice(b, e, m)
Fits(b, t, o, e, m) == Len(b) = m /\ o <= e /\ e <= m /\ e - o <= Len(t)
Overlays(s, b, t, o, e, m) ==
  /\ s \in Seq(Octet) /\ Len(s) = m
  /\ \A i \in 1..m : s[i] = IF o < i /\ i <= e THEN t[i - o] ELSE b[i]
LEMMA Splice ==
  ASSUME NEW b \in Seq(Octet), NEW t \in Seq(Octet), NEW o \in Nat, NEW e \in Nat,
         NEW m \in Nat, Fits(b, t, o, e, m), NEW s, Spliced(s, b, t, o, e, m)
  PROVE  Overlays(s, b, t, o, e, m)
<1> USE DEF Fits
<1>0. Len(t) \in Nat /\ o <= m /\ m <= Len(b) /\ o <= Len(b) /\ e - o \in Nat /\ 0 \in Nat
  BY LenProperties
<1>1. PICK x : x = Slice(b, 0, o)
  OBVIOUS
<1>2. PICK y : y = Slice(t, 0, e - o)
  OBVIOUS
<1>3. PICK z : z = Slice(b, e, m)
  OBVIOUS
<1>4. x \in Seq(Octet) /\ Len(x) = o /\ \A i \in 1..o : x[i] = b[i]
  <2>1. /\ x \in Seq(Octet) /\ Len(x) = IF 0 < o THEN o - 0 ELSE 0
        /\ \A i \in 1..(o - 0) : x[i] = b[0 + i]
    <3>1. 0 \in Nat /\ o <= Len(b)
      BY <1>0
    <3> QED BY <3>1, <1>1, SliceType, ZenonT(60)
  <2> QED BY <2>1
<1>5. y \in Seq(Octet) /\ Len(y) = e - o /\ \A i \in 1..(e - o) : y[i] = t[i]
  <2>1. /\ y \in Seq(Octet) /\ Len(y) = IF 0 < e - o THEN (e - o) - 0 ELSE 0
        /\ \A i \in 1..((e - o) - 0) : y[i] = t[0 + i]
    BY <1>0, <1>2, SliceType, ZenonT(60)
  <2> QED BY <2>1, <1>0
<1>6. z \in Seq(Octet) /\ Len(z) = m - e /\ \A i \in 1..(m - e) : z[i] = b[e + i]
  <2>1. /\ z \in Seq(Octet) /\ Len(z) = IF e < m THEN m - e ELSE 0
        /\ \A i \in 1..(m - e) : z[i] = b[e + i]
    BY <1>0, <1>3, SliceType, ZenonT(60)
  <2> QED BY <2>1, <1>0
<1>7. PICK u : u = x \o y
  OBVIOUS
<1>8. /\ u \in Seq(Octet) /\ Len(u) = e
      /\ \A i \in 1..e : u[i] = IF i <= o THEN x[i] ELSE y[i - o]
  <2>1. /\ u \in Seq(Octet) /\ Len(u) = Len(x) + Len(y)
        /\ \A i \in 1..(Len(x) + Len(y)) : u[i] = IF i <= Len(x) THEN x[i] ELSE y[i - Len(x)]
    BY <1>4, <1>5, <1>7, ConcatProperties, ZenonT(60)
  <2> QED BY <2>1, <1>4, <1>5
<1>9. /\ u \o z \in Seq(Octet) /\ Len(u \o z) = Len(u) + Len(z)
      /\ \A i \in 1..(Len(u) + Len(z)) : (u \o z)[i] = IF i <= Len(u) THEN u[i] ELSE z[i - Len(u)]
  BY <1>6, <1>8, ConcatProperties, ZenonT(60)
<1>10. s = u \o z
  BY <1>1, <1>2, <1>3, <1>7, Zenon DEF Spliced
<1>11. /\ s \in Seq(Octet) /\ Len(s) = m
       /\ \A i \in 1..m : s[i] = IF i <= e THEN u[i] ELSE z[i - e]
  <2>1. Len(u) = e /\ Len(z) = m - e /\ e + (m - e) = m
    BY <1>6, <1>8
  <2>2. /\ u \o z \in Seq(Octet) /\ Len(u \o z) = m
        /\ \A i \in 1..m : (u \o z)[i] = IF i <= e THEN u[i] ELSE z[i - e]
    BY <2>1, <1>9, Zenon
  <2> QED BY <2>2, <1>10, Zenon
<1>h. \A i \in 1..e : s[i] = u[i]
  BY <1>0, <1>11
<1>t. \A i \in 1..m : e < i => s[i] = z[i - e]
  BY <1>0, <1>11
<1>12. ASSUME NEW i \in 1..m PROVE s[i] = IF o < i /\ i <= e THEN t[i - o] ELSE b[i]
  <2>1. CASE i <= o
    <3>1. i \in 1..o /\ i \in 1..e /\ ~(o < i /\ i <= e)
      BY <2>1
    <3>2. s[i] = u[i] /\ u[i] = x[i] /\ x[i] = b[i]
      BY <3>1, <2>1, <1>4, <1>8, <1>h
    <3> QED BY <3>1, <3>2
  <2>2. CASE o < i /\ i <= e
    <3>1. i - o \in 1..(e - o) /\ i \in 1..e /\ ~(i <= o)
      BY <2>2, <1>0
    <3>2. s[i] = u[i] /\ u[i] = y[i - o] /\ y[i - o] = t[i - o]
      BY <3>1, <1>5, <1>8, <1>h, Zenon
    <3> QED BY <3>2, <2>2, Zenon
  <2>3. CASE e < i
    <3>1. i - e \in 1..(m - e) /\ e + (i - e) = i
      BY <2>3, <1>0
    <3>2. z[i - e] = b[i]
      BY <3>1, <1>6
    <3>3. s[i] = z[i - e]
      BY <2>3, <1>t, Zenon
    <3>4. ~(o < i /\ i <= e)
      BY <2>3
    <3> QED BY <3>2, <3>3, <3>4, Zenon
  <2>4. i <= o \/ (o < i /\ i <= e) \/ e < i
    OBVIOUS
  <2> QED BY <2>1, <2>2, <2>3, <2>4, Zenon
<1> QED BY <1>11, <1>12, Zenon DEF Overlays

\* An assembler that is created has nothing.
LEMMA NewHolds == ASSUME NEW raw PROVE Holds(NewCryptoAssembler, raw, {})
<1>1. BufferSize \in Nat
  BY HandshakeAssumption
<1>2. [i \in 1..BufferSize |-> 0] \in [1..BufferSize -> Octet]
  BY DEF Octet
<1>3. NewCryptoAssembler \in Assembly /\ NewCryptoAssembler.written = {}
  BY <1>1, <1>2 DEF NewCryptoAssembler, Assembly
<1> QED BY <1>3 DEF Holds

\* A frame adds its bytes and leaves the others alone.
LEMMA AddFrameHolds ==
  ASSUME NEW raw \in Seq(Octet), NEW C, NEW a, Holds(a, raw, C), NEW f, Part(f, raw)
  PROVE  Holds(AddFrame(a, f), raw, C \cup Span(f))
<1>0. /\ BufferSize \in Nat /\ Len(raw) \in Nat /\ a \in Assembly
      /\ f.offset \in Nat /\ f.data \in Seq(Octet)
  BY HandshakeAssumption, LenProperties DEF Holds, Part
<1>1. Len(f.data) \in Nat
  BY <1>0, LenProperties
<1>2. CASE f.offset >= BufferSize
  <2>1. Span(f) \cap Bits = {}
    BY <1>0, <1>1, <1>2 DEF Span, Bits
  <2>2. AddFrame(a, f) = a
    BY <1>2 DEF AddFrame
  <2> QED BY <2>1, <2>2 DEF Holds
<1>3. CASE ~(f.offset >= BufferSize)
  <2>1. PICK e : e = IF f.offset + Len(f.data) > BufferSize THEN BufferSize ELSE f.offset + Len(f.data)
    OBVIOUS
  <2>2. /\ e \in Nat /\ f.offset <= e /\ e <= BufferSize /\ e - f.offset <= Len(f.data)
        /\ e <= f.offset + Len(f.data)
    BY <1>0, <1>1, <1>3, <2>1
  <2>3. AddFrame(a, f) = Written(a, f, e)
    BY <1>3, <2>1, Zenon DEF AddFrame
  <2>4. Span(f) \cap Bits = f.offset..(e - 1)
    BY <1>0, <1>1, <1>3, <2>1, SMTT(30) DEF Span, Bits
  <2>5. a.buffer \in Seq(Octet) /\ Len(a.buffer) = BufferSize
    BY <1>0, SeqDef DEF Assembly
  <2>6. PICK s : s = Slice(a.buffer, 0, f.offset) \o Slice(f.data, 0, e - f.offset)
                     \o Slice(a.buffer, e, BufferSize)
    OBVIOUS
  <2>7. /\ s \in Seq(Octet) /\ Len(s) = BufferSize
        /\ \A i \in 1..BufferSize :
             s[i] = IF f.offset < i /\ i <= e THEN f.data[i - f.offset] ELSE a.buffer[i]
    <3>1. e - f.offset <= Len(f.data) /\ f.offset <= e /\ e <= BufferSize
      BY <2>2
    <3>2. PICK b \in Seq(Octet) : b = a.buffer
      BY <2>5
    <3>3. PICK t \in Seq(Octet) : t = f.data
      BY <1>0
    <3>4. PICK o \in Nat : o = f.offset
      BY <1>0
    <3>5. Len(b) = BufferSize /\ o <= e /\ e <= BufferSize /\ e - o <= Len(t)
      BY <3>1, <3>2, <3>3, <3>4, <2>5, Zenon
    <3>6. Spliced(s, b, t, o, e, BufferSize)
      BY <3>2, <3>3, <3>4, <2>6, Zenon DEF Spliced
    <3>7. /\ s \in Seq(Octet) /\ Len(s) = BufferSize
          /\ \A i \in 1..BufferSize : s[i] = IF o < i /\ i <= e THEN t[i - o] ELSE b[i]
      <4>1. e \in Nat /\ BufferSize \in Nat
        BY <1>0, <2>2
      <4>2. Fits(b, t, o, e, BufferSize)
        BY <3>5, Zenon DEF Fits
      <4>3. Overlays(s, b, t, o, e, BufferSize)
        BY <4>1, <4>2, <3>6, Splice, Zenon
      <4> QED BY <4>3, Zenon DEF Overlays
    <3> QED BY <3>2, <3>3, <3>4, <3>7, Zenon
  <2>8. s \in [1..BufferSize -> Octet]
    BY <2>7, LenProperties, ElementOfSeq
  <2>9. PICK b : b = Written(a, f, e)
    OBVIOUS
  <2>10. /\ b \in Assembly /\ b.buffer = s /\ b.written = a.written \cup f.offset..(e - 1)
         /\ b.maxOffset = IF e > a.maxOffset THEN e ELSE a.maxOffset
    <3>1. b = [a EXCEPT !.buffer = s, !.written = @ \cup f.offset..(e - 1),
                        !.maxOffset = IF e > @ THEN e ELSE @]
      BY <2>5, <2>6, <2>9, Zenon DEF Written
    <3>2. f.offset..(e - 1) \subseteq Bits
      BY <1>0, <2>2 DEF Bits
    <3>3. PICK w : w = a.written \cup f.offset..(e - 1)
      OBVIOUS
    <3>4. PICK n : n = IF e > a.maxOffset THEN e ELSE a.maxOffset
      OBVIOUS
    <3>5. w \in SUBSET Bits /\ n \in 0..BufferSize
      BY <3>2, <3>3, <3>4, <1>0, <2>2 DEF Assembly
    <3>6. b = [a EXCEPT !.buffer = s, !.written = w, !.maxOffset = n]
      BY <3>1, <3>3, <3>4, Zenon
    <3>7. b \in Assembly /\ b.buffer = s /\ b.written = w /\ b.maxOffset = n
      BY <3>5, <3>6, <1>0, <2>8 DEF Assembly
    <3> QED BY <3>3, <3>4, <3>7, Zenon
  <2>11. b.written = (C \cup Span(f)) \cap Bits
    BY <2>10, <2>4 DEF Holds
  <2>12. ASSUME NEW j \in b.written
         PROVE  j < b.maxOffset /\ j < Len(raw) /\ b.buffer[j + 1] = raw[j + 1]
    <3>0. j \in Nat /\ j + 1 \in 1..BufferSize /\ a.maxOffset \in Nat
      BY <2>10, <1>0 DEF Assembly, Bits
    <3>1. CASE j \in f.offset..(e - 1)
      <4>1. j < Len(raw) /\ j < e /\ f.offset < j + 1 /\ j + 1 <= e
        BY <3>1, <3>0, <2>2, <1>0, <1>1, SMTT(30) DEF Part
      <4>2. (j + 1) - f.offset \in 1..Len(f.data) /\ f.offset + ((j + 1) - f.offset) = j + 1
            /\ f.offset + Len(f.data) \in Nat
            /\ (f.offset + Len(f.data)) - f.offset = Len(f.data)
        <5>1. f.offset \in Nat /\ Len(f.data) \in Nat /\ e - f.offset <= Len(f.data)
              /\ j \in f.offset..(e - 1) /\ e \in Nat
          BY <3>1, <2>2, <1>0, <1>1
        <5>2. \A x \in Nat, l \in Nat : \A z \in x..(e - 1) : e - x <= l =>
                /\ (z + 1) - x \in 1..l /\ x + ((z + 1) - x) = z + 1
                /\ x + l \in Nat /\ (x + l) - x = l
          BY <5>1
        <5> QED BY <5>1, <5>2, Zenon
      <4>3. \A i \in 1..((f.offset + Len(f.data)) - f.offset) :
              Slice(raw, f.offset, f.offset + Len(f.data))[i] = raw[f.offset + i]
        BY <1>0, <4>2, SliceType DEF Part
      <4>4. f.data[(j + 1) - f.offset] = raw[j + 1]
        BY <4>2, <4>3 DEF Part
      <4>5. s[j + 1] = f.data[(j + 1) - f.offset]
        BY <4>1, <3>0, <2>7
      <4> QED BY <4>1, <4>4, <4>5, <2>10, <2>2, <3>0
    <3>2. CASE j \notin f.offset..(e - 1)
      <4>1. j \in a.written
        BY <3>2, <2>10
      <4>2. j < a.maxOffset /\ j < Len(raw) /\ a.buffer[j + 1] = raw[j + 1]
        BY <4>1 DEF Holds
      <4>3. ~(f.offset < j + 1 /\ j + 1 <= e)
        BY <3>2, <3>0, <2>2, <1>0
      <4>4. s[j + 1] = a.buffer[j + 1]
        BY <4>3, <3>0, <2>7
      <4> QED BY <4>2, <4>4, <2>10, <2>2, <3>0
    <3> QED BY <3>1, <3>2
  <2> QED BY <2>3, <2>9, <2>10, <2>11, <2>12 DEF Holds
<1> QED BY <1>2, <1>3

\* Frames added one after the other.
Adding(w, start, frames, n) ==
  w = [k \in 0..n |-> IF k > 0 THEN AddFrame(w[k - 1], frames[k]) ELSE start]

LEMMA AddingExists ==
  ASSUME NEW start, NEW frames, NEW n \in Nat
  PROVE  \E w : Adding(w, start, frames, n)
<1> DEFINE Upto(w, m) == \A k \in 0..m : w[k] = IF k > 0 THEN AddFrame(w[k - 1], frames[k]) ELSE start
           T == {m \in 0..n : \E w : Upto(w, m)}
<1>1. 0 \in T
  <2>1. Upto([k \in 0..0 |-> start], 0)
    OBVIOUS
  <2>2. 0 \in 0..n
    OBVIOUS
  <2> QED BY <2>1, <2>2, Zenon
<1>2. ASSUME NEW m \in 0..(n - 1), m \in T PROVE m + 1 \in T
  <2>0. m + 1 \in 0..n /\ m \in Nat
    OBVIOUS
  <2>1. SUFFICES \E w : Upto(w, m + 1)
    BY <2>0, Zenon
  <2>2. PICK w : Upto(w, m)
    BY <1>2
  <2> DEFINE h == [k \in 0..(m + 1) |-> IF k = m + 1 THEN AddFrame(w[m], frames[m + 1]) ELSE w[k]]
  <2>3. ASSUME NEW k \in 0..(m + 1)
        PROVE  h[k] = IF k > 0 THEN AddFrame(h[k - 1], frames[k]) ELSE start
    <3>1. CASE k = m + 1
      <4>1. h[k] = AddFrame(w[m], frames[m + 1]) /\ h[k - 1] = w[m] /\ k > 0
        BY <3>1, <2>0
      <4> HIDE DEF h
      <4> QED BY <4>1, <3>1
    <3>2. CASE k # m + 1
      <4>1. k \in 0..m /\ h[k] = w[k] /\ (k > 0 => h[k - 1] = w[k - 1])
        BY <3>2, <2>0
      <4>2. w[k] = IF k > 0 THEN AddFrame(w[k - 1], frames[k]) ELSE start
        BY <2>2, <4>1
      <4> HIDE DEF h
      <4> QED BY <4>1, <4>2
    <3> QED BY <3>1, <3>2
  <2> HIDE DEF h
  <2> QED BY <2>3
<1>3. n \in T
  <2>1. 0 \in Int /\ n \in Int /\ n \in 0..n
    OBVIOUS
  <2> HIDE DEF T
  <2>2. 0..n \subseteq T
    BY <1>1, <1>2, <2>1, IntervalInduction, Zenon
  <2> QED BY <2>1, <2>2
<1>4. PICK w : Upto(w, n)
  BY <1>3
<1>5. PICK u : u = [k \in 0..n |-> w[k]]
  OBVIOUS
<1>6. \A k \in 0..n : u[k] = IF k > 0 THEN AddFrame(u[k - 1], frames[k]) ELSE start
  <2> SUFFICES ASSUME NEW k \in 0..n
               PROVE  u[k] = IF k > 0 THEN AddFrame(u[k - 1], frames[k]) ELSE start
    OBVIOUS
  <2>1. u[k] = w[k] /\ (k > 0 => u[k - 1] = w[k - 1])
    BY <1>5
  <2>2. w[k] = IF k > 0 THEN AddFrame(w[k - 1], frames[k]) ELSE start
    BY <1>4
  <2> QED BY <2>1, <2>2
<1>7. u = [k \in 0..n |-> u[k]]
  BY <1>5
<1>8. [k \in 0..n |-> u[k]] = [k \in 0..n |-> IF k > 0 THEN AddFrame(u[k - 1], frames[k]) ELSE start]
  BY <1>6
<1> QED BY <1>7, <1>8, Zenon DEF Adding

\* The assembler to which a packet's frames are added.
Base == IF assembler.present /\ ~assembler.expired THEN assembler ELSE NewCryptoAssembler

LEMMA AssembledDef ==
  ASSUME NEW frames, Len(frames) \in Nat
  PROVE  \E w : Adding(w, Base, frames, Len(frames)) /\ Assembled(frames) = w[Len(frames)]
<1> DEFINE C == CHOOSE w : w = [k \in 0..Len(frames) |->
                  IF k > 0 THEN AddFrame(w[k - 1], frames[k])
                  ELSE IF assembler.present /\ ~assembler.expired THEN assembler ELSE NewCryptoAssembler]
<1>1. \E w : w = [k \in 0..Len(frames) |->
                  IF k > 0 THEN AddFrame(w[k - 1], frames[k])
                  ELSE IF assembler.present /\ ~assembler.expired THEN assembler ELSE NewCryptoAssembler]
  <2>1. PICK w : Adding(w, Base, frames, Len(frames))
    BY AddingExists
  <2> QED BY <2>1, Zenon DEF Adding, Base
<1>2. C = [k \in 0..Len(frames) |->
             IF k > 0 THEN AddFrame(C[k - 1], frames[k])
             ELSE IF assembler.present /\ ~assembler.expired THEN assembler ELSE NewCryptoAssembler]
  BY <1>1, Zenon
<1>3. Assembled(frames) = C[Len(frames)]
  BY Zenon DEF Assembled
<1> HIDE DEF C
<1> QED BY <1>2, <1>3, Zenon DEF Adding, Base

\* The offsets that a sequence of frames covers.
Spans(frames) == UNION {Span(f) : f \in ToSet(frames)}

\* The frames of a packet add their bytes, in any order.
LEMMA AssembledHolds ==
  ASSUME NEW raw \in Seq(Octet), NEW C, Holds(Base, raw, C),
         NEW frames, Len(frames) \in Nat, DOMAIN frames = 1..Len(frames),
         \A k \in DOMAIN frames : Part(frames[k], raw)
  PROVE  Holds(Assembled(frames), raw, C \cup Spans(frames))
<1>1. PICK w : Adding(w, Base, frames, Len(frames)) /\ Assembled(frames) = w[Len(frames)]
  BY AssembledDef, SMTT(30)
<1>n. PICK n \in Nat : n = Len(frames)
  OBVIOUS
<1> DEFINE Upto(k) == C \cup UNION {Span(frames[j]) : j \in 1..k}
           T == {k \in 0..n : Holds(w[k], raw, Upto(k))}
<1>2. \A k \in 0..n : w[k] = IF k > 0 THEN AddFrame(w[k - 1], frames[k]) ELSE Base
  BY <1>1, <1>n, Zenon DEF Adding
<1>3. 0 \in T
  <2>1. w[0] = Base /\ 0 \in 0..n
    BY <1>2
  <2>2. Upto(0) = C
    OBVIOUS
  <2> QED BY <2>1, <2>2
<1>4. ASSUME NEW k \in 0..(n - 1), k \in T PROVE k + 1 \in T
  <2>1. k + 1 \in 0..n /\ k + 1 > 0 /\ (k + 1) - 1 = k /\ k + 1 \in 1..n
    OBVIOUS
  <2>2. w[k + 1] = AddFrame(w[k], frames[k + 1])
    BY <1>2, <2>1
  <2>3. Part(frames[k + 1], raw)
    BY <2>1, <1>n
  <2>4. Holds(w[k + 1], raw, Upto(k) \cup Span(frames[k + 1]))
    BY <1>4, <2>2, <2>3, AddFrameHolds
  <2>5. Upto(k + 1) = Upto(k) \cup Span(frames[k + 1])
    <3>1. 1..(k + 1) = 1..k \cup {k + 1}
      OBVIOUS
    <3> QED BY <3>1, Zenon
  <2> QED BY <2>1, <2>4, <2>5
<1>5. n \in T
  <2>1. 0 \in Int /\ n \in Int /\ n \in 0..n
    OBVIOUS
  <2> HIDE DEF T
  <2>2. 0..n \subseteq T
    BY <1>3, <1>4, <2>1, IntervalInduction, Zenon
  <2> QED BY <2>1, <2>2
<1>6. Upto(n) = C \cup Spans(frames)
  BY <1>n DEF Spans, ToSet
<1> QED BY <1>1, <1>n, <1>5, <1>6

-----------------------------------------------------------------------------
(* The ClientHello.                                                        *)

\* What a client means to send: a whole ClientHello that the parser reads.
Whole(h) ==
  /\ h.raw \in Seq(Octet) /\ Len(h.raw) = 4 + BigEndian(h.raw, 1, 3)
  /\ h.raw[1] = 1 /\ Len(h.raw) >= 6
  /\ h.ok /\ parseTLSClientHello(h.raw) = h

\* The length field of the buffer.
LEMMA BufferLength ==
  ASSUME NEW b \in [1..BufferSize -> Octet]
  PROVE  /\ b \in Seq(Octet) /\ Len(b) = BufferSize
         /\ \A j \in 1..(1 + 3 - 1) : Byte(b, j) \in Nat
         /\ BigEndian(b, 1, 3) \in Nat
         /\ \A e : (\A j \in 1..(1 + 3 - 1) : Byte(e, j) = Byte(b, j))
                     => BigEndian(e, 1, 3) = BigEndian(b, 1, 3)
<1>0. BufferSize \in Nat /\ BufferSize >= 6
  BY HandshakeAssumption
<1>1. b \in Seq(Octet) /\ Len(b) = BufferSize
  BY <1>0, SeqDef
<1>2. ASSUME NEW j \in 1..(1 + 3 - 1) PROVE Byte(b, j) \in Nat
  <2>1. j + 1 \in 1..BufferSize
    BY <1>0
  <2>2. b[j + 1] \in Octet
    BY <2>1
  <2> QED BY <2>2, OctetIsNat, Zenon DEF Byte
<1>3. 1 \in Int /\ 3 \in Nat
  OBVIOUS
<1> QED BY <1>1, <1>2, <1>3, BigEndianType, Zenon

\* The parser accepts nothing but the client's ClientHello.
LEMMA ParsedIsWhole ==
  ASSUME NEW h, Whole(h), NEW C, NEW a, Holds(a, h.raw, C), TryParse(a).ok
  PROVE  TryParse(a) = h
<1>0. /\ BufferSize \in Nat /\ BufferSize >= 6 /\ a.buffer \in [1..BufferSize -> Octet]
      /\ a.maxOffset \in Nat
  BY HandshakeAssumption DEF Holds, Assembly
<1> DEFINE length == 4 + BigEndian(a.buffer, 1, 3)
<1>1. PICK needed : needed = IF length > BufferSize THEN BufferSize ELSE length
  OBVIOUS
<1>2. length \in Nat /\ length >= 4
  BY <1>0, BufferLength
<1>3. needed \in Nat /\ needed >= 4 /\ needed <= BufferSize
  BY <1>0, <1>1, <1>2
<1>4. TryParse(a) = IF \/ a.maxOffset < 6 \/ a.buffer[1] # 1
                       \/ a.maxOffset < needed
                       \/ ~(0..(needed - 1) \subseteq a.written)
                    THEN NoHello ELSE parseTLSClientHello(Slice(a.buffer, 0, needed))
  BY <1>1, Zenon DEF TryParse
<1>5. ~NoHello.ok
  BY DEF NoHello
<1>6. /\ 0..(needed - 1) \subseteq a.written
      /\ TryParse(a) = parseTLSClientHello(Slice(a.buffer, 0, needed))
  BY <1>4, <1>5, Zenon
<1>7. \A j \in 0..(needed - 1) : a.buffer[j + 1] = h.raw[j + 1]
  BY <1>6 DEF Holds
<1>8. Len(h.raw) = length
  <2>1. \A j \in 1..(1 + 3 - 1) : Byte(h.raw, j) = Byte(a.buffer, j)
    BY <1>3, <1>7 DEF Byte
  <2>2. BigEndian(h.raw, 1, 3) = BigEndian(a.buffer, 1, 3)
    BY <2>1, <1>0, BufferLength
  <2> QED BY <2>2 DEF Whole
<1> HIDE DEF length
<1>9. PICK data : data = Slice(a.buffer, 0, needed)
  OBVIOUS
<1>10. data \in Seq(Octet) /\ Len(data) = needed /\ \A i \in 1..needed : data[i] = a.buffer[i]
  <2>1. PICK b \in Seq(Octet) : b = a.buffer /\ Len(b) = BufferSize
    BY <1>0, BufferLength
  <2>2. 0 \in Nat /\ needed \in Nat /\ needed <= Len(b)
    BY <1>3, <2>1
  <2>3. /\ Slice(b, 0, needed) \in Seq(Octet)
        /\ Len(Slice(b, 0, needed)) = IF 0 < needed THEN needed - 0 ELSE 0
        /\ \A i \in 1..(needed - 0) : Slice(b, 0, needed)[i] = b[0 + i]
    BY <2>2, SliceType
  <2>4. data = Slice(b, 0, needed)
    BY <1>9, <2>1, Zenon
  <2>5. data \in Seq(Octet) /\ Len(data) = needed /\ \A i \in 1..needed : data[i] = b[i]
    BY <2>3, <2>4, <1>3
  <2> QED BY <2>1, <2>5, Zenon
<1>11. CASE length > BufferSize
  <2>1. \A j \in 1..(1 + 3 - 1) : Byte(data, j) = Byte(a.buffer, j)
    BY <1>3, <1>10 DEF Byte
  <2>2. BigEndian(data, 1, 3) = BigEndian(a.buffer, 1, 3)
    BY <2>1, <1>0, BufferLength
  <2>3. needed = BufferSize
    BY <1>1, <1>11, Zenon
  <2>4. Len(data) < 4 + BigEndian(data, 1, 3)
    BY <2>2, <2>3, <1>10, <1>11 DEF length
  <2>5. parseTLSClientHello(data) = NoHello
    BY <2>4, CutOffHello
  <2> QED BY <2>5, <1>5, <1>6, <1>9, Zenon
<1>12. CASE ~(length > BufferSize)
  <2>1. needed = length
    BY <1>1, <1>12, Zenon
  <2>2. Len(h.raw) = Len(data) /\ h.raw \in Seq(Octet)
    BY <2>1, <1>8, <1>10 DEF Whole
  <2>3. \A i \in 1..Len(data) : data[i] = h.raw[i]
    <3> SUFFICES ASSUME NEW i \in 1..needed PROVE data[i] = h.raw[i]
      BY <1>10
    <3>1. i - 1 \in 0..(needed - 1) /\ (i - 1) + 1 = i
      BY <1>3
    <3>2. a.buffer[i] = h.raw[i]
      BY <3>1, <1>7
    <3> QED BY <3>2, <1>10
  <2>4. data = h.raw
    BY <2>2, <2>3, <1>10, SeqEqual
  <2> QED BY <2>4, <1>6, <1>9, Zenon DEF Whole
<1> QED BY <1>11, <1>12

\* It accepts the ClientHello as soon as it is there.
LEMMA CoveredIsParsed ==
  ASSUME NEW h, Whole(h), Len(h.raw) <= BufferSize, NEW C, NEW a, Holds(a, h.raw, C),
         0..(Len(h.raw) - 1) \subseteq C
  PROVE  TryParse(a).ok
<1>0. /\ BufferSize \in Nat /\ a.buffer \in [1..BufferSize -> Octet] /\ a.maxOffset \in Nat
  BY HandshakeAssumption DEF Holds, Assembly
<1>n. PICK n \in Nat : n = Len(h.raw) /\ n >= 6 /\ n <= BufferSize
  BY LenProperties DEF Whole
<1>1. 0..(n - 1) \subseteq a.written
  BY <1>0, <1>n DEF Holds, Bits
<1>2. \A j \in 0..(n - 1) : a.buffer[j + 1] = h.raw[j + 1] /\ j < a.maxOffset
  BY <1>1 DEF Holds
<1>3. a.maxOffset >= n
  <2>1. n - 1 \in 0..(n - 1)
    BY <1>n
  <2>2. n - 1 < a.maxOffset
    BY <2>1, <1>2
  <2> QED BY <2>2, <1>0
<1>4. a.buffer[1] = 1
  <2>1. 0 \in 0..(n - 1) /\ 0 + 1 = 1
    BY <1>n
  <2>2. a.buffer[1] = h.raw[1]
    BY <2>1, <1>2, SMTT(30)
  <2> QED BY <2>2, Zenon DEF Whole
<1>5. 4 + BigEndian(a.buffer, 1, 3) = n
  <2>1. \A j \in 1..(1 + 3 - 1) : Byte(h.raw, j) = Byte(a.buffer, j)
    BY <1>n, <1>2, SMTT(30) DEF Byte
  <2>2. BigEndian(h.raw, 1, 3) = BigEndian(a.buffer, 1, 3)
    BY <2>1, <1>0, BufferLength
  <2> QED BY <2>2, <1>n DEF Whole
<1>6. ~(n > BufferSize) /\ ~(a.maxOffset < 6) /\ ~(a.maxOffset < n)
  BY <1>0, <1>n, <1>3
<1>7. TryParse(a) = parseTLSClientHello(Slice(a.buffer, 0, n))
  BY <1>1, <1>4, <1>5, <1>6, Zenon DEF TryParse
<1>8. Slice(a.buffer, 0, n) = h.raw
  <2>1. PICK b \in Seq(Octet) : b = a.buffer /\ Len(b) = BufferSize
    BY <1>0, BufferLength
  <2>2. 0 \in Nat /\ n <= Len(b)
    BY <1>n, <2>1
  <2>3. /\ Slice(b, 0, n) \in Seq(Octet)
        /\ Len(Slice(b, 0, n)) = IF 0 < n THEN n - 0 ELSE 0
        /\ \A i \in 1..(n - 0) : Slice(b, 0, n)[i] = b[0 + i]
    BY <2>2, SliceType
  <2>4. PICK data : data = Slice(b, 0, n)
    OBVIOUS
  <2>5. data \in Seq(Octet) /\ Len(data) = n /\ \A i \in 1..n : data[i] = b[i]
    BY <2>3, <2>4
  <2>6. \A i \in 1..n : data[i] = h.raw[i]
    <3> SUFFICES ASSUME NEW i \in 1..n PROVE data[i] = h.raw[i]
      OBVIOUS
    <3>1. i - 1 \in 0..(n - 1) /\ (i - 1) + 1 = i
      OBVIOUS
    <3>2. a.buffer[i] = h.raw[i]
      BY <3>1, <1>2
    <3> QED BY <3>2, <2>5, <2>1
  <2>7. data = h.raw
    <3>1. h.raw \in Seq(Octet) /\ Len(h.raw) = Len(data) /\ \A i \in 1..Len(data) : data[i] = h.raw[i]
      BY <2>5, <2>6, <1>n, Zenon DEF Whole
    <3> QED BY <3>1, <2>5, SeqEqual
  <2> QED BY <2>1, <2>4, <2>7, Zenon
<1> QED BY <1>7, <1>8, Zenon DEF Whole

-----------------------------------------------------------------------------
(* The inductive invariant of the assembler.                               *)

CoveredBy(fl, S) == UNION {Spans(extractCryptoFrames(fl.packets[i].plain)) : i \in S}

LEMMA CoveredIsBy == ASSUME NEW S PROVE Covered(S) = CoveredBy(flight, S)
  BY DEF Covered, CoveredBy, Spans, Span

\* An assembler that is there has exactly the bytes of the Initials that went
\* into it, and the parser does not accept them.
Collects(fl, a, S) ==
  \/ a = NoAssembler /\ S = {}
  \/ Holds(a, fl.hello.raw, CoveredBy(fl, S)) /\ ~TryParse(a).ok

AssemblerInv ==
  /\ flight \in Flights
  /\ seen \subseteq Packets
  /\ Collects(flight, assembler, seen)
  /\ hello.ok => hello = flight.hello

\* The tables: the two sessions, the aliases of the client's, and their lengths.
TableInv ==
  /\ OtherDCID \in sessions /\ sessions \subseteq {DCID, OtherDCID}
  /\ \A c \in sessions \cup DOMAIN dcidAliases : c \in CIDs /\ Len(c) \in dcidLengths
  /\ dcidLengths \subseteq Nat
  /\ \A c \in DOMAIN dcidAliases : dcidAliases[c] = DCID

\* The client's session, on which all that is said about the client depends.
SessionInv ==
  /\ forwarded \subseteq Packets
  /\ forwarded # {} => DCID \in sessions
  /\ DOMAIN dcidAliases # {} => DCID \in sessions
  /\ Addr \in DOMAIN clientSessions => DCID \in sessions

HandshakeInv == AssemblerInv /\ TableInv /\ SessionInv

\* The packets of a client.
LEMMA FlightFacts ==
  ASSUME NEW fl \in Flights
  PROVE  /\ Whole(fl.hello) /\ DOMAIN fl.packets # {}
         /\ \A i \in DOMAIN fl.packets : ExtractDCID(fl.packets[i].bytes, 0) = DCID
  BY FlightAssumption, ZenonT(60) DEF Whole, Octet

LEMMA PacketFrames ==
  ASSUME NEW fl \in Flights, NEW i \in DOMAIN fl.packets,
         NEW frames, frames = ExtractCryptoFramesFromPacket(fl.packets[i])
  PROVE  /\ Len(frames) \in Nat /\ DOMAIN frames = 1..Len(frames)
         /\ \A k \in DOMAIN frames : Part(frames[k], fl.hello.raw)
         /\ Spans(frames) = CoveredBy(fl, {i})
<1> DEFINE sent == extractCryptoFrames(fl.packets[i].plain)
<1>0. /\ ExtractCryptoFramesFromPacket(fl.packets[i]) = sent
      /\ sent \in Seq([offset : Nat, data : Seq(Octet)])
      /\ \A k \in DOMAIN sent :
           LET f == sent[k]
           IN /\ f.offset + Len(f.data) <= Len(fl.hello.raw)
              /\ f.data = Slice(fl.hello.raw, f.offset, f.offset + Len(f.data))
  BY FlightAssumption, ZenonT(60) DEF Octet
<1> HIDE DEF sent
<1>1. /\ frames = sent /\ frames \in Seq([offset : Nat, data : Seq(Octet)])
      /\ \A k \in DOMAIN frames :
           /\ frames[k].offset + Len(frames[k].data) <= Len(fl.hello.raw)
           /\ frames[k].data = Slice(fl.hello.raw, frames[k].offset,
                                     frames[k].offset + Len(frames[k].data))
  BY <1>0, Zenon
<1>2. Len(frames) \in Nat /\ DOMAIN frames = 1..Len(frames)
  BY <1>1, LenProperties
<1>3. ASSUME NEW k \in DOMAIN frames PROVE Part(frames[k], fl.hello.raw)
  <2>1. frames[k] \in [offset : Nat, data : Seq(Octet)]
    BY <1>1, <1>2, ElementOfSeq
  <2> QED BY <1>1, <2>1, Zenon DEF Part
<1>4. Spans(frames) = CoveredBy(fl, {i})
  BY <1>1 DEF CoveredBy, sent
<1> QED BY <1>2, <1>3, <1>4

LEMMA CoveredUnion ==
  ASSUME NEW fl, NEW S, NEW i
  PROVE  CoveredBy(fl, S \cup {i}) = CoveredBy(fl, S) \cup CoveredBy(fl, {i})
  BY DEF CoveredBy

\* Where the invariant holds, a packet's frames go where they belong.
LEMMA AssembledType ==
  ASSUME AssemblerInv, NEW i \in Packets,
         NEW a, a = Assembled(ExtractCryptoFramesFromPacket(flight.packets[i]))
  PROVE  Holds(a, flight.hello.raw, CoveredBy(flight, SeenWith(i)))
<1>1. flight \in Flights /\ i \in DOMAIN flight.packets
  BY DEF AssemblerInv, Packets
<1>2. PICK frames : frames = ExtractCryptoFramesFromPacket(flight.packets[i])
  OBVIOUS
<1>3. /\ Len(frames) \in Nat /\ DOMAIN frames = 1..Len(frames)
      /\ \A k \in DOMAIN frames : Part(frames[k], flight.hello.raw)
      /\ Spans(frames) = CoveredBy(flight, {i})
  BY <1>1, <1>2, PacketFrames
<1>4. flight.hello.raw \in Seq(Octet)
  BY <1>1, FlightFacts DEF Whole
<1> DEFINE S == IF assembler.present /\ ~assembler.expired THEN seen ELSE {}
<1>5. Holds(Base, flight.hello.raw, CoveredBy(flight, S))
  <2>1. CASE assembler.present /\ ~assembler.expired
    <3>1. assembler # NoAssembler
      BY <2>1 DEF NoAssembler
    <3>2. Holds(assembler, flight.hello.raw, CoveredBy(flight, seen))
      BY <3>1 DEF AssemblerInv, Collects
    <3> QED BY <2>1, <3>2, Zenon DEF Base
  <2>2. CASE ~(assembler.present /\ ~assembler.expired)
    <3>1. CoveredBy(flight, S) = {}
      BY <2>2 DEF CoveredBy
    <3>2. Base = NewCryptoAssembler
      BY <2>2, Zenon DEF Base
    <3> QED BY <3>1, <3>2, NewHolds
  <2> QED BY <2>1, <2>2
<1>6. Holds(Assembled(frames), flight.hello.raw, CoveredBy(flight, S) \cup Spans(frames))
  BY <1>3, <1>4, <1>5, AssembledHolds
<1>7. SeenWith(i) = S \cup {i}
  BY DEF SeenWith
<1> HIDE DEF S
<1>8. CoveredBy(flight, SeenWith(i)) = CoveredBy(flight, S) \cup Spans(frames)
  <2>1. CoveredBy(flight, S \cup {i}) = CoveredBy(flight, S) \cup CoveredBy(flight, {i})
    BY CoveredUnion
  <2>2. Spans(frames) = CoveredBy(flight, {i})
    BY <1>3
  <2> QED BY <1>7, <2>1, <2>2, Zenon
<1> QED BY <1>2, <1>6, <1>8, Zenon

\* Expiry does not matter to the parser.
LEMMA ExpiredParses ==
  ASSUME NEW a \in Assembly, NEW raw, NEW C, Holds(a, raw, C)
  PROVE  LET b == [a EXCEPT !.expired = TRUE]
         IN Holds(b, raw, C) /\ TryParse(b) = TryParse(a)
<1>1. PICK b : b = [a EXCEPT !.expired = TRUE]
  OBVIOUS
<1>2. b \in Assembly /\ b.buffer = a.buffer /\ b.written = a.written /\ b.maxOffset = a.maxOffset
  BY <1>1 DEF Assembly
<1>3. Holds(b, raw, C)
  BY <1>2, Zenon DEF Holds
<1>4. TryParse(b) = TryParse(a)
  BY <1>2, Zenon DEF TryParse
<1> QED BY <1>1, <1>3, <1>4, Zenon

-----------------------------------------------------------------------------
(* The inductive invariant of the handshake.                               *)

\* It holds at first: there is no assembler, and one session, of another client.
LEMMA HandshakeInit == Init => HandshakeInv
<1> SUFFICES ASSUME Init PROVE HandshakeInv
  OBVIOUS
<1>1. AssemblerInv
  BY DEF Init, AssemblerInv, Collects, NoHello
<1>2. OtherDCID \in CIDs /\ Len(OtherDCID) \in Nat
  BY HandshakeAssumption, LenProperties DEF CIDs, Octet
<1>3. DOMAIN dcidAliases = {}
  BY DEF Init
<1>4. TableInv
  BY <1>2, <1>3 DEF Init, TableInv
<1>5. SessionInv
  <2>1. Addr \notin DOMAIN clientSessions
    BY HandshakeAssumption DEF Init
  <2> QED BY <1>3, <2>1 DEF Init, SessionInv
<1> QED BY <1>1, <1>4, <1>5 DEF HandshakeInv

\* The assembler's part is kept.
LEMMA AssemblerStep == HandshakeInv /\ [Next]_vars => AssemblerInv'
<1> SUFFICES ASSUME HandshakeInv, [Next]_vars PROVE AssemblerInv'
  OBVIOUS
<1>0. AssemblerInv
  BY DEF HandshakeInv
<1>1. ASSUME NEW i \in Packets, ForwardInitial(i) PROVE AssemblerInv'
  BY <1>0, <1>1 DEF ForwardInitial, AssemblerInv, Packets
<1>2. ASSUME NEW i \in Packets, NEW a, CollectInitial(i, a),
             a = Assembled(ExtractCryptoFramesFromPacket(flight.packets[i]))
      PROVE  AssemblerInv'
  <2>1. Holds(a, flight.hello.raw, CoveredBy(flight, SeenWith(i)))
    BY <1>0, <1>2, AssembledType
  <2>2. /\ flight' = flight /\ hello' = hello /\ assembler' = a /\ seen' = SeenWith(i)
        /\ ~TryParse(a).ok
    BY <1>2 DEF CollectInitial, relay
  <2>3. SeenWith(i) \subseteq Packets
    BY <1>0 DEF AssemblerInv, SeenWith
  <2>4. Collects(flight', assembler', seen')
    BY <2>1, <2>2, Zenon DEF Collects
  <2> QED BY <1>0, <2>2, <2>3, <2>4 DEF AssemblerInv, Packets
<1>3. ASSUME NEW i \in Packets, NEW a, OpenSession(i, a),
             a = Assembled(ExtractCryptoFramesFromPacket(flight.packets[i]))
      PROVE  AssemblerInv'
  <2>1. Holds(a, flight.hello.raw, CoveredBy(flight, SeenWith(i)))
    BY <1>0, <1>3, AssembledType
  <2>2. /\ flight' = flight /\ hello' = TryParse(a) /\ assembler' = NoAssembler /\ seen' = {}
        /\ TryParse(a).ok
    BY <1>3, Zenon DEF OpenSession
  <2>3. Whole(flight.hello)
    BY <1>0, FlightFacts DEF AssemblerInv
  <2>4. TryParse(a) = flight.hello
    BY <2>1, <2>2, <2>3, ParsedIsWhole
  <2>5. Collects(flight', assembler', seen')
    BY <2>2, Zenon DEF Collects
  <2> QED BY <1>0, <2>2, <2>4, <2>5 DEF AssemblerInv
<1>4. ASSUME Expire PROVE AssemblerInv'
  <2>1. /\ flight' = flight /\ hello' = hello /\ seen' = seen
        /\ assembler' = [assembler EXCEPT !.expired = TRUE] /\ assembler.present
    BY <1>4 DEF Expire, relay
  <2>2. assembler # NoAssembler
    BY <2>1 DEF NoAssembler
  <2>3. Holds(assembler, flight.hello.raw, CoveredBy(flight, seen)) /\ ~TryParse(assembler).ok
    BY <1>0, <2>2 DEF AssemblerInv, Collects
  <2>4. Holds(assembler', flight.hello.raw, CoveredBy(flight, seen)) /\ ~TryParse(assembler').ok
    <3>1. assembler \in Assembly
      BY <2>3 DEF Holds
    <3> QED BY <3>1, <2>1, <2>3, ExpiredParses, Zenon
  <2>5. Collects(flight', assembler', seen')
    BY <2>1, <2>4, Zenon DEF Collects
  <2> QED BY <1>0, <2>1, <2>5 DEF AssemblerInv, Packets
<1>5. ASSUME Cleanup PROVE AssemblerInv'
  BY <1>0, <1>5 DEF Cleanup, relay, AssemblerInv, Collects
<1>6. ASSUME NEW r \in Replies, ServerReplies(r) PROVE AssemblerInv'
  BY <1>0, <1>6 DEF ServerReplies, AssemblerInv, Packets
<1>7. CASE UNCHANGED vars
  BY <1>0, <1>7 DEF vars, relay, AssemblerInv, Packets
<1> QED BY <1>1, <1>2, <1>3, <1>4, <1>5, <1>6, <1>7 DEF Next, Receive

\* The clients' connection IDs are none of an error.
LEMMA DCIDsType == {DCID, OtherDCID} \subseteq CIDs /\ NoCID \notin CIDs
<1>1. {DCID, OtherDCID} \subseteq CIDs
  BY HandshakeAssumption, Zenon DEF CIDs, Octet
<1>2. NoCID \notin CIDs
  <2>1. SUFFICES ASSUME NoCID \in Seq(Octet) PROVE FALSE
    BY DEF CIDs
  <2>2. Len(NoCID) = 1 /\ NoCID[1] = -1
    BY DEF NoCID
  <2>3. NoCID[1] \in Octet
    BY <2>1, <2>2, ElementOfSeq
  <2> QED BY <2>2, <2>3 DEF Octet
<1> QED BY <1>1, <1>2

\* What the relay learns from a datagram.
LEMMA LearntType ==
  ASSUME NEW r \in Replies
  PROVE  Learnt(ReplyBytes(r)) \subseteq CIDs
<1>1. ReplyBytes(r) \in Seq(Octet)
  BY ReplyAssumption, Zenon DEF Octet
<1>2. ExtractAllSCIDs(ReplyBytes(r)) \subseteq CIDs
  BY <1>1, SCIDsType
<1> QED BY <1>2 DEF Learnt

\* The tables keep their form.
LEMMA TableStep == HandshakeInv /\ [Next]_vars => TableInv'
<1> SUFFICES ASSUME HandshakeInv, [Next]_vars PROVE TableInv'
  OBVIOUS
<1>0. TableInv /\ AssemblerInv
  BY DEF HandshakeInv
<1>1. CASE UNCHANGED <<sessions, dcidAliases, dcidLengths>>
  BY <1>0, <1>1 DEF TableInv
<1>2. ASSUME NEW i \in Packets, NEW a, OpenSession(i, a) PROVE TableInv'
  <2>1. ExtractDCID(flight.packets[i].bytes, 0) = DCID
    BY <1>0, <1>2, FlightFacts DEF AssemblerInv, Packets
  <2>2. /\ sessions' = sessions \cup {DCID} /\ dcidLengths' = dcidLengths \cup {Len(DCID)}
        /\ dcidAliases' = dcidAliases
    BY <1>2, <2>1, Zenon DEF OpenSession
  <2>3. DCID \in CIDs /\ Len(DCID) \in Nat
    BY DCIDsType, LenProperties DEF CIDs
  <2> QED BY <1>0, <2>2, <2>3 DEF TableInv
<1>3. ASSUME NEW r \in Replies, ServerReplies(r) PROVE TableInv'
  <2> DEFINE new == IF LongHeader(ReplyBytes(r)[1]) THEN Learnt(ReplyBytes(r)) ELSE {}
  <2>1. new \subseteq CIDs
    BY LearntType
  <2>2. \A c \in CIDs : Len(c) \in Nat
    BY LenProperties DEF CIDs
  <2>3. /\ dcidAliases' = [c \in DOMAIN dcidAliases \cup new |->
                             IF c \in new THEN DCID ELSE dcidAliases[c]]
        /\ dcidLengths' = dcidLengths \cup {Len(c) : c \in new}
        /\ sessions' = sessions
    BY <1>3, Zenon DEF ServerReplies
  <2> HIDE DEF new
  <2>4. /\ DOMAIN dcidAliases' = DOMAIN dcidAliases \cup new
        /\ \A c \in DOMAIN dcidAliases' : dcidAliases'[c] = DCID
    BY <1>0, <2>3 DEF TableInv
  <2>5. ASSUME NEW c \in sessions' \cup DOMAIN dcidAliases'
        PROVE  c \in CIDs /\ Len(c) \in dcidLengths'
    <3>1. CASE c \in new
      BY <3>1, <2>1, <2>3
    <3>2. CASE c \notin new
      BY <3>2, <1>0, <2>3, <2>4 DEF TableInv
    <3> QED BY <3>1, <3>2
  <2>6. dcidLengths' \subseteq Nat
    BY <1>0, <2>1, <2>2, <2>3 DEF TableInv
  <2> QED BY <1>0, <2>3, <2>4, <2>5, <2>6 DEF TableInv
<1>4. ASSUME NEW i \in Packets, ForwardInitial(i) PROVE TableInv'
  BY <1>1, <1>4 DEF ForwardInitial
<1>5. ASSUME NEW i \in Packets, NEW a, CollectInitial(i, a) PROVE TableInv'
  BY <1>1, <1>5 DEF CollectInitial, relay
<1>6. CASE Expire \/ Cleanup \/ UNCHANGED vars
  BY <1>1, <1>6 DEF Expire, Cleanup, vars, relay
<1> QED BY <1>2, <1>3, <1>4, <1>5, <1>6 DEF Next, Receive

\* A connection ID is looked up.
LEMMA LookupType ==
  ASSUME TableInv, NEW c
  PROVE  /\ c \in sessions => Lookup(c) = c
         /\ c \notin sessions /\ c \in DOMAIN dcidAliases /\ DCID \in sessions => Lookup(c) = DCID
         /\ Lookup(c) # NoCID => c \in sessions \cup DOMAIN dcidAliases
  BY DEF TableInv, Lookup

\* An Initial of the client is taken for a packet of a session only when its
\* session is there.
LEMMA KnownMeansOpen ==
  ASSUME TableInv, SessionInv, NEW p, ExtractDCID(p, 0) = DCID, findSession(p, Addr) # NoCID
  PROVE  DCID \in sessions
<1>1. CASE Matches(p) = {}
  BY <1>1, Zenon DEF findSession, SessionInv
<1>2. CASE Matches(p) # {}
  <2>1. LongHeader(p[1])
    <3> SUFFICES ASSUME ~LongHeader(p[1]) PROVE FALSE
      OBVIOUS
    <3>1. ExtractDCID(p, 0) = NoCID
      BY DEF ExtractDCID
    <3> QED BY <3>1, DCIDsType
  <2>2. DCID \in Matches(p)
    BY <1>2, <2>1 DEF Matches
  <2>3. Lookup(DCID) # NoCID
    BY <2>2 DEF Matches
  <2>4. DCID \in sessions \cup DOMAIN dcidAliases
    BY <2>3, LookupType
  <2> QED BY <2>4 DEF SessionInv
<1> QED BY <1>1, <1>2

\* The client's session opens first, and stays.
LEMMA SessionStep == HandshakeInv /\ [Next]_vars => SessionInv'
<1> SUFFICES ASSUME HandshakeInv, [Next]_vars PROVE SessionInv'
  OBVIOUS
<1>0. TableInv /\ AssemblerInv /\ SessionInv
  BY DEF HandshakeInv
<1>p. \A i \in Packets : ExtractDCID(flight.packets[i].bytes, 0) = DCID
  BY <1>0, FlightFacts DEF AssemblerInv, Packets
<1>1. ASSUME NEW i \in Packets, ForwardInitial(i) PROVE SessionInv'
  <2>1. DCID \in sessions
    BY <1>0, <1>1, <1>p, KnownMeansOpen, Zenon DEF ForwardInitial
  <2> QED BY <1>0, <1>1, <2>1 DEF ForwardInitial, SessionInv, Packets
<1>2. ASSUME NEW i \in Packets, NEW a, OpenSession(i, a) PROVE SessionInv'
  <2>1. /\ sessions' = sessions \cup {DCID} /\ forwarded' = forwarded \cup {i}
        /\ flight' = flight
    BY <1>2, <1>p, Zenon DEF OpenSession
  <2> QED BY <1>0, <2>1 DEF SessionInv, Packets
<1>3. ASSUME NEW r \in Replies, ServerReplies(r) PROVE SessionInv'
  <2>1. Packets # {}
    BY <1>0, FlightFacts DEF AssemblerInv, Packets
  <2>2. DCID \in sessions
    BY <1>0, <1>3, <2>1 DEF ServerReplies, SessionInv
  <2> QED BY <1>0, <1>3, <2>2 DEF ServerReplies, SessionInv, Packets
<1>4. ASSUME NEW i \in Packets, NEW a, CollectInitial(i, a) PROVE SessionInv'
  BY <1>0, <1>4 DEF CollectInitial, relay, SessionInv, Packets
<1>5. CASE Expire \/ Cleanup \/ UNCHANGED vars
  BY <1>0, <1>5 DEF Expire, Cleanup, vars, relay, SessionInv, Packets
<1> QED BY <1>1, <1>2, <1>3, <1>4, <1>5 DEF Next, Receive

LEMMA HandshakeStep == HandshakeInv /\ [Next]_vars => HandshakeInv'
<1>1. HandshakeInv' = (AssemblerInv' /\ TableInv' /\ SessionInv')
  BY DEF HandshakeInv
<1> QED BY <1>1, AssemblerStep, TableStep, SessionStep

LEMMA HandshakeInvariant == Spec => []HandshakeInv
  BY HandshakeInit, HandshakeStep, PTL DEF Spec

-----------------------------------------------------------------------------
(* What the handshake promises.                                            *)

\* HelloFaithful: whatever the order, the overlaps and the repetitions of the
\* frames that AddFrame copies, TryParse hands on the client's ClientHello.
THEOREM HelloIsFaithful == Spec => []HelloFaithful
<1>1. HandshakeInv => HelloFaithful
  BY DEF HandshakeInv, AssemblerInv, HelloFaithful
<1> QED BY <1>1, HandshakeInvariant, PTL

\* OpensWhenCovered: handlePacket does not leave a ClientHello in the assembler
\* whose last byte has come.
THEOREM OpensAsSoonAsCovered == Spec => []OpensWhenCovered
<1>1. HandshakeInv => OpensWhenCovered
  <2> SUFFICES ASSUME AssemblerInv, Len(flight.hello.raw) <= BufferSize,
                      0..(Len(flight.hello.raw) - 1) \subseteq Covered(seen)
               PROVE  FALSE
    BY DEF HandshakeInv, OpensWhenCovered
  <2>1. Whole(flight.hello)
    BY FlightFacts DEF AssemblerInv
  <2>2. 0..(Len(flight.hello.raw) - 1) \subseteq CoveredBy(flight, seen)
    BY CoveredIsBy, Zenon
  <2>3. CASE seen = {}
    <3>1. CoveredBy(flight, seen) = {}
      BY <2>3 DEF CoveredBy
    <3>2. PICK n \in Nat : n = Len(flight.hello.raw) /\ n >= 6
      BY <2>1, LenProperties DEF Whole
    <3>3. 0 \in 0..(n - 1)
      BY <3>2
    <3> QED BY <3>1, <3>2, <3>3, <2>2
  <2>4. CASE seen # {}
    <3>1. Holds(assembler, flight.hello.raw, CoveredBy(flight, seen)) /\ ~TryParse(assembler).ok
      BY <2>4 DEF AssemblerInv, Collects
    <3> QED BY <3>1, <2>1, <2>2, CoveredIsParsed
  <2> QED BY <2>3, <2>4
<1> QED BY <1>1, HandshakeInvariant, PTL

\* The connection IDs that findSession tries on a packet with a short header.
LEMMA MatchesType ==
  ASSUME TableInv, NEW p \in Seq(Octet), p[1] = 64, Len(p) >= 1
  PROVE  \A e \in Matches(p) :
           /\ Lookup(e) # NoCID /\ Len(e) \in 0..Len(p)
           /\ e = SubSeq(p, 2, Len(e) + 1)
<1>1. SUFFICES ASSUME NEW e \in Matches(p)
               PROVE  Lookup(e) # NoCID /\ Len(e) \in 0..Len(p) /\ e = SubSeq(p, 2, Len(e) + 1)
  OBVIOUS
<1>2. ~LongHeader(p[1])
  BY DEF LongHeader
<1>3. PICK n \in dcidLengths : e = ExtractDCID(p, n) /\ e # NoCID /\ Lookup(e) # NoCID
  BY <1>2 DEF Matches
<1>4. n \in Nat
  BY DEF TableInv
<1>5. n # 0 /\ ~(Len(p) < n + 1) /\ e = SubSeq(p, 2, n + 1)
  BY <1>3, <1>4, ShortDCID
<1>6. Len(p) \in Nat
  BY LenProperties
<1>7. 1 \in Nat /\ n + 1 \in Nat /\ n + 1 <= Len(p)
  BY <1>4, <1>5, <1>6
<1>8. Len(Slice(p, 1, n + 1)) = IF 1 < n + 1 THEN (n + 1) - 1 ELSE 0
  BY <1>7, SliceType
<1>9. Len(e) = n
  <2>1. e = Slice(p, 1, n + 1)
    BY <1>5 DEF Slice
  <2>2. Len(e) = IF 1 < n + 1 THEN (n + 1) - 1 ELSE 0
    BY <1>8, <2>1, Zenon
  <2> QED BY <1>4, <1>5, <2>2
<1> QED BY <1>3, <1>4, <1>5, <1>6, <1>9

\* RoutesToOwner: findSession tries the longest of the known lengths first, so
\* that a session with a shorter ID does not take another's packets.
THEOREM PacketsReachTheirOwner == Spec => []RoutesToOwner
<1>1. HandshakeInv => RoutesToOwner
  <2> SUFFICES ASSUME TableInv, DCID \in sessions,
                      NEW c \in {OtherDCID, DCID} \cup DOMAIN dcidAliases,
                      NEW x \in {0, 2}, NEW a \in {Addr, OtherAddr, "new"}
               PROVE  LET p == <<64>> \o c \o <<x, x>>
                          hidden == \E e \in Matches(p) : Len(e) > Len(c) /\ Lookup(e) # Lookup(c)
                      IN hidden \/ findSession(p, a) = Lookup(c)
    BY Zenon DEF HandshakeInv, RoutesToOwner
  <2>p. PICK p : p = <<64>> \o c \o <<x, x>>
    OBVIOUS
  <2> SUFFICES ASSUME \A e \in Matches(p) : ~(Len(e) > Len(c) /\ Lookup(e) # Lookup(c))
               PROVE  findSession(p, a) = Lookup(c)
    BY <2>p, Zenon
  <2>1. c \in CIDs /\ Len(c) \in dcidLengths /\ Lookup(c) \in sessions
    BY LookupType DEF TableInv
  <2>2. Lookup(c) # NoCID
    BY <2>1, DCIDsType DEF TableInv
  <2>3. c \in Seq(Octet) /\ c # <<>> /\ Len(c) \in Nat /\ Len(c) # 0
    BY <2>1, LenProperties, EmptySeq DEF CIDs
  <2>4. /\ p \in Seq(Octet) /\ Len(p) = Len(c) + 3 /\ p[1] = 64
        /\ SubSeq(p, 2, Len(c) + 1) = c
    <3>1. x \in Octet
      BY DEF Octet
    <3>2. ShortHeader(p, c, x)
      BY <2>p, Zenon DEF ShortHeader
    <3> QED BY <2>3, <3>1, <3>2, ShortPacket
  <2>n. Len(p) \in Nat /\ Len(p) >= 1 /\ ~(Len(p) < Len(c) + 1)
    BY <2>3, <2>4
  <2>5. c \in Matches(p)
    <3>1. ExtractDCID(p, Len(c)) = c
      BY <2>3, <2>4, <2>n, ShortDCID, Zenon
    <3>2. ~LongHeader(p[1])
      BY <2>4 DEF LongHeader
    <3>3. c # NoCID
      BY <2>1, DCIDsType
    <3> QED BY <2>1, <2>2, <3>1, <3>2, <3>3 DEF Matches
  <2>6. \A e \in Matches(p) :
          Lookup(e) # NoCID /\ Len(e) \in 0..Len(p) /\ e = SubSeq(p, 2, Len(e) + 1)
    BY <2>4, <2>n, MatchesType, Zenon
  <2>7. \E e \in Matches(p) : \A f \in Matches(p) : Len(e) >= Len(f)
    BY <2>n, <2>5, <2>6, Longest, Zenon
  <2>8. PICK m \in Matches(p) : /\ \A f \in Matches(p) : Len(m) >= Len(f)
                                /\ findSession(p, a) = Lookup(m)
    <3>1. Matches(p) # {}
      BY <2>5
    <3> QED BY <3>1, <2>7, Zenon DEF findSession
  <2>9. CASE Len(m) = Len(c)
    <3>1. m = c
      BY <2>4, <2>6, <2>8, <2>9, Zenon
    <3> QED BY <3>1, <2>8
  <2>10. CASE Len(m) # Len(c)
    <3>1. Len(m) >= Len(c) /\ Len(m) \in 0..Len(p)
      BY <2>5, <2>6, <2>8, Zenon
    <3>2. Len(m) > Len(c)
      BY <3>1, <2>3, <2>n, <2>10
    <3> QED BY <3>2, <2>8, Zenon
  <2> QED BY <2>9, <2>10
<1> QED BY <1>1, HandshakeInvariant, PTL

-----------------------------------------------------------------------------
(* The aliases.                                                            *)

\* The places of the packets in a datagram.
Laid(d, at, r) ==
  /\ at \in [0..Len(r) -> 0..Len(d)] /\ at[0] = 0 /\ at[Len(r)] = Len(d)
  /\ \A i \in 1..Len(r) : LaidOut(d, at[i - 1], at[i], r[i])

LEMMA ReplyLaid ==
  ASSUME NEW r \in Replies
  PROVE  /\ ReplyBytes(r) \in Seq(Octet) /\ ReplyBytes(r) # <<>>
         /\ Len(r) \in Nat /\ DOMAIN r = 1..Len(r)
         /\ \A i \in 1..Len(r) : r[i].type \in {"Initial", "Handshake", "1-RTT"}
         /\ \E at : Laid(ReplyBytes(r), at, r)
<1> DEFINE d == ReplyBytes(r)
           end(k) == Len(ReplyBytes(SubSeq(r, 1, k)))
<1>1. /\ r \in Seq([type : {"Initial", "Handshake", "1-RTT"}, scid : Seq(0..255), n : Nat])
      /\ d \in Seq(0..255) \ {<<>>} /\ end(0) = 0
      /\ \A i \in DOMAIN r : LaidOut(d, end(i - 1), end(i), r[i])
  BY ReplyAssumption, Zenon
<1>2. Len(r) \in Nat /\ DOMAIN r = 1..Len(r)
  BY <1>1, LenProperties
<1>3. \A i \in 1..Len(r) : r[i].type \in {"Initial", "Handshake", "1-RTT"}
  <2>1. \A i \in 1..Len(r) :
           r[i] \in [type : {"Initial", "Handshake", "1-RTT"}, scid : Seq(0..255), n : Nat]
    BY <1>1, ElementOfSeq
  <2> QED BY <2>1
<1>4. end(Len(r)) = Len(d)
  <2>1. SubSeq(r, 1, Len(r)) = r
    BY <1>1, <1>2, SubSeqFull
  <2> QED BY <2>1, Zenon
<1>5. \A i \in 1..Len(r) : LaidOut(d, end(i - 1), end(i), r[i])
  BY <1>1, <1>2, Zenon
<1>6. \A i \in 1..Len(r) : end(i) \in 0..Len(d)
  <2> SUFFICES ASSUME NEW i \in 1..Len(r) PROVE end(i) \in 0..Len(d)
    OBVIOUS
  <2>1. end(i - 1) \in 0..Len(d) /\ end(i) \in (end(i - 1) + 1)..Len(d)
    BY <1>5, Zenon DEF LaidOut
  <2> HIDE DEF end
  <2> QED BY <2>1
<1>7. \A i \in 0..Len(r) : end(i) \in 0..Len(d)
  <2>1. Len(d) \in Nat
    BY <1>1, LenProperties
  <2>2. end(0) \in 0..Len(d)
    BY <1>1, <2>1
  <2>3. \A i \in 0..Len(r) : i = 0 \/ i \in 1..Len(r)
    BY <1>2
  <2> HIDE DEF end
  <2> QED BY <1>6, <2>2, <2>3, Zenon
<1> HIDE DEF end
<1>8. PICK at : at = [i \in 0..Len(r) |-> end(i)]
  OBVIOUS
<1>9. Laid(d, at, r)
  <2>1. at \in [0..Len(r) -> 0..Len(d)]
    BY <1>7, <1>8
  <2>2. 0 \in 0..Len(r) /\ Len(r) \in 0..Len(r) /\ \A i \in 1..Len(r) : i \in 0..Len(r) /\ i - 1 \in 0..Len(r)
    BY <1>2
  <2>3. \A i \in 0..Len(r) : at[i] = end(i)
    BY <1>8
  <2>4. \A i \in 1..Len(r) : LaidOut(d, at[i - 1], at[i], r[i])
    BY <1>5, <2>2, <2>3, Zenon
  <2>5. at[0] = 0 /\ at[Len(r)] = Len(d)
    BY <1>1, <1>4, <2>2, <2>3, Zenon
  <2> QED BY <2>1, <2>4, <2>5, Zenon DEF Laid
<1> QED BY <1>1, <1>2, <1>3, <1>9, Zenon DEF Octet

\* From each packet on, the walk finds connection IDs of the packets.
LEMMA WalkFindsNoOther ==
  ASSUME NEW d \in Seq(Octet), NEW W, SCIDWalk(W, d), NEW r, NEW at, Laid(d, at, r), Len(r) \in Nat
  PROVE  W[0] \subseteq {r[i].scid : i \in 1..Len(r)}
<1> DEFINE S == {r[i].scid : i \in 1..Len(r)}
           n == Len(r)
           T == {m \in 0..n : W[at[n - m]] \subseteq S}
<1>0. n \in Nat
  OBVIOUS
<1>1. 0 \in T
  <2>1. n - 0 = n /\ 0 \in 0..n /\ n \in 0..n
    OBVIOUS
  <2>2. at[n] = Len(d) /\ at[n] \in 0..Len(d)
    BY <2>1 DEF Laid
  <2>3. W[at[n]] = {}
    BY <2>2, WalkStops
  <2> QED BY <2>1, <2>3
<1>2. ASSUME NEW m \in 0..(n - 1), m \in T PROVE m + 1 \in T
  <2>1. PICK i \in 1..n : i = n - m /\ i - 1 = n - (m + 1) /\ m + 1 \in 0..n
    OBVIOUS
  <2>2. LaidOut(d, at[i - 1], at[i], r[i])
    BY <2>1 DEF Laid
  <2>3. /\ r[i].type = "1-RTT" => W[at[i - 1]] = {}
        /\ r[i].type = "Initial" => W[at[i - 1]] = {r[i].scid}
        /\ r[i].type \notin {"1-RTT", "Initial"} => W[at[i - 1]] = {r[i].scid} \cup W[at[i]]
    BY <2>2, WalkPacket
  <2>4. r[i].scid \in S
    OBVIOUS
  <2>5. W[at[i]] \subseteq S
    BY <1>2, <2>1
  <2> HIDE DEF S
  <2>6. W[at[i - 1]] \subseteq S
    BY <2>3, <2>4, <2>5
  <2> QED BY <2>1, <2>6
<1>3. n \in T
  <2>1. 0 \in Int /\ n \in Int /\ n \in 0..n
    OBVIOUS
  <2> HIDE DEF T, n
  <2>2. 0..n \subseteq T
    BY <1>1, <1>2, <2>1, IntervalInduction, Zenon
  <2> QED BY <2>1, <2>2
<1>4. n - n = 0 /\ at[0] = 0
  BY DEF Laid
<1>5. W[at[n - n]] \subseteq S
  BY <1>3
<1> QED BY <1>4, <1>5, Zenon

\* Up to the first token it finds them all.
LEMMA WalkMissesNone ==
  ASSUME NEW d \in Seq(Octet), NEW W, SCIDWalk(W, d), NEW r, NEW at, Laid(d, at, r), Len(r) \in Nat,
         NEW k \in 1..Len(r), \A j \in 1..(k - 1) : r[j].type # "Initial"
  PROVE  r[k].scid \in W[0] \cup {<<>>}
<1> DEFINE T == {i \in 1..k : W[at[i - 1]] \subseteq W[0]}
<1>1. 1 \in T
  <2>1. 1 - 1 = 0 /\ at[0] = 0 /\ 1 \in 1..k
    BY DEF Laid
  <2> QED BY <2>1
<1>2. ASSUME NEW i \in 1..(k - 1), i \in T PROVE i + 1 \in T
  <2>1. i \in 1..Len(r) /\ i + 1 \in 1..k /\ (i + 1) - 1 = i /\ i \in 0..Len(r)
    OBVIOUS
  <2>2. LaidOut(d, at[i - 1], at[i], r[i])
    BY <2>1 DEF Laid
  <2>3. W[at[i]] \subseteq W[at[i - 1]]
    <3>1. CASE r[i].type = "1-RTT"
      <4>1. at[i] = Len(d)
        BY <2>2, <3>1, Zenon DEF LaidOut
      <4>2. at[i] \in 0..Len(d)
        BY <2>1 DEF Laid
      <4>3. W[at[i]] = {}
        BY <4>1, <4>2, WalkStops, Zenon
      <4> QED BY <4>3
    <3>2. CASE r[i].type # "1-RTT"
      <4>1. r[i].type # "Initial"
        OBVIOUS
      <4>2. W[at[i - 1]] = {r[i].scid} \cup W[at[i]]
        BY <2>2, <3>2, <4>1, WalkPacket
      <4> QED BY <4>2
    <3> QED BY <3>1, <3>2
  <2> QED BY <1>2, <2>1, <2>3
<1>3. k \in T
  <2>1. 1 \in Int /\ k \in Int /\ k \in 1..k
    OBVIOUS
  <2> HIDE DEF T
  <2>2. 1..k \subseteq T
    BY <1>1, <1>2, <2>1, IntervalInduction, Zenon
  <2> QED BY <2>1, <2>2
<1>4. LaidOut(d, at[k - 1], at[k], r[k])
  BY DEF Laid
<1>5. CASE r[k].type = "1-RTT"
  BY <1>4, <1>5, Zenon DEF LaidOut
<1>6. CASE r[k].type # "1-RTT"
  <2>1. /\ r[k].type = "Initial" => W[at[k - 1]] = {r[k].scid}
        /\ r[k].type \notin {"1-RTT", "Initial"} => W[at[k - 1]] = {r[k].scid} \cup W[at[k]]
    BY <1>4, WalkPacket
  <2>2. r[k].scid \in W[at[k - 1]]
    BY <1>6, <2>1
  <2> QED BY <1>3, <2>2
<1> QED BY <1>5, <1>6

\* ExtractAllSCIDs reads the connection IDs of the packets of a datagram, all
\* of them up to the first packet with a token.
LEMMA ReadsSCIDs ==
  ASSUME NEW r \in Replies
  PROVE  LET d == ReplyBytes(r)
             found == IF LongHeader(d[1]) THEN ExtractAllSCIDs(d) ELSE {}
         IN found \subseteq SCIDsOf(r) /\ BeforeToken(r) \subseteq found
<1> DEFINE d == ReplyBytes(r)
           found == IF LongHeader(d[1]) THEN ExtractAllSCIDs(d) ELSE {}
<1>1. /\ d \in Seq(Octet) /\ d # <<>> /\ Len(r) \in Nat /\ DOMAIN r = 1..Len(r)
      /\ \E at : Laid(d, at, r)
  BY ReplyLaid, Zenon
<1>2. PICK at : Laid(d, at, r)
  BY <1>1
<1>3. PICK W : SCIDWalk(W, d)
  BY <1>1, WalkDef
<1>4. found = W[0] \ {<<>>}
  <2>1. ExtractAllSCIDs(d) = W[0] \ {<<>>}
    BY <1>3, Zenon DEF SCIDWalk
  <2>2. CASE LongHeader(d[1])
    BY <2>1, <2>2
  <2>3. CASE ~LongHeader(d[1])
    <3>1. 0 \in 0..Len(d)
      BY <1>1, LenProperties
    <3>2. Byte(d, 0) = d[1]
      BY DEF Byte
    <3> HIDE DEF d
    <3>3. W[0] = {}
      BY <1>1, <1>3, <2>3, <3>1, <3>2, WalkStops, Zenon
    <3> QED BY <2>3, <3>3
  <2> QED BY <2>2, <2>3
<1> HIDE DEF d
<1>5. W[0] \subseteq {r[i].scid : i \in 1..Len(r)}
  BY <1>1, <1>2, <1>3, WalkFindsNoOther, ZenonT(60)
<1>6. \A k \in 1..Len(r) : (\A j \in 1..(k - 1) : r[j].type # "Initial") => r[k].scid \in W[0] \cup {<<>>}
  BY <1>1, <1>2, <1>3, WalkMissesNone, Zenon
<1> HIDE DEF found
<1>7. found \subseteq SCIDsOf(r)
  BY <1>1, <1>4, <1>5 DEF SCIDsOf
<1>8. BeforeToken(r) \subseteq found
  <2> SUFFICES ASSUME NEW k \in 1..Len(r), \A j \in 1..(k - 1) : r[j].type # "Initial",
                      r[k].scid # <<>>
               PROVE  r[k].scid \in found
    BY <1>1 DEF BeforeToken
  <2> QED BY <1>4, <1>6
<1> QED BY <1>7, <1>8, Zenon DEF found, d

AllBeforeToken(S) == UNION {BeforeToken(r) : r \in S}

LEMMA OneMoreReply ==
  ASSUME NEW S, NEW r
  PROVE  AllBeforeToken(S \cup {r}) = AllBeforeToken(S) \cup BeforeToken(r)
  BY DEF AllBeforeToken

\* What has been learnt is what the server has sent.
AliasInv ==
  /\ replies \subseteq Replies
  /\ DOMAIN dcidAliases \subseteq UsedSCIDs
  /\ AllBeforeToken(replies) \subseteq {DCID} \cup DOMAIN dcidAliases

LEMMA AliasStep == AliasInv /\ [Next]_vars => AliasInv'
<1> SUFFICES ASSUME AliasInv, [Next]_vars PROVE AliasInv'
  OBVIOUS
<1>1. CASE UNCHANGED <<replies, dcidAliases>>
  BY <1>1 DEF AliasInv, UsedSCIDs
<1>2. ASSUME NEW r \in Replies, ServerReplies(r) PROVE AliasInv'
  <2> DEFINE d == ReplyBytes(r)
             found == IF LongHeader(d[1]) THEN ExtractAllSCIDs(d) ELSE {}
             new == IF LongHeader(d[1]) THEN Learnt(d) ELSE {}
  <2>1. found \subseteq SCIDsOf(r) /\ BeforeToken(r) \subseteq found
    BY ReadsSCIDs, Zenon
  <2>2. new \subseteq found \ {DCID} /\ found \subseteq new \cup {DCID} \cup DOMAIN dcidAliases
    BY DEF Learnt
  <2>3. /\ replies' = replies \cup {r}
        /\ dcidAliases' = [c \in DOMAIN dcidAliases \cup new |->
                             IF c \in new THEN DCID ELSE dcidAliases[c]]
    BY <1>2, Zenon DEF ServerReplies
  <2> HIDE DEF found, new
  <2>4. DOMAIN dcidAliases' = DOMAIN dcidAliases \cup new
    BY <2>3
  <2>5. UsedSCIDs' = UsedSCIDs \cup SCIDsOf(r)
    BY <2>3 DEF UsedSCIDs
  <2>6. AllBeforeToken(replies') = AllBeforeToken(replies) \cup BeforeToken(r)
    BY <2>3, OneMoreReply, Zenon
  <2>7. DOMAIN dcidAliases' \subseteq UsedSCIDs'
    BY <2>1, <2>2, <2>4, <2>5 DEF AliasInv
  <2>8. AllBeforeToken(replies') \subseteq {DCID} \cup DOMAIN dcidAliases'
    BY <2>1, <2>2, <2>4, <2>6 DEF AliasInv
  <2> QED BY <2>3, <2>7, <2>8 DEF AliasInv
<1>3. ASSUME NEW i \in Packets, ForwardInitial(i) PROVE AliasInv'
  BY <1>1, <1>3 DEF ForwardInitial
<1>4. ASSUME NEW i \in Packets, NEW a, CollectInitial(i, a) PROVE AliasInv'
  BY <1>1, <1>4 DEF CollectInitial, relay
<1>5. ASSUME NEW i \in Packets, NEW a, OpenSession(i, a) PROVE AliasInv'
  BY <1>1, <1>5 DEF OpenSession
<1>6. CASE Expire \/ Cleanup \/ UNCHANGED vars
  BY <1>1, <1>6 DEF Expire, Cleanup, vars, relay
<1> QED BY <1>2, <1>3, <1>4, <1>5, <1>6 DEF Next, Receive

\* AliasesExact: over any number of datagrams of any number of packets,
\* learnServerSCID learns no connection ID that the server did not use, and
\* misses none up to the first packet with a token field.
THEOREM AliasesStayExact == Spec => []AliasesExact
<1>1. Init => AliasInv
  BY DEF Init, AliasInv, AllBeforeToken
<1>2. HandshakeInv => TypeOK
  <2> SUFFICES ASSUME HandshakeInv PROVE TypeOK
    OBVIOUS
  <2>1. assembler.present => /\ assembler.buffer \in [1..BufferSize -> 0..255]
                             /\ assembler.written \subseteq Bits
                             /\ assembler.maxOffset \in 0..BufferSize
    <3>1. SUFFICES ASSUME assembler.present
                   PROVE  /\ assembler.buffer \in [1..BufferSize -> 0..255]
                          /\ assembler.written \subseteq Bits
                          /\ assembler.maxOffset \in 0..BufferSize
      OBVIOUS
    <3>2. assembler # NoAssembler
      BY <3>1 DEF NoAssembler
    <3>3. assembler \in Assembly
      BY <3>2 DEF HandshakeInv, AssemblerInv, Collects, Holds
    <3> QED BY <3>3 DEF Assembly, Octet
  <2> QED BY <2>1 DEF HandshakeInv, AssemblerInv, TableInv, SessionInv, TypeOK
<1>3. TypeOK /\ AliasInv => AliasesExact
  BY DEF AliasInv, AliasesExact, AllBeforeToken
<1>4. AliasInv /\ [Next]_vars => AliasInv'
  BY AliasStep
<1> QED BY <1>1, <1>2, <1>3, <1>4, HandshakeInvariant, PTL DEF Spec
=============================================================================
