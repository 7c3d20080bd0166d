---------------------------- MODULE HytaleProofs ----------------------------
(***************************************************************************)
(* Proofs about the packet reader and writer, for packets of any content,  *)
(* streams of any length and every way to cut them into reads.             *)
(*                                                                         *)
(* Induction over data is written with sets: the numbers that have a       *)
(* property are a set, and SetInduction says that it is all of Nat.        *)
(***************************************************************************)
EXTENDS HytaleStream, SequenceTheorems, WellFoundedInduction, TLAPS

\* Induction over the natural numbers: a set that has 0 and the successor of
\* each of its numbers has them all.
LEMMA SetInduction ==
  ASSUME NEW S, 0 \in S, \A n \in Nat : n \in S => n + 1 \in S
  PROVE  Nat \subseteq S
<1> DEFINE T == Nat \ S
           R == OpToRel(<, Nat)
<1>1. SUFFICES ASSUME T # {} PROVE FALSE
  OBVIOUS
<1>2. IsWellFoundedOn(R, Nat)
  BY NatLessThanWellFounded
<1>3. T \subseteq Nat
  OBVIOUS
<1> HIDE DEF T, R
<1>4. PICK x \in T : \A y \in T : ~(<<y, x>> \in R)
  BY <1>1, <1>2, <1>3, WFMin
<1>5. \A y \in T : ~(y < x)
  BY <1>4, <1>3 DEF R, OpToRel
<1>6. x \in Nat /\ x \notin S
  BY DEF T
<1>7. x # 0
  BY <1>6
<1>8. x - 1 \in Nat
  BY <1>6, <1>7
<1>9. x - 1 \in S
  BY <1>8, <1>5, <1>6 DEF T
<1> QED BY <1>9, <1>8, <1>6

\* The same for an interval.
LEMMA IntervalInduction ==
  ASSUME NEW a \in Int, NEW b \in Int, NEW T, a <= b => a \in T,
         \A i \in a..(b - 1) : i \in T => i + 1 \in T
  PROVE  a..b \subseteq T
<1> DEFINE S == {n \in Nat : a + n <= b => a + n \in T}
<1>1. 0 \in S
  OBVIOUS
<1>2. \A n \in Nat : n \in S => n + 1 \in S
  <2> SUFFICES ASSUME NEW n \in Nat, n \in S, a + (n + 1) <= b PROVE a + (n + 1) \in T
    OBVIOUS
  <2>1. a + n \in T /\ a + n \in a..(b - 1)
    OBVIOUS
  <2> QED BY <2>1
<1>3. Nat \subseteq S
  <2> HIDE DEF S
  <2> QED BY <1>1, <1>2, SetInduction
<1>4. ASSUME NEW i \in a..b PROVE i \in T
  <2>1. i - a \in Nat
    OBVIOUS
  <2>2. i - a \in S
    BY <2>1, <1>3
  <2> QED BY <2>2
<1> QED BY <1>4

-----------------------------------------------------------------------------
(* FlattenSeq.                                                             *)

\* f[i] is the concatenation of the first i sequences of ss.
Flattens(f, ss) ==
  f = [i \in 1..Len(ss) |-> IF i = 1 THEN ss[i] ELSE f[i - 1] \o ss[i]]

\* There is such a function.
LEMMA FlattenExists ==
  ASSUME NEW S, NEW ss \in Seq(Seq(S))
  PROVE  \E f : Flattens(f, ss)
<1> DEFINE Upto(f, m) == \A i \in 1..m : f[i] = IF i = 1 THEN ss[i] ELSE f[i - 1] \o ss[i]
           T == {m \in 0..Len(ss) : \E f \in [1..m -> Seq(S)] : Upto(f, m)}
<1>l. Len(ss) \in Nat /\ \A i \in 1..Len(ss) : ss[i] \in Seq(S)
  BY LenProperties, ElementOfSeq
<1>1. 0 \in T
  <2>1. [i \in 1..0 |-> <<>>] \in [1..0 -> Seq(S)] /\ Upto([i \in 1..0 |-> <<>>], 0)
    OBVIOUS
  <2>2. 0 \in 0..Len(ss)
    BY <1>l
  <2> QED BY <2>1, <2>2, Zenon
<1>2. ASSUME NEW m \in 0..(Len(ss) - 1), m \in T PROVE m + 1 \in T
  <2>0. m + 1 \in 0..Len(ss) /\ m + 1 \in 1..Len(ss) /\ m \in Nat
    BY <1>l
  <2>1. SUFFICES \E f \in [1..(m + 1) -> Seq(S)] : Upto(f, m + 1)
    BY <2>0, Zenon
  <2>2. PICK f \in [1..m -> Seq(S)] : Upto(f, m)
    BY <1>2
  <2> DEFINE last == IF m = 0 THEN ss[1] ELSE f[m] \o ss[m + 1]
             g == [i \in 1..(m + 1) |-> IF i = m + 1 THEN last ELSE f[i]]
  <2>3. last \in Seq(S)
    BY <1>l, <2>0, ConcatProperties
  <2>4. g \in [1..(m + 1) -> Seq(S)]
    BY <2>3
  <2>5. ASSUME NEW i \in 1..(m + 1) PROVE g[i] = IF i = 1 THEN ss[i] ELSE g[i - 1] \o ss[i]
    <3>1. CASE i = m + 1
      BY <3>1
    <3>2. CASE i # m + 1
      <4>1. i \in 1..m /\ g[i] = f[i] /\ (i # 1 => i - 1 \in 1..m /\ g[i - 1] = f[i - 1])
        BY <3>2
      <4>2. f[i] = IF i = 1 THEN ss[i] ELSE f[i - 1] \o ss[i]
        BY <2>2, <4>1
      <4> HIDE DEF g
      <4> QED BY <4>1, <4>2
    <3> QED BY <3>1, <3>2
  <2> HIDE DEF g
  <2> QED BY <2>4, <2>5
<1>3. Len(ss) \in T
  <2>1. 0 \in Int /\ Len(ss) \in Int /\ Len(ss) \in 0..Len(ss)
    BY <1>l
  <2> HIDE DEF T
  <2>2. 0..Len(ss) \subseteq T
    BY <1>1, <1>2, <2>1, IntervalInduction, Zenon
  <2> QED BY <2>1, <2>2
<1>4. PICK f \in [1..Len(ss) -> Seq(S)] : Upto(f, Len(ss))
  BY <1>3, <1>l
<1> QED BY <1>4 DEF Flattens

\* Its values are sequences.
Flattening(f, ss, S) ==
  /\ \A i \in 1..Len(ss) : f[i] \in Seq(S)
  /\ Len(ss) > 0 => f[1] = ss[1]
  /\ \A i \in 1..(Len(ss) - 1) : f[i + 1] = f[i] \o ss[i + 1]
LEMMA FlattenType ==
  ASSUME NEW S, NEW ss \in Seq(Seq(S)), NEW f, Flattens(f, ss)
  PROVE  Flattening(f, ss, S)
<1> DEFINE T == {i \in 1..Len(ss) : f[i] \in Seq(S)}
<1>l. Len(ss) \in Nat /\ \A i \in 1..Len(ss) : ss[i] \in Seq(S)
  BY LenProperties, ElementOfSeq
<1>1. Len(ss) > 0 => f[1] = ss[1]
  BY <1>l DEF Flattens
<1>2. ASSUME NEW i \in 1..(Len(ss) - 1) PROVE f[i + 1] = f[i] \o ss[i + 1]
  <2>1. i + 1 \in 1..Len(ss) /\ i + 1 # 1 /\ (i + 1) - 1 = i
    BY <1>l
  <2>2. f[i + 1] = f[(i + 1) - 1] \o ss[i + 1]
    BY <2>1, Zenon DEF Flattens
  <2> QED BY <2>1, <2>2
<1>3. ASSUME NEW i \in 1..(Len(ss) - 1), i \in T PROVE i + 1 \in T
  <2>1. i + 1 \in 1..Len(ss)
    BY <1>l
  <2> QED BY <1>2, <1>3, <1>l, <2>1, ConcatProperties, ZenonT(60)
<1>4. 1..Len(ss) \subseteq T
  <2>1. 1 <= Len(ss) => 1 \in T
    BY <1>1, <1>l
  <2>2. 1 \in Int /\ Len(ss) \in Int
    BY <1>l
  <2> HIDE DEF T
  <2> QED BY <1>3, <2>1, <2>2, IntervalInduction, Zenon
<1> QED BY <1>1, <1>2, <1>4 DEF Flattening

\* FlattenSeq is the last value of such a function.
LEMMA FlattenDef ==
  ASSUME NEW S, NEW ss \in Seq(Seq(S))
  PROVE  \/ Len(ss) = 0 /\ FlattenSeq(ss) = <<>>
         \/ Len(ss) # 0 /\ \E f : Flattens(f, ss) /\ FlattenSeq(ss) = f[Len(ss)]
<1>1. CASE Len(ss) = 0
  BY <1>1, EmptySeq DEF FlattenSeq
<1>2. CASE Len(ss) # 0
  <2> DEFINE F == CHOOSE f : f = [i \in 1..Len(ss) |-> IF i = 1 THEN ss[i] ELSE f[i - 1] \o ss[i]]
  <2>1. FlattenSeq(ss) = F[Len(ss)]
    BY <1>2, Zenon DEF FlattenSeq
  <2>2. \E f : f = [i \in 1..Len(ss) |-> IF i = 1 THEN ss[i] ELSE f[i - 1] \o ss[i]]
    BY FlattenExists, Zenon DEF Flattens
  <2>3. F = [i \in 1..Len(ss) |-> IF i = 1 THEN ss[i] ELSE F[i - 1] \o ss[i]]
    BY <2>2, Zenon
  <2> HIDE DEF F
  <2>4. Flattens(F, ss)
    BY <2>3, Zenon DEF Flattens
  <2> QED BY <1>2, <2>1, <2>4, Zenon
<1> QED BY <1>1, <1>2

\* The concatenation of Append(ss, s) is that of ss, then s.
LEMMA FlattenAppend ==
  ASSUME NEW S, NEW ss \in Seq(Seq(S)), NEW s \in Seq(S)
  PROVE  /\ FlattenSeq(ss) \in Seq(S)
         /\ FlattenSeq(Append(ss, s)) = FlattenSeq(ss) \o s
<1> DEFINE tt == Append(ss, s)
<1>l. Len(ss) \in Nat /\ \A i \in 1..Len(ss) : ss[i] \in Seq(S)
  BY LenProperties, ElementOfSeq
<1>t. /\ tt \in Seq(Seq(S)) /\ Len(tt) = Len(ss) + 1 /\ tt[Len(ss) + 1] = s
      /\ \A i \in 1..Len(ss) : tt[i] = ss[i]
  BY AppendProperties
<1> HIDE DEF tt
<1>1. PICK g : Flattens(g, tt) /\ FlattenSeq(tt) = g[Len(ss) + 1]
  BY <1>t, <1>l, FlattenDef
<1>g. g[1] = tt[1] /\ \A i \in 1..Len(ss) : g[i + 1] = g[i] \o tt[i + 1]
  <2>1. /\ Len(tt) > 0 => g[1] = tt[1]
        /\ \A i \in 1..(Len(tt) - 1) : g[i + 1] = g[i] \o tt[i + 1]
    <3>1. tt \in Seq(Seq(S)) /\ Flattens(g, tt)
      BY <1>1, <1>t
    <3>2. Flattening(g, tt, S)
      BY <3>1, FlattenType
    <3> QED BY <3>2, Zenon DEF Flattening
  <2>2. Len(tt) > 0 /\ Len(tt) - 1 = Len(ss)
    BY <1>t, <1>l
  <2> QED BY <2>1, <2>2
<1>2. CASE Len(ss) = 0
  <2>1. FlattenSeq(ss) = <<>>
    BY <1>2, FlattenDef
  <2>2. g[1] = s
    BY <1>g, <1>2, <1>t
  <2> QED BY <2>1, <2>2, <1>1, <1>2, ConcatEmptySeq, EmptySeq DEF tt
<1>3. CASE Len(ss) # 0
  <2>1. PICK f : Flattens(f, ss) /\ FlattenSeq(ss) = f[Len(ss)]
    BY <1>3, FlattenDef
  <2>f. /\ \A i \in 1..Len(ss) : f[i] \in Seq(S)
        /\ f[1] = ss[1] /\ \A i \in 1..(Len(ss) - 1) : f[i + 1] = f[i] \o ss[i + 1]
    <3>1. Len(ss) > 0
      BY <1>3, <1>l
    <3>2. Flattening(f, ss, S)
      BY <2>1, FlattenType
    <3> QED BY <3>1, <3>2, Zenon DEF Flattening
  <2> DEFINE T == {i \in 1..Len(ss) : f[i] = g[i]}
  <2>2. 1 \in T
    BY <1>g, <1>t, <1>l, <2>f, <1>3
  <2>3. ASSUME NEW i \in 1..(Len(ss) - 1), i \in T PROVE i + 1 \in T
    <3>1. i \in 1..Len(ss) /\ i + 1 \in 1..Len(ss) /\ f[i] = g[i]
      BY <2>3, <1>l
    <3>2. g[i + 1] = g[i] \o tt[i + 1] /\ f[i + 1] = f[i] \o ss[i + 1] /\ tt[i + 1] = ss[i + 1]
      BY <3>1, <1>g, <2>f, <1>t
    <3> QED BY <3>1, <3>2
  <2>4. 1..Len(ss) \subseteq T
    <3>1. 1 \in Int /\ Len(ss) \in Int
      BY <1>l
    <3> HIDE DEF T
    <3> QED BY <2>2, <2>3, <3>1, IntervalInduction, Zenon
  <2>5. f[Len(ss)] = g[Len(ss)]
    BY <2>4, <1>l, <1>3, SMTT(30)
  <2>6. g[Len(ss) + 1] = g[Len(ss)] \o s
    <3>1. Len(ss) \in 1..Len(ss)
      BY <1>l, <1>3
    <3> QED BY <1>g, <1>t, <3>1
  <2>7. FlattenSeq(ss) \in Seq(S)
    BY <2>1, <2>f, <1>3, <1>l
  <2> QED BY <2>5, <2>6, <2>7, <2>1, <1>1 DEF tt
<1> QED BY <1>2, <1>3

-----------------------------------------------------------------------------
(* Frames.                                                                 *)

PacketSet == [id : Nat, data : Seq(Byte)]

\* A field of the header has its size, whatever the number.
LEMMA LittleEndianType ==
  ASSUME NEW n \in Nat
  PROVE  LittleEndian(n) \in Seq(Byte) /\ Len(LittleEndian(n)) = Field
<1> USE DEF Byte
<1>f. Field \in Nat
  BY StreamAssumption DEF Field
<1> DEFINE Eq(g) == g = [i \in 1..Field |-> IF i = 1 THEN n ELSE g[i - 1] \div 256]
           Upto(g, m) == \A i \in 1..m : g[i] = IF i = 1 THEN n ELSE g[i - 1] \div 256
           T == {m \in 0..Field : \E g \in [1..m -> Nat] : Upto(g, m)}
<1>1. 0 \in T
  <2>1. [i \in 1..0 |-> 0] \in [1..0 -> Nat] /\ Upto([i \in 1..0 |-> 0], 0)
    OBVIOUS
  <2>2. 0 \in 0..Field
    BY <1>f
  <2> QED BY <2>1, <2>2, Zenon
<1>2. ASSUME NEW m \in 0..(Field - 1), m \in T PROVE m + 1 \in T
  <2>0. m + 1 \in 0..Field /\ m \in Nat
    BY <1>f
  <2>1. SUFFICES \E g \in [1..(m + 1) -> Nat] : Upto(g, m + 1)
    BY <2>0, Zenon
  <2>2. PICK g \in [1..m -> Nat] : Upto(g, m)
    BY <1>2
  <2> DEFINE last == IF m = 0 THEN n ELSE g[m] \div 256
             h == [i \in 1..(m + 1) |-> IF i = m + 1 THEN last ELSE g[i]]
  <2>3. last \in Nat
    BY <2>0
  <2>4. h \in [1..(m + 1) -> Nat]
    BY <2>3
  <2>5. ASSUME NEW i \in 1..(m + 1) PROVE h[i] = IF i = 1 THEN n ELSE h[i - 1] \div 256
    <3>1. CASE i = m + 1
      BY <3>1
    <3>2. CASE i # m + 1
      <4>1. i \in 1..m /\ h[i] = g[i] /\ (i # 1 => i - 1 \in 1..m /\ h[i - 1] = g[i - 1])
        BY <3>2
      <4>2. g[i] = IF i = 1 THEN n ELSE g[i - 1] \div 256
        BY <2>2, <4>1
      <4> HIDE DEF h
      <4> QED BY <4>1, <4>2
    <3> QED BY <3>1, <3>2
  <2> HIDE DEF h
  <2> QED BY <2>4, <2>5, ZenonT(60)
<1>3. Field \in T
  <2>1. 0 \in Int /\ Field \in Int /\ Field \in 0..Field
    BY <1>f
  <2> HIDE DEF T
  <2>2. 0..Field \subseteq T
    BY <1>1, <1>2, <2>1, IntervalInduction, Zenon
  <2> QED BY <2>1, <2>2
<1>4. PICK g \in [1..Field -> Nat] : Upto(g, Field)
  BY <1>3
<1>5. Eq(g)
  BY <1>4
<1> DEFINE C == CHOOSE f : Eq(f)
<1>6. Eq(C)
  BY <1>5, ZenonT(60)
<1>7. LittleEndian(n) = [i \in 1..Field |-> C[i] % 256]
  BY Zenon DEF LittleEndian
<1> HIDE DEF C
<1>8. PICK F : Eq(F) /\ LittleEndian(n) = [i \in 1..Field |-> F[i] % 256]
  BY <1>6, <1>7, ZenonT(60)
<1> DEFINE U == {i \in 1..Field : F[i] \in Nat}
<1>9. 1..Field \subseteq U
  <2>1. 1 <= Field => 1 \in U
    BY <1>8, <1>f
  <2>2. ASSUME NEW i \in 1..(Field - 1), i \in U PROVE i + 1 \in U
    <3>1. i + 1 \in 1..Field /\ i + 1 # 1 /\ (i + 1) - 1 = i /\ F[i] \in Nat
      BY <2>2, <1>f
    <3>2. F[i + 1] = F[(i + 1) - 1] \div 256
      BY <3>1, <1>8, ZenonT(60)
    <3> QED BY <3>1, <3>2
  <2>3. 1 \in Int /\ Field \in Int
    BY <1>f
  <2> HIDE DEF U
  <2> QED BY <2>1, <2>2, <2>3, IntervalInduction, Zenon
<1>10. \A i \in 1..Field : F[i] \in Nat
  BY <1>9
<1> HIDE DEF Eq, Upto, T, U
<1>11. \A x \in Nat : x % 256 \in 0..255
  OBVIOUS
<1>12. \A i \in 1..Field : F[i] % 256 \in 0..255
  BY <1>10, <1>11, Zenon
<1> HIDE DEF Byte
<1>13. [i \in 1..Field |-> F[i] % 256] \in [1..Field -> Byte]
  <2>1. \A i \in 1..Field : F[i] % 256 \in Byte
    BY <1>12, Zenon DEF Byte
  <2> QED BY <2>1, Zenon
<1>14. LittleEndian(n) \in [1..Field -> Byte]
  BY <1>8, <1>13, Zenon
<1> QED BY <1>14, <1>f

\* A frame is the header and the data.
LEMMA FrameType ==
  ASSUME NEW p \in PacketSet
  PROVE  /\ Header(p) \in Seq(Byte) /\ Len(Header(p)) = HeaderSize
         /\ Frame(p) \in Seq(Byte) /\ Len(Frame(p)) = HeaderSize + Len(p.data)
<1>1. p.id \in Nat /\ p.data \in Seq(Byte) /\ Len(p.data) \in Nat
  BY LenProperties DEF PacketSet
<1>2. Field + Field = HeaderSize
  BY StreamAssumption DEF Field
<1>3. \A n \in {p.id, Len(p.data)} : LittleEndian(n) \in Seq(Byte) /\ Len(LittleEndian(n)) = Field
  BY <1>1, LittleEndianType
<1>4. Header(p) \in Seq(Byte) /\ Len(Header(p)) = Field + Field
  BY <1>3, ConcatProperties, SMTT(30) DEF Header
<1>5. Frame(p) \in Seq(Byte) /\ Len(Frame(p)) = Len(Header(p)) + Len(p.data)
  BY <1>1, <1>4, ConcatProperties DEF Frame
<1> QED BY <1>2, <1>4, <1>5

\* Framed, packet by packet.
LEMMA FramedAppend ==
  ASSUME NEW ps \in Seq(PacketSet), NEW p \in PacketSet
  PROVE  /\ Framed(ps) \in Seq(Byte)
         /\ Framed(Append(ps, p)) = Framed(ps) \o Frame(p)
<1> DEFINE ss == [i \in DOMAIN ps |-> Frame(ps[i])]
           tt == [i \in DOMAIN Append(ps, p) |-> Frame(Append(ps, p)[i])]
<1>1. Len(ps) \in Nat /\ DOMAIN ps = 1..Len(ps) /\ \A i \in 1..Len(ps) : ps[i] \in PacketSet
  BY LenProperties, ElementOfSeq
<1>2. /\ DOMAIN Append(ps, p) = 1..(Len(ps) + 1) /\ Append(ps, p)[Len(ps) + 1] = p
      /\ \A i \in 1..Len(ps) : Append(ps, p)[i] = ps[i]
  BY AppendProperties, LenProperties
<1>3. ss \in [1..Len(ps) -> Seq(Byte)]
  BY <1>1, FrameType
<1>4. ss \in Seq(Seq(Byte)) /\ Len(ss) = Len(ps)
  BY <1>3, <1>1
<1>5. Frame(p) \in Seq(Byte)
  BY FrameType
<1>6. /\ Append(ss, Frame(p)) \in [1..(Len(ps) + 1) -> Seq(Byte)]
      /\ Append(ss, Frame(p))[Len(ps) + 1] = Frame(p)
      /\ \A i \in 1..Len(ps) : Append(ss, Frame(p))[i] = ss[i]
  <2> HIDE DEF ss
  <2>1. /\ Append(ss, Frame(p)) \in Seq(Seq(Byte)) /\ Len(Append(ss, Frame(p))) = Len(ss) + 1
        /\ Append(ss, Frame(p))[Len(ss) + 1] = Frame(p)
        /\ \A i \in 1..Len(ss) : Append(ss, Frame(p))[i] = ss[i]
    BY <1>4, <1>5, AppendProperties
  <2> QED BY <2>1, <1>4, LenProperties
<1>7. \A i \in 1..Len(ps) : ss[i] = Frame(ps[i]) /\ tt[i] = Frame(ps[i])
  BY <1>1, <1>2
<1>8. tt[Len(ps) + 1] = Frame(p) /\ tt = [i \in 1..(Len(ps) + 1) |-> tt[i]]
  BY <1>1, <1>2
<1>9. tt = Append(ss, Frame(p))
  <2> HIDE DEF ss, tt
  <2>1. \A i \in 1..(Len(ps) + 1) : tt[i] = Append(ss, Frame(p))[i]
    <3>1. \A i \in 1..(Len(ps) + 1) : i \in 1..Len(ps) \/ i = Len(ps) + 1
      BY <1>1
    <3> QED BY <1>6, <1>7, <1>8, <3>1
  <2>2. Append(ss, Frame(p)) = [i \in 1..(Len(ps) + 1) |-> Append(ss, Frame(p))[i]]
    BY <1>6
  <2> QED BY <1>8, <2>1, <2>2
<1> QED BY <1>4, <1>5, <1>9, FlattenAppend DEF Framed

LEMMA FramedEmpty == Framed(<<>>) = <<>>
<1>1. [i \in DOMAIN <<>> |-> Frame(<<>>[i])] = <<>>
  OBVIOUS
<1> QED BY <1>1, FlattenDef, EmptySeq DEF Framed

\* Concatenation of sequences of bytes: type, associativity, cancellation.
LEMMA ConcatType ==
  \A a, b \in Seq(Byte) : a \o b \in Seq(Byte) /\ Len(a \o b) = Len(a) + Len(b)
BY ConcatProperties

LEMMA ConcatAssoc ==
  \A a, b, c \in Seq(Byte) : (a \o b) \o c = a \o (b \o c)
BY ConcatAssociative

LEMMA ConcatCancel ==
  \A a, b, c \in Seq(Byte) : a \o b = a \o c => b = c
BY ConcatSimplifications, Zenon

\* The part of a concatenation that lies in its second half.
LEMMA SecondHalf ==
  ASSUME NEW a \in Seq(Byte), NEW b \in Seq(Byte), Len(b) > 0
  PROVE  SubSeq(a \o b, Len(a) + 1, Len(a) + Len(b)) = b
<1>1. Len(a) \in Nat /\ Len(b) \in Nat
  BY LenProperties
<1> DEFINE i == Len(a) + 1
           j == Len(a) + Len(b)
<1>2. /\ i \in (Len(a) + 1)..(Len(a) + Len(b)) /\ j \in (Len(a) + 1)..(Len(a) + Len(b))
      /\ i - Len(a) = 1 /\ j - Len(a) = Len(b)
  BY <1>1
<1>3. SubSeq(a \o b, i, j) = SubSeq(b, i - Len(a), j - Len(a))
  BY <1>2, SubSeqOfConcat2
<1> QED BY <1>2, <1>3, SubSeqFull

\* A prefix of a sequence, and one more element.
LEMMA PrefixNext ==
  ASSUME NEW S, NEW ps \in Seq(S), NEW m \in 0..(Len(ps) - 1)
  PROVE  /\ SubSeq(ps, 1, m) \in Seq(S) /\ Len(SubSeq(ps, 1, m)) = m
         /\ ps[m + 1] \in S
         /\ SubSeq(ps, 1, m + 1) = Append(SubSeq(ps, 1, m), ps[m + 1])
<1>1. Len(ps) \in Nat /\ \A i \in 1..Len(ps) : ps[i] \in S
  BY LenProperties, ElementOfSeq
<1>2. m \in Int /\ 1 \in Int /\ m + 1 \in 1..Len(ps) /\ \A i \in 1..m : ps[i] \in S
  BY <1>1
<1>3. SubSeq(ps, 1, m) \in Seq(S) /\ Len(SubSeq(ps, 1, m)) = m
  BY <1>2, SubSeqProperties
<1>4. SubSeq(ps, 1, m + 1) = SubSeq(ps, 1, (m + 1) - 1) \o <<ps[m + 1]>>
  <2>1. 1 \in 1..Len(ps) /\ m + 1 \in 1..Len(ps)
    BY <1>1, <1>2
  <2> QED BY <2>1, SubSeqRecursiveSecond
<1>5. (m + 1) - 1 = m
  BY <1>2
<1>6. SubSeq(ps, 1, m) \o <<ps[m + 1]>> = Append(SubSeq(ps, 1, m), ps[m + 1])
  BY <1>3, <1>2, <1>1, AppendIsConcat
<1> QED BY <1>3, <1>4, <1>5, <1>6, <1>2, <1>1

\* Framed is a sequence of bytes.
LEMMA FramedType ==
  ASSUME NEW ps \in Seq(PacketSet)
  PROVE  Framed(ps) \in Seq(Byte)
<1> DEFINE p == [id |-> 0, data |-> <<>>]
<1>1. p \in PacketSet
  BY EmptySeq DEF PacketSet
<1> HIDE DEF p
<1> QED BY <1>1, FramedAppend

\* What the first n packets take on the wire is the start of what all take.
LEMMA FramedPrefix ==
  ASSUME NEW ps \in Seq(PacketSet), NEW n \in 0..Len(ps)
  PROVE  \E t \in Seq(Byte) : Framed(ps) = Framed(SubSeq(ps, 1, n)) \o t
<1> DEFINE A(m) == Framed(SubSeq(ps, 1, m))
           T == {m \in n..Len(ps) : \E t \in Seq(Byte) : A(m) = A(n) \o t}
<1>0. Len(ps) \in Nat /\ n \in Int
  BY LenProperties
<1>1. \A m \in 0..(Len(ps) - 1) :
        A(m) \in Seq(Byte) /\ A(m + 1) = A(m) \o Frame(ps[m + 1]) /\ Frame(ps[m + 1]) \in Seq(Byte)
  <2> TAKE m \in 0..(Len(ps) - 1)
  <2>1. /\ SubSeq(ps, 1, m) \in Seq(PacketSet) /\ ps[m + 1] \in PacketSet
        /\ SubSeq(ps, 1, m + 1) = Append(SubSeq(ps, 1, m), ps[m + 1])
    BY PrefixNext
  <2> QED BY <2>1, FramedAppend, FrameType
<1>2. A(Len(ps)) = Framed(ps) /\ A(Len(ps)) \in Seq(Byte)
  BY SubSeqFull, FramedType
<1>3. A(n) \in Seq(Byte)
  <2>1. CASE n = Len(ps)
    BY <2>1, <1>2
  <2>2. CASE n # Len(ps)
    BY <2>2, <1>1, <1>0
  <2> QED BY <2>1, <2>2
<1> HIDE DEF A
<1>4. n \in T
  <2>1. A(n) = A(n) \o <<>> /\ <<>> \in Seq(Byte)
    BY <1>3, ConcatEmptySeq, EmptySeq
  <2>2. n \in n..Len(ps)
    BY <1>0
  <2> QED BY <2>1, <2>2, Zenon
<1>5. ASSUME NEW m \in n..(Len(ps) - 1), m \in T PROVE m + 1 \in T
  <2>1. PICK t \in Seq(Byte) : A(m) = A(n) \o t
    BY <1>5
  <2>2. m \in 0..(Len(ps) - 1) /\ m + 1 \in n..Len(ps)
    BY <1>0
  <2>3. A(m + 1) = (A(n) \o t) \o Frame(ps[m + 1]) /\ Frame(ps[m + 1]) \in Seq(Byte)
    BY <2>1, <2>2, <1>1
  <2>4. A(m + 1) = A(n) \o (t \o Frame(ps[m + 1])) /\ t \o Frame(ps[m + 1]) \in Seq(Byte)
    <3>1. (A(n) \o t) \o Frame(ps[m + 1]) = A(n) \o (t \o Frame(ps[m + 1]))
      BY <2>3, <1>3, ConcatAssoc, Zenon
    <3>2. t \o Frame(ps[m + 1]) \in Seq(Byte)
      BY <2>3, ConcatType, Zenon
    <3> QED BY <2>3, <3>1, <3>2, Zenon
  <2> QED BY <2>2, <2>4, Zenon
<1>6. Len(ps) \in T
  <2>1. n \in Int /\ Len(ps) \in Int /\ Len(ps) \in n..Len(ps) /\ n <= Len(ps)
    BY <1>0
  <2> HIDE DEF T
  <2>2. n..Len(ps) \subseteq T
    BY <1>4, <1>5, <2>1, IntervalInduction, Zenon
  <2> QED BY <2>1, <2>2
<1> QED BY <1>6, <1>2 DEF A

\* The frame of packet n + 1 follows the first n.
LEMMA FramedNext ==
  ASSUME NEW ps \in Seq(PacketSet), NEW n \in 0..(Len(ps) - 1)
  PROVE  \E t \in Seq(Byte) :
           Framed(ps) = Framed(SubSeq(ps, 1, n)) \o (Frame(ps[n + 1]) \o t)
<1>0. Len(ps) \in Nat
  BY LenProperties
<1>1. n + 1 \in 0..Len(ps)
  BY <1>0
<1>2. PICK t \in Seq(Byte) : Framed(ps) = Framed(SubSeq(ps, 1, n + 1)) \o t
  BY <1>1, FramedPrefix
<1>3. /\ SubSeq(ps, 1, n) \in Seq(PacketSet) /\ ps[n + 1] \in PacketSet
      /\ SubSeq(ps, 1, n + 1) = Append(SubSeq(ps, 1, n), ps[n + 1])
  BY PrefixNext
<1>4. /\ Framed(SubSeq(ps, 1, n)) \in Seq(Byte) /\ Frame(ps[n + 1]) \in Seq(Byte)
      /\ Framed(SubSeq(ps, 1, n + 1)) = Framed(SubSeq(ps, 1, n)) \o Frame(ps[n + 1])
  BY <1>3, FramedAppend, FrameType
<1>5. Framed(ps) = Framed(SubSeq(ps, 1, n)) \o (Frame(ps[n + 1]) \o t)
  <2>1. (Framed(SubSeq(ps, 1, n)) \o Frame(ps[n + 1])) \o t
          = Framed(SubSeq(ps, 1, n)) \o (Frame(ps[n + 1]) \o t)
    BY <1>4, ConcatAssoc, Zenon
  <2> QED BY <1>2, <1>4, <2>1, Zenon
<1> QED BY <1>5

\* When bytes u are there beyond the first n packets, there is another packet,
\* and u and what is to come begin with its frame.
LEMMA NextFrame ==
  ASSUME NEW ps \in Seq(PacketSet), NEW n \in 0..Len(ps),
         NEW u \in Seq(Byte), NEW t \in Seq(Byte),
         Framed(SubSeq(ps, 1, n)) \o (u \o t) = Framed(ps), Len(u) > 0
  PROVE  /\ n < Len(ps)
         /\ \E v \in Seq(Byte) : u \o t = Frame(ps[n + 1]) \o v
<1>0. Len(ps) \in Nat /\ Len(u) \in Nat /\ Len(t) \in Nat
  BY LenProperties
<1>u. u \o t \in Seq(Byte) /\ Len(u \o t) = Len(u) + Len(t)
  BY ConcatProperties
<1>1. n # Len(ps)
  <2> SUFFICES ASSUME n = Len(ps) PROVE FALSE
    OBVIOUS
  <2>1. SubSeq(ps, 1, n) = ps
    BY SubSeqFull
  <2>2. Framed(ps) \o (u \o t) = Framed(ps) /\ Framed(ps) \in Seq(Byte)
    BY <2>1, FramedType
  <2>3. u \o t = <<>>
    BY <2>2, <1>u, ConcatEqualIffEmpty
  <2> QED BY <2>3, <1>u, <1>0, EmptySeq
<1>2. n \in 0..(Len(ps) - 1)
  BY <1>0, <1>1
<1>3. PICK v \in Seq(Byte) : Framed(ps) = Framed(SubSeq(ps, 1, n)) \o (Frame(ps[n + 1]) \o v)
  BY <1>2, FramedNext
<1>4. SubSeq(ps, 1, n) \in Seq(PacketSet) /\ ps[n + 1] \in PacketSet
  BY <1>2, PrefixNext
<1>5. Framed(SubSeq(ps, 1, n)) \in Seq(Byte) /\ Frame(ps[n + 1]) \o v \in Seq(Byte)
  BY <1>4, FramedType, FrameType, ConcatProperties
<1>6. u \o t = Frame(ps[n + 1]) \o v
  <2>1. Framed(SubSeq(ps, 1, n)) \o (u \o t) = Framed(SubSeq(ps, 1, n)) \o (Frame(ps[n + 1]) \o v)
    BY <1>3, Zenon
  <2> QED BY <2>1, <1>5, <1>u, ConcatCancel, Zenon
<1>7. n < Len(ps)
  BY <1>2, <1>0
<1> QED BY <1>6, <1>7, Zenon

\* What the reader makes of the frame of a message's packet: the header tells
\* the length and the ID, and when all of it is there, it is the data.
LEMMA FrameRead ==
  ASSUME NEW m \in Messages, NEW u \in Seq(Byte), NEW t \in Seq(Byte), NEW v \in Seq(Byte),
         u \o t = Frame(m.packet) \o v, Len(u) >= HeaderSize
  PROVE  /\ FromLittleEndian(SubSeq(u, 1, Field)) = Len(m.packet.data)
         /\ FromLittleEndian(SubSeq(u, Field + 1, HeaderSize)) = m.packet.id
         /\ Len(u) >= HeaderSize + Len(m.packet.data) =>
              /\ SubSeq(u, HeaderSize + 1, HeaderSize + Len(m.packet.data)) = m.packet.data
              /\ u = Frame(m.packet) \o SubSeq(u, HeaderSize + Len(m.packet.data) + 1, Len(u))
<1> DEFINE p == m.packet
           L == LittleEndian(Len(p.data))
           I == LittleEndian(p.id)
           n == HeaderSize + Len(p.data)
<1>1. /\ p \in PacketSet /\ p.data \in Seq(Byte) /\ p.id \in Nat /\ Len(p.data) \in Nat
      /\ FromLittleEndian(I) = p.id /\ FromLittleEndian(L) = Len(p.data)
  BY MessageAssumption, LenProperties DEF PacketSet
<1>2. L \in Seq(Byte) /\ I \in Seq(Byte) /\ Len(L) = Field /\ Len(I) = Field
  BY <1>1, LittleEndianType
<1>3. Header(p) = L \o I /\ Header(p) \in Seq(Byte) /\ Len(Header(p)) = HeaderSize
  BY <1>1, FrameType DEF Header
<1>4. Frame(p) = Header(p) \o p.data /\ Frame(p) \in Seq(Byte) /\ Len(Frame(p)) = n
  BY <1>1, FrameType DEF Frame
<1>5. Field \in Nat /\ Field >= 1 /\ Field + Field = HeaderSize /\ HeaderSize \in Nat
  BY StreamAssumption DEF Field
<1>6. Len(u) \in Nat
  BY LenProperties
<1> USE u \o t = Frame(m.packet) \o v, Len(u) >= HeaderSize
<1> HIDE DEF p, L, I
<1>7. ASSUME NEW i \in 1..HeaderSize, NEW j \in 1..HeaderSize
      PROVE  SubSeq(u, i, j) = SubSeq(L \o I, i, j)
  <2>1. i \in 1..Len(u) /\ j \in 1..Len(u) /\ i \in 1..Len(Frame(p)) /\ j \in 1..Len(Frame(p))
        /\ i \in 1..Len(Header(p)) /\ j \in 1..Len(Header(p))
    BY <1>1, <1>3, <1>4, <1>5, <1>6, SMTT(30)
  <2>2. SubSeq(u \o t, i, j) = SubSeq(u, i, j)
    BY <2>1, SubSeqOfConcat1
  <2>3. SubSeq(Frame(p) \o v, i, j) = SubSeq(Frame(p), i, j)
    BY <2>1, <1>4, SubSeqOfConcat1
  <2>4. SubSeq(Header(p) \o p.data, i, j) = SubSeq(Header(p), i, j)
    BY <2>1, <1>3, <1>1, SubSeqOfConcat1
  <2> QED BY <2>2, <2>3, <2>4, <1>3, <1>4 DEF p
<1>8. SubSeq(u, 1, Field) = L
  <2>1. 1 \in 1..HeaderSize /\ Field \in 1..HeaderSize /\ 1 \in 1..Len(L) /\ Field \in 1..Len(L)
    BY <1>5, <1>2
  <2>2. SubSeq(u, 1, Field) = SubSeq(L \o I, 1, Field)
    BY <2>1, <1>7
  <2>3. SubSeq(L \o I, 1, Field) = SubSeq(L, 1, Field)
    BY <2>1, <1>2, SubSeqOfConcat1
  <2> QED BY <2>2, <2>3, <1>2, SubSeqFull
<1>9. SubSeq(u, Field + 1, HeaderSize) = I
  <2>1. /\ Field + 1 \in 1..HeaderSize /\ HeaderSize \in 1..HeaderSize
        /\ Field + 1 = Len(L) + 1 /\ HeaderSize = Len(L) + Len(I) /\ Len(I) > 0
    BY <1>5, <1>2
  <2>2. SubSeq(u, Field + 1, HeaderSize) = SubSeq(L \o I, Field + 1, HeaderSize)
    BY <2>1, <1>7
  <2>3. SubSeq(L \o I, Len(L) + 1, Len(L) + Len(I)) = I
    BY <2>1, <1>2, SecondHalf
  <2> QED BY <2>1, <2>2, <2>3, Zenon
<1>10. ASSUME Len(u) >= n
       PROVE  SubSeq(u, HeaderSize + 1, n) = p.data /\ u = Frame(p) \o SubSeq(u, n + 1, Len(u))
  <2>1. SubSeq(u, 1, n) = Frame(p)
    <3>1. 1 \in 1..Len(u) /\ n \in 1..Len(u) /\ 1 \in 1..Len(Frame(p)) /\ n \in 1..Len(Frame(p))
      BY <1>10, <1>1, <1>4, <1>5, <1>6
    <3>2. SubSeq(u \o t, 1, n) = SubSeq(u, 1, n)
      BY <3>1, SubSeqOfConcat1
    <3>3. SubSeq(Frame(p) \o v, 1, n) = SubSeq(Frame(p), 1, n)
      BY <3>1, <1>4, SubSeqOfConcat1
    <3>4. SubSeq(Frame(p), 1, n) = Frame(p)
      BY <1>4, SubSeqFull
    <3> QED BY <3>2, <3>3, <3>4 DEF p
  <2>2. u = Frame(p) \o SubSeq(u, n + 1, Len(u))
    <3>1. 1 \in 1..(Len(u) + 1) /\ n \in (1 - 1)..Len(u) /\ Len(u) \in n..Len(u)
      BY <1>10, <1>1, <1>5, <1>6
    <3>2. SubSeq(u, 1, n) \o SubSeq(u, n + 1, Len(u)) = SubSeq(u, 1, Len(u))
      BY <3>1, ConcatAdjacentSubSeq
    <3> QED BY <3>2, <2>1, SubSeqFull
  <2>3. CASE Len(p.data) = 0
    <3>1. p.data = <<>>
      BY <2>3, <1>1, EmptySeq
    <3>2. SubSeq(u, HeaderSize + 1, n) = <<>>
      BY <2>3, <1>5, SubSeqEmpty
    <3> QED BY <3>1, <3>2, <2>2
  <2>4. CASE Len(p.data) # 0
    <3>0. n = HeaderSize + Len(p.data) /\ n \in Nat /\ Len(p.data) > 0 /\ n <= Len(u)
      BY <2>4, <1>10, <1>1, <1>5
    <3> HIDE DEF n
    <3>1. /\ HeaderSize + 1 \in 1..Len(u) /\ n \in 1..Len(u)
          /\ HeaderSize + 1 \in 1..Len(Frame(p)) /\ n \in 1..Len(Frame(p))
          /\ HeaderSize + 1 = Len(Header(p)) + 1 /\ n = Len(Header(p)) + Len(p.data)
      BY <3>0, <1>1, <1>3, <1>4, <1>5, <1>6, SMTT(30)
    <3>2. SubSeq(u \o t, HeaderSize + 1, n) = SubSeq(u, HeaderSize + 1, n)
      BY <3>1, SubSeqOfConcat1
    <3>3. SubSeq(Frame(p) \o v, HeaderSize + 1, n) = SubSeq(Frame(p), HeaderSize + 1, n)
      BY <3>1, <1>4, SubSeqOfConcat1
    <3>4. SubSeq(Header(p) \o p.data, HeaderSize + 1, n) = p.data
      <4>1. SubSeq(Header(p) \o p.data, Len(Header(p)) + 1, Len(Header(p)) + Len(p.data)) = p.data
        BY <3>0, <1>1, <1>3, SecondHalf
      <4> QED BY <3>1, <4>1, Zenon
    <3> QED BY <3>2, <3>3, <3>4, <1>4, <2>2 DEF p
  <2> QED BY <2>3, <2>4
<1> QED BY <1>1, <1>8, <1>9, <1>10 DEF p

-----------------------------------------------------------------------------
(* The inductive invariant.                                                *)

PacketsOf(ms) == [i \in DOMAIN ms |-> ms[i].packet]

StreamType ==
  /\ sent \in Seq(Messages) /\ wire \in Seq(Byte) /\ closed \in BOOLEAN
  /\ taken \in 0..Len(wire)
  /\ buf \in Seq(Byte) /\ offset \in 0..Len(buf) /\ size \in Nat /\ Len(buf) <= size
  /\ pc \in {"idle", "header", "body"}
  /\ packets \in Seq(PacketSet) /\ Len(packets) <= Len(sent)
  /\ err \in {"none", "EOF", "UnexpectedEOF", "PacketTooLarge"}

\* The bytes t that the stream does not have yet belong to the last packet;
\* they are what Write has still to hand over, until the stream is closed.
WireInv ==
  \E t \in Seq(Byte) :
    /\ wire \o t = Framed(PacketsOf(sent))
    /\ t # <<>> => sent # <<>> /\ Len(t) <= Len(Frame(sent[Len(sent)].packet))
    /\ IF closed THEN writing = <<>>
       ELSE \/ writing = <<>> /\ t = <<>>
            \/ writing = <<t>>
            \/ \E h, d \in Seq(Byte) : writing = <<h, d>> /\ t = h \o d

\* A call in progress knows how much it needs, and has room for it.
CallInv ==
  /\ pc = "body" => Len(Unread) >= HeaderSize /\ Length <= MaxPacketSize
  /\ pc # "idle" => Len(Unread) >= Need \/ (offset = 0 /\ Need <= size)
  /\ err # "none" => pc = "idle"
  /\ size = InitSize \/ size < 2 * (HeaderSize + MaxPacketSize)

PacketsInv == \A i \in 1..Len(packets) : packets[i] = sent[i].packet

\* ErrorsJustified, without the sequence of the packets that are left.
ErrorInv ==
  /\ err = "EOF" => eofWithData \/ (closed /\ wire = Returned)
  /\ err = "UnexpectedEOF" =>
       /\ closed /\ wire # Returned /\ Len(sent) = Len(packets) + 1
       /\ Len(wire) < Len(Returned) + Len(Frame(sent[Len(packets) + 1].packet))
  /\ err = "PacketTooLarge" =>
       /\ Len(packets) < Len(sent)
       /\ Len(sent[Len(packets) + 1].packet.data) > MaxPacketSize

StreamInv == StreamType /\ WireInv /\ CallInv /\ PacketsInv /\ NothingLost /\ ErrorInv

-----------------------------------------------------------------------------
(* What the invariant says about a state.                                  *)

\* The packets of a sequence of messages.
LEMMA PacketsOfType ==
  ASSUME NEW ms \in Seq(Messages)
  PROVE  /\ PacketsOf(ms) \in Seq(PacketSet) /\ Len(PacketsOf(ms)) = Len(ms)
         /\ \A i \in 1..Len(ms) : ms[i] \in Messages /\ PacketsOf(ms)[i] = ms[i].packet
<1>1. Len(ms) \in Nat /\ DOMAIN ms = 1..Len(ms) /\ \A i \in 1..Len(ms) : ms[i] \in Messages
  BY LenProperties, ElementOfSeq
<1>2. \A i \in 1..Len(ms) : ms[i].packet \in PacketSet
  BY <1>1, MessageAssumption, Zenon DEF PacketSet
<1>3. PacketsOf(ms) \in [1..Len(ms) -> PacketSet]
  BY <1>1, <1>2, Zenon DEF PacketsOf
<1>4. \A i \in 1..Len(ms) : PacketsOf(ms)[i] = ms[i].packet
  BY <1>1, Zenon DEF PacketsOf
<1> QED BY <1>1, <1>3, <1>4

\* One more message is one more packet.
LEMMA PacketsOfAppend ==
  ASSUME NEW ms \in Seq(Messages), NEW m \in Messages
  PROVE  m.packet \in PacketSet /\ PacketsOf(Append(ms, m)) = Append(PacketsOf(ms), m.packet)
<1> DEFINE ns == Append(ms, m)
           qs == Append(PacketsOf(ms), m.packet)
<1>0. m.packet \in PacketSet
  BY MessageAssumption DEF PacketSet
<1>1. /\ ns \in Seq(Messages) /\ Len(ns) = Len(ms) + 1 /\ ns[Len(ms) + 1] = m
      /\ \A i \in 1..Len(ms) : ns[i] = ms[i]
  BY AppendProperties
<1>2. /\ PacketsOf(ms) \in Seq(PacketSet) /\ Len(PacketsOf(ms)) = Len(ms)
      /\ \A i \in 1..Len(ms) : PacketsOf(ms)[i] = ms[i].packet
  BY PacketsOfType
<1>3. /\ qs \in Seq(PacketSet) /\ Len(qs) = Len(PacketsOf(ms)) + 1
      /\ qs[Len(PacketsOf(ms)) + 1] = m.packet
      /\ \A i \in 1..Len(PacketsOf(ms)) : qs[i] = PacketsOf(ms)[i]
  BY <1>0, <1>2, AppendProperties
<1> HIDE DEF ns, qs
<1>4. /\ PacketsOf(ns) \in Seq(PacketSet) /\ Len(PacketsOf(ns)) = Len(ns)
      /\ \A i \in 1..Len(ns) : PacketsOf(ns)[i] = ns[i].packet
  BY <1>1, PacketsOfType
<1>5. Len(ms) \in Nat
  BY LenProperties
<1>6. ASSUME NEW i \in 1..Len(ns) PROVE PacketsOf(ns)[i] = qs[i]
  <2>1. CASE i = Len(ms) + 1
    BY <2>1, <1>1, <1>2, <1>3, <1>4
  <2>2. CASE i # Len(ms) + 1
    <3>1. i \in 1..Len(ms)
      BY <2>2, <1>1, <1>5
    <3> QED BY <3>1, <1>1, <1>2, <1>3, <1>4
  <2> QED BY <2>1, <2>2
<1>7. PacketsOf(ns) = qs
  <2>1. Len(PacketsOf(ns)) = Len(qs)
    BY <1>1, <1>2, <1>3, <1>4
  <2> QED BY <2>1, <1>3, <1>4, <1>6, SeqEqual
<1> QED BY <1>0, <1>7 DEF ns, qs

\* The end of a buffer from an offset on.
LEMMA Suffix ==
  ASSUME NEW b \in Seq(Byte), NEW o \in 0..Len(b)
  PROVE  /\ SubSeq(b, o + 1, Len(b)) \in Seq(Byte)
         /\ Len(SubSeq(b, o + 1, Len(b))) = Len(b) - o
         /\ SubSeq(b, 1, o) \in Seq(Byte) /\ Len(SubSeq(b, 1, o)) = o
         /\ SubSeq(b, 1, o) \o SubSeq(b, o + 1, Len(b)) = b
         /\ o = 0 => SubSeq(b, o + 1, Len(b)) = b
<1>1. Len(b) \in Nat /\ \A i \in 1..Len(b) : b[i] \in Byte
  BY LenProperties, ElementOfSeq
<1>2. o + 1 \in Int /\ Len(b) \in Int /\ o \in Int /\ 1 \in Int
      /\ (\A i \in (o + 1)..Len(b) : b[i] \in Byte) /\ \A i \in 1..o : b[i] \in Byte
  BY <1>1
<1>3. /\ SubSeq(b, o + 1, Len(b)) \in Seq(Byte)
      /\ Len(SubSeq(b, o + 1, Len(b))) = IF o + 1 <= Len(b) THEN Len(b) - (o + 1) + 1 ELSE 0
  BY <1>2, SubSeqProperties
<1>4. Len(SubSeq(b, o + 1, Len(b))) = Len(b) - o
  BY <1>1, <1>3
<1>5. SubSeq(b, 1, o) \in Seq(Byte) /\ Len(SubSeq(b, 1, o)) = IF 1 <= o THEN o - 1 + 1 ELSE 0
  BY <1>2, SubSeqProperties
<1>6. Len(SubSeq(b, 1, o)) = o
  BY <1>1, <1>5
<1>7. SubSeq(b, 1, Len(b)) = b
  BY SubSeqFull
<1>8. SubSeq(b, 1, o) \o SubSeq(b, o + 1, Len(b)) = SubSeq(b, 1, Len(b))
  <2>1. 1 \in 1..(Len(b) + 1) /\ o \in (1 - 1)..Len(b) /\ Len(b) \in o..Len(b)
    BY <1>1
  <2> QED BY <2>1, ConcatAdjacentSubSeq
<1>9. o = 0 => SubSeq(b, o + 1, Len(b)) = b
  <2>1. o = 0 => o + 1 = 1
    OBVIOUS
  <2> QED BY <2>1, <1>7, Zenon
<1> QED BY <1>3, <1>4, <1>5, <1>6, <1>7, <1>8, <1>9, Zenon

\* The packets returned are the first of those sent, and what is unread goes
\* on from there.
LEMMA Position ==
  ASSUME StreamType, WireInv, PacketsInv, NothingLost
  PROVE  \E t \in Seq(Byte) :
           /\ Framed(SubSeq(PacketsOf(sent), 1, Len(packets))) \o (Unread \o t) = Framed(PacketsOf(sent))
           /\ packets = SubSeq(PacketsOf(sent), 1, Len(packets))
<1> DEFINE ps == PacketsOf(sent)
           n == Len(packets)
           w == SubSeq(wire, taken + 1, Len(wire))
<1>1. PICK t \in Seq(Byte) : wire \o t = Framed(ps)
  BY DEF WireInv
<1>2. /\ ps \in Seq(PacketSet) /\ Len(ps) = Len(sent)
      /\ \A i \in 1..Len(sent) : ps[i] = sent[i].packet
  BY PacketsOfType DEF StreamType
<1>3. n \in Nat /\ n <= Len(sent) /\ Len(sent) \in Nat
  BY LenProperties DEF StreamType
<1> HIDE DEF ps
<1>4. packets = SubSeq(ps, 1, n)
  <2>1. 1 \in Int /\ n \in Int /\ \A i \in 1..n : ps[i] \in PacketSet
    BY <1>2, <1>3, ElementOfSeq
  <2>2. /\ SubSeq(ps, 1, n) \in Seq(PacketSet)
        /\ Len(SubSeq(ps, 1, n)) = IF 1 <= n THEN n - 1 + 1 ELSE 0
        /\ \A i \in 1..(n - 1 + 1) : SubSeq(ps, 1, n)[i] = ps[1 + i - 1]
    BY <2>1, SubSeqProperties
  <2>3. Len(SubSeq(ps, 1, n)) = n /\ \A i \in 1..n : SubSeq(ps, 1, n)[i] = ps[i]
    BY <2>2, <1>3
  <2>4. \A i \in 1..n : packets[i] = ps[i]
    BY <1>2, <1>3 DEF PacketsInv
  <2>5. packets \in Seq(PacketSet)
    BY DEF StreamType
  <2> QED BY <2>2, <2>3, <2>4, <2>5, SeqEqual
<1>5. /\ w \in Seq(Byte) /\ SubSeq(wire, 1, taken) \in Seq(Byte)
      /\ SubSeq(wire, 1, taken) \o w = wire
  BY Suffix DEF StreamType
<1>6. Unread \in Seq(Byte)
  BY Suffix DEF StreamType, Unread
<1>7. Framed(packets) \in Seq(Byte)
  BY FramedType DEF StreamType
<1>8. Framed(packets) \o Unread = SubSeq(wire, 1, taken)
  BY DEF NothingLost, Returned
<1> HIDE DEF w
<1>9. Framed(packets) \o (Unread \o (w \o t)) = Framed(ps)
  <2>1. w \o t \in Seq(Byte)
    BY <1>5, ConcatType
  <2>2. (Framed(packets) \o Unread) \o (w \o t) = Framed(packets) \o (Unread \o (w \o t))
    BY <2>1, <1>6, <1>7, ConcatAssoc, Zenon
  <2>3. (SubSeq(wire, 1, taken) \o w) \o t = SubSeq(wire, 1, taken) \o (w \o t)
    BY <1>5, ConcatAssoc, Zenon
  <2> QED BY <2>2, <2>3, <1>8, <1>5, <1>1, Zenon
<1>10. w \o t \in Seq(Byte)
  BY <1>5, ConcatType
<1> QED BY <1>4, <1>9, <1>10, Zenon DEF ps

\* A header that is there is that of the next packet sent.
LEMMA NextKnown ==
  ASSUME StreamType, WireInv, PacketsInv, NothingLost, Len(Unread) >= HeaderSize
  PROVE  /\ Len(packets) < Len(sent) /\ sent[Len(packets) + 1] \in Messages
         /\ sent[Len(packets) + 1].packet \in PacketSet
         /\ Length = Len(sent[Len(packets) + 1].packet.data)
         /\ ID = sent[Len(packets) + 1].packet.id
         /\ Length \in Nat
         /\ Len(Unread) >= HeaderSize + Length =>
              /\ SubSeq(Unread, HeaderSize + 1, HeaderSize + Length)
                   = sent[Len(packets) + 1].packet.data
              /\ Unread = Frame(sent[Len(packets) + 1].packet)
                            \o SubSeq(Unread, HeaderSize + Length + 1, Len(Unread))
<1> DEFINE ps == PacketsOf(sent)
           n == Len(packets)
<1>1. PICK t \in Seq(Byte) : Framed(SubSeq(ps, 1, n)) \o (Unread \o t) = Framed(ps)
  BY Position
<1>2. /\ ps \in Seq(PacketSet) /\ Len(ps) = Len(sent)
      /\ \A i \in 1..Len(sent) : sent[i] \in Messages /\ ps[i] = sent[i].packet
  BY PacketsOfType DEF StreamType
<1>3. n \in Nat /\ n <= Len(sent) /\ Len(sent) \in Nat
  BY LenProperties DEF StreamType
<1>4. Unread \in Seq(Byte) /\ Len(Unread) \in Nat /\ Len(Unread) > 0 /\ n \in 0..Len(ps)
  <2>1. Unread \in Seq(Byte)
    BY Suffix DEF StreamType, Unread
  <2> QED BY <2>1, <1>2, <1>3, LenProperties, StreamAssumption
<1> HIDE DEF ps
<1>5. n < Len(ps) /\ \E v \in Seq(Byte) : Unread \o t = Frame(ps[n + 1]) \o v
  BY <1>1, <1>2, <1>4, NextFrame
<1>6. PICK v \in Seq(Byte) : Unread \o t = Frame(ps[n + 1]) \o v
  BY <1>5
<1>7. n + 1 \in 1..Len(sent) /\ n < Len(sent)
  BY <1>2, <1>3, <1>5
<1>8. PICK m \in Messages : m = sent[n + 1]
  BY <1>2, <1>7
<1>9. Unread \o t = Frame(m.packet) \o v
  BY <1>2, <1>6, <1>7, <1>8
<1>10. m.packet \in PacketSet /\ Len(m.packet.data) \in Nat
  BY MessageAssumption, LenProperties DEF PacketSet
<1>11. /\ Length = Len(m.packet.data) /\ ID = m.packet.id
       /\ Len(Unread) >= HeaderSize + Len(m.packet.data) =>
            /\ SubSeq(Unread, HeaderSize + 1, HeaderSize + Len(m.packet.data)) = m.packet.data
            /\ Unread = Frame(m.packet) \o SubSeq(Unread, HeaderSize + Len(m.packet.data) + 1, Len(Unread))
  BY <1>4, <1>9, FrameRead DEF Length, ID
<1> QED BY <1>7, <1>8, <1>10, <1>11, Zenon

-----------------------------------------------------------------------------
(* The writer's steps.                                                     *)

\* Write: the new packet's frame is what the stream does not have yet.
LEMMA WriteWire ==
  ASSUME StreamInv, NEW m \in Messages, Write(m)
  PROVE  WireInv'
<1> DEFINE p == m.packet
<1>1. PICK t \in Seq(Byte) : wire \o t = Framed(PacketsOf(sent)) /\ (writing = <<>> => t = <<>>)
  <2>1. closed = FALSE
    BY DEF Write, StreamInv, StreamType
  <2>2. \A t : writing = <<t>> => writing # <<>>
    OBVIOUS
  <2>3. \A h, d : writing = <<h, d>> => writing # <<>>
    OBVIOUS
  <2> QED BY <2>1, <2>2, <2>3, Zenon DEF StreamInv, WireInv
<1>2. sent \in Seq(Messages) /\ wire \in Seq(Byte)
  BY DEF StreamInv, StreamType
<1>3. wire = Framed(PacketsOf(sent))
  BY <1>1, <1>2, ConcatEmptySeq DEF Write
<1>4. /\ p \in PacketSet /\ PacketsOf(Append(sent, m)) = Append(PacketsOf(sent), p)
      /\ PacketsOf(sent) \in Seq(PacketSet)
  BY <1>2, PacketsOfAppend, PacketsOfType
<1>5. Framed(PacketsOf(Append(sent, m))) = wire \o Frame(p) /\ Frame(p) \in Seq(Byte)
  BY <1>3, <1>4, FramedAppend, FrameType
<1>6. Append(sent, m)[Len(Append(sent, m))] = m /\ Append(sent, m) # <<>>
  BY <1>2, AppendProperties
<1>7. p.data \in Seq(Byte) /\ Header(p) \in Seq(Byte) /\ Frame(p) = Header(p) \o p.data
  BY <1>4, FrameType DEF Frame, PacketSet
<1>8. Len(Frame(p)) <= Len(Frame(p))
  BY <1>5, LenProperties
<1>9. /\ sent' = Append(sent, m) /\ wire' = wire /\ closed' = FALSE
      /\ writing' = IF p.data = <<>> THEN <<Header(p)>> ELSE <<Header(p), p.data>>
  BY DEF Write, StreamInv, StreamType
<1> HIDE DEF p
<1>10. \/ writing' = <<Frame(p)>>
       \/ \E h, d \in Seq(Byte) : writing' = <<h, d>> /\ Frame(p) = h \o d
  <2>1. CASE p.data = <<>>
    BY <2>1, <1>7, <1>9, ConcatEmptySeq
  <2>2. CASE p.data # <<>>
    BY <2>2, <1>7, <1>9, Zenon
  <2> QED BY <2>1, <2>2
<1> QED BY <1>5, <1>6, <1>8, <1>9, <1>10, Zenon DEF WireInv, p

\* A piece of a packet reaches the stream, all of it or a part.
LEMMA PieceWire ==
  ASSUME StreamInv, WritePiece \/ \E k \in Bytes : WriteFails(k)
  PROVE  WireInv' /\ sent' = sent /\ \E x \in Seq(Byte) : wire' = wire \o x
<1>0. ~closed /\ writing # <<>> /\ sent' = sent
  BY DEF WritePiece, WriteFails
<1>1. PICK t \in Seq(Byte) :
        /\ wire \o t = Framed(PacketsOf(sent))
        /\ t # <<>> => sent # <<>> /\ Len(t) <= Len(Frame(sent[Len(sent)].packet))
        /\ \/ writing = <<t>>
           \/ \E h, d \in Seq(Byte) : writing = <<h, d>> /\ t = h \o d
  BY <1>0, Zenon DEF StreamInv, WireInv
<1>2. PICK h \in Seq(Byte), d \in Seq(Byte) :
        /\ t = h \o d /\ Head(writing) = h
        /\ \/ Tail(writing) = <<>> /\ d = <<>>
           \/ Tail(writing) = <<d>>
  <2>1. CASE writing = <<t>>
    <3>1. t = t \o <<>> /\ <<>> \in Seq(Byte)
      BY ConcatEmptySeq, EmptySeq
    <3>2. Head(writing) = t /\ Tail(writing) = <<>>
      BY <2>1
    <3> QED BY <3>1, <3>2, Zenon
  <2>2. CASE \E h, d \in Seq(Byte) : writing = <<h, d>> /\ t = h \o d
    <3>1. PICK h \in Seq(Byte), d \in Seq(Byte) : writing = <<h, d>> /\ t = h \o d
      BY <2>2
    <3>2. Head(writing) = h /\ Tail(writing) = <<d>>
      BY <3>1
    <3> QED BY <3>1, <3>2, Zenon
  <2> QED BY <1>1, <2>1, <2>2
<1>3. wire \in Seq(Byte) /\ sent \in Seq(Messages)
  BY DEF StreamInv, StreamType
<1>4. ASSUME NEW x \in Seq(Byte), NEW r \in Seq(Byte), h \o d = x \o r
      PROVE  /\ (wire \o x) \o r = Framed(PacketsOf(sent))
             /\ r # <<>> => sent # <<>> /\ Len(r) <= Len(Frame(sent[Len(sent)].packet))
  <2>1. /\ (wire \o x) \o r = Framed(PacketsOf(sent)) /\ Len(r) <= Len(t)
        /\ r # <<>> => t # <<>>
    <3>1. t = x \o r /\ wire \o t = Framed(PacketsOf(sent))
      BY <1>1, <1>2, <1>4
    <3>0. wire \in Seq(Byte) /\ x \in Seq(Byte) /\ r \in Seq(Byte)
      BY <1>3
    <3>2. (wire \o x) \o r = wire \o (x \o r)
      BY <3>0, ConcatAssociative, SMTT(30)
    <3>3. Len(t) = Len(x) + Len(r) /\ Len(x) \in Nat /\ Len(r) \in Nat
      BY <3>1, ConcatType, LenProperties
    <3>4. r # <<>> => Len(r) # 0
      BY EmptySeq
    <3>5. t = <<>> => Len(t) = 0
      BY EmptySeq
    <3>6. (wire \o x) \o r = Framed(PacketsOf(sent))
      BY <3>1, <3>2
    <3>7. Len(r) <= Len(t) /\ (r # <<>> => t # <<>>)
      BY <3>3, <3>4, <3>5
    <3> QED BY <3>6, <3>7, Zenon
  <2>2. CASE r # <<>>
    <3>1. sent[Len(sent)].packet \in PacketSet
      <4>1. sent # <<>>
        BY <2>1, <2>2, <1>1
      <4>2. Len(sent) \in 1..Len(sent)
        BY <4>1, <1>3, EmptySeq, LenProperties
      <4>3. sent[Len(sent)] \in Messages
        BY <4>2, <1>3, ElementOfSeq
      <4> QED BY <4>3, MessageAssumption DEF PacketSet
    <3>2. Len(Frame(sent[Len(sent)].packet)) \in Nat /\ Len(r) \in Nat /\ Len(t) \in Nat
      BY <3>1, FrameType, LenProperties
    <3> QED BY <2>1, <2>2, <3>2, <1>1
  <2> QED BY <2>1, <2>2
<1>5. CASE WritePiece
  <2>1. wire' = wire \o h /\ writing' = Tail(writing) /\ closed' = FALSE
    BY <1>5, <1>2 DEF WritePiece, StreamInv, StreamType
  <2>2. /\ (wire \o h) \o d = Framed(PacketsOf(sent))
        /\ d # <<>> => sent # <<>> /\ Len(d) <= Len(Frame(sent[Len(sent)].packet))
    BY <1>4
  <2>3. (writing' = <<>> /\ d = <<>>) \/ writing' = <<d>>
    BY <2>1, <1>2
  <2> QED BY <1>0, <2>1, <2>2, <2>3, Zenon DEF WireInv
<1>6. CASE \E k \in Bytes : WriteFails(k)
  <2>1. PICK k \in Bytes : WriteFails(k)
    BY <1>6
  <2>2. k \in Nat /\ k < Len(h) /\ Len(h) \in Nat
    BY <2>1, <1>2, LenProperties, StreamAssumption DEF WriteFails, Bytes
  <2> DEFINE x == SubSeq(h, 1, k)
             y == SubSeq(h, k + 1, Len(h))
  <2>3. x \in Seq(Byte) /\ y \in Seq(Byte) /\ x \o y = h
    <3>1. k \in 0..Len(h)
      BY <2>2
    <3> QED BY <3>1, Suffix
  <2>4. wire' = wire \o x /\ writing' = <<>> /\ closed' = TRUE
    BY <2>1, <1>2 DEF WriteFails
  <2> HIDE DEF x, y
  <2>5. h \o d = x \o (y \o d) /\ y \o d \in Seq(Byte)
    <3>0. x \in Seq(Byte) /\ y \in Seq(Byte) /\ d \in Seq(Byte)
      BY <2>3
    <3>1. (x \o y) \o d = x \o (y \o d)
      BY <3>0, ConcatAssoc, ZenonT(60)
    <3>2. y \o d \in Seq(Byte)
      BY <2>3, ConcatType, Zenon
    <3> QED BY <2>3, <3>1, <3>2, Zenon
  <2>6. PICK r \in Seq(Byte) : r = y \o d
    BY <2>5
  <2>7. /\ (wire \o x) \o r = Framed(PacketsOf(sent))
        /\ r # <<>> => sent # <<>> /\ Len(r) <= Len(Frame(sent[Len(sent)].packet))
    BY <2>3, <2>5, <2>6, <1>4
  <2> QED BY <1>0, <2>3, <2>4, <2>7, Zenon DEF WireInv
<1> QED BY <1>5, <1>6

\* What the reader has and what it has returned do not change when the stream
\* grows.
LEMMA WriterFrame ==
  ASSUME StreamInv, UNCHANGED reader, ~closed, NEW x \in Seq(Byte), wire' = wire \o x,
         \/ sent' = sent
         \/ \E m \in Messages : sent' = Append(sent, m),
         closed' \in BOOLEAN
  PROVE  StreamType' /\ CallInv' /\ PacketsInv' /\ NothingLost' /\ ErrorInv'
<1>1. sent \in Seq(Messages) /\ wire \in Seq(Byte) /\ taken \in 0..Len(wire) /\ packets \in Seq(PacketSet)
      /\ Len(packets) <= Len(sent)
  BY DEF StreamInv, StreamType
<1>2. Len(sent) \in Nat /\ Len(wire) \in Nat /\ Len(packets) \in Nat /\ Len(x) \in Nat
  BY <1>1, LenProperties
<1>3. wire' \in Seq(Byte) /\ Len(wire') = Len(wire) + Len(x)
  BY <1>1, ConcatType
<1>4. SubSeq(wire', 1, taken) = SubSeq(wire, 1, taken)
  <2>1. CASE taken = 0
    <3>1. SubSeq(wire', 1, taken) = <<>> /\ SubSeq(wire, 1, taken) = <<>>
      BY <2>1, SubSeqEmpty
    <3> QED BY <3>1
  <2>2. CASE taken # 0
    <3>1. 1 \in 1..Len(wire) /\ taken \in 1..Len(wire)
      BY <2>2, <1>1, <1>2
    <3> QED BY <3>1, <1>1, SubSeqOfConcat1
  <2> QED BY <2>1, <2>2
<1>5. /\ sent' \in Seq(Messages) /\ Len(sent') \in Nat /\ Len(sent) <= Len(sent')
      /\ \A i \in 1..Len(sent) : sent'[i] = sent[i]
  <2>1. CASE sent' = sent
    BY <2>1, <1>1, <1>2
  <2>2. ASSUME NEW m \in Messages, sent' = Append(sent, m)
        PROVE  /\ sent' \in Seq(Messages) /\ Len(sent') = Len(sent) + 1
               /\ \A i \in 1..Len(sent) : sent'[i] = sent[i]
    BY <2>2, <1>1, AppendProperties
  <2> QED BY <2>1, <2>2, <1>2
<1>6. /\ taken' = taken /\ buf' = buf /\ size' = size /\ offset' = offset /\ pc' = pc
      /\ packets' = packets /\ err' = err /\ eofWithData' = eofWithData
  BY DEF reader
<1>7. StreamType'
  <2>1. taken \in 0..Len(wire') /\ Len(packets) <= Len(sent')
    BY <1>1, <1>2, <1>3, <1>5
  <2> QED BY <2>1, <1>3, <1>5, <1>6 DEF StreamInv, StreamType
<1>8. CallInv'
  BY <1>6 DEF StreamInv, CallInv, Unread, Length, Need
<1>9. PacketsInv'
  <2>1. ASSUME NEW i \in 1..Len(packets) PROVE packets[i] = sent'[i].packet
    <3>1. i \in 1..Len(sent)
      BY <1>1, <1>2
    <3> QED BY <3>1, <1>5 DEF StreamInv, PacketsInv
  <2> QED BY <2>1, <1>6 DEF PacketsInv
<1>10. NothingLost'
  BY <1>4, <1>6 DEF StreamInv, NothingLost, Returned, Unread
<1>11. ErrorInv'
  <2>1. err # "UnexpectedEOF" /\ (err = "EOF" => eofWithData)
    BY DEF StreamInv, ErrorInv
  <2>2. err = "PacketTooLarge" =>
          Len(packets) < Len(sent') /\ Len(sent'[Len(packets) + 1].packet.data) > MaxPacketSize
    <3> SUFFICES ASSUME err = "PacketTooLarge"
                 PROVE  Len(packets) < Len(sent') /\ Len(sent'[Len(packets) + 1].packet.data) > MaxPacketSize
      OBVIOUS
    <3>1. Len(packets) < Len(sent) /\ Len(sent[Len(packets) + 1].packet.data) > MaxPacketSize
      BY DEF StreamInv, ErrorInv
    <3>2. Len(packets) + 1 \in 1..Len(sent)
      BY <3>1, <1>2
    <3>3. sent'[Len(packets) + 1] = sent[Len(packets) + 1]
      BY <3>2, <1>5
    <3>4. Len(packets) < Len(sent')
      BY <3>1, <1>2, <1>5
    <3> QED BY <3>1, <3>3, <3>4
  <2> QED BY <2>1, <2>2, <1>6 DEF ErrorInv
<1> QED BY <1>7, <1>8, <1>9, <1>10, <1>11

\* The writer's steps preserve the invariant.
LEMMA WriterSteps ==
  ASSUME StreamInv,
         \/ \E m \in Messages : Write(m)
         \/ WritePiece \/ Close
         \/ \E k \in Bytes : WriteFails(k)
  PROVE  StreamInv'
<1>0. wire \in Seq(Byte) /\ <<>> \in Seq(Byte) /\ wire = wire \o <<>> /\ closed \in BOOLEAN
  BY ConcatEmptySeq, EmptySeq DEF StreamInv, StreamType
<1>1. ASSUME NEW m \in Messages, Write(m) PROVE StreamInv'
  <2>1. UNCHANGED reader /\ ~closed /\ wire' = wire \o <<>> /\ sent' = Append(sent, m) /\ closed' \in BOOLEAN
    BY <1>0, <1>1 DEF Write
  <2>2. StreamType' /\ CallInv' /\ PacketsInv' /\ NothingLost' /\ ErrorInv'
    BY <1>0, <2>1, WriterFrame
  <2> QED BY <1>1, <2>2, WriteWire DEF StreamInv
<1>2. CASE WritePiece \/ \E k \in Bytes : WriteFails(k)
  <2>1. UNCHANGED reader /\ ~closed /\ closed' \in BOOLEAN
    BY <1>0, <1>2 DEF WritePiece, WriteFails
  <2>2. PICK x \in Seq(Byte) : wire' = wire \o x /\ sent' = sent /\ WireInv'
    BY <1>2, PieceWire
  <2>3. StreamType' /\ CallInv' /\ PacketsInv' /\ NothingLost' /\ ErrorInv'
    BY <2>1, <2>2, WriterFrame
  <2> QED BY <2>2, <2>3 DEF StreamInv
<1>3. CASE Close
  <2>1. /\ UNCHANGED reader /\ ~closed /\ wire' = wire \o <<>> /\ sent' = sent /\ closed' = TRUE
        /\ writing' = <<>> /\ wire' = wire
    BY <1>0, <1>3 DEF Close
  <2>2. StreamType' /\ CallInv' /\ PacketsInv' /\ NothingLost' /\ ErrorInv'
    BY <1>0, <2>1, WriterFrame
  <2>3. WireInv'
    BY <2>1, Zenon DEF StreamInv, WireInv
  <2> QED BY <2>2, <2>3 DEF StreamInv
<1> QED BY <1>1, <1>2, <1>3

-----------------------------------------------------------------------------
(* The reader's steps.                                                     *)

\* The end of the end of a buffer.
LEMMA SuffixOfSuffix ==
  ASSUME NEW b \in Seq(Byte), NEW o \in 0..Len(b), NEW k \in 0..(Len(b) - o)
  PROVE  SubSeq(SubSeq(b, o + 1, Len(b)), k + 1, Len(SubSeq(b, o + 1, Len(b))))
           = SubSeq(b, (o + k) + 1, Len(b))
<1>1. Len(b) \in Nat
  BY LenProperties
<1> DEFINE u == SubSeq(b, o + 1, Len(b))
           v == SubSeq(u, k + 1, Len(u))
           z == SubSeq(b, (o + k) + 1, Len(b))
           h == SubSeq(b, 1, o)
           g == SubSeq(u, 1, k)
           f == SubSeq(b, 1, o + k)
<1>2. /\ u \in Seq(Byte) /\ Len(u) = Len(b) - o /\ h \in Seq(Byte) /\ h \o u = b
      /\ Len(h) = o
  BY Suffix
<1>3. o + k \in 0..Len(b)
  BY <1>1
<1>4. z \in Seq(Byte) /\ f \in Seq(Byte) /\ f \o z = b /\ Len(f) = o + k /\ Len(z) = Len(b) - (o + k)
  BY <1>3, Suffix
<1> HIDE DEF u
<1>5. k \in 0..Len(u)
  BY <1>2
<1>6. v \in Seq(Byte) /\ g \in Seq(Byte) /\ g \o v = u /\ Len(g) = k /\ Len(v) = Len(u) - k
  BY <1>2, <1>5, Suffix
<1> HIDE DEF v, z, h, g, f
<1>7. (h \o g) \o v = b
  <2>0. h \in Seq(Byte) /\ g \in Seq(Byte) /\ v \in Seq(Byte)
    BY <1>2, <1>6
  <2>1. (h \o g) \o v = h \o (g \o v)
    BY <2>0, ConcatAssociative, SMTT(30)
  <2> QED BY <2>1, <1>2, <1>6
<1>8. h \o g \in Seq(Byte) /\ Len(h \o g) = o + k
  BY <1>2, <1>6, ConcatProperties
<1>9. PICK a \in Seq(Byte) : a = h \o g
  BY <1>8
<1>10. Len(v) = Len(z)
  BY <1>1, <1>2, <1>4, <1>6
<1>11. ASSUME NEW i \in 1..Len(v) PROVE v[i] = z[i]
  <2>0. PICK j : j = o + k + i
    OBVIOUS
  <2>1. /\ j \in 1..(Len(a) + Len(v)) /\ j \in 1..(Len(f) + Len(z))
        /\ ~(j <= Len(a)) /\ j - Len(a) = i /\ ~(j <= Len(f)) /\ j - Len(f) = i
    <3>1. Len(a) = o + k /\ Len(f) = o + k /\ Len(v) \in Nat /\ Len(z) = Len(v)
      BY <1>4, <1>6, <1>8, <1>9, <1>10, LenProperties
    <3> QED BY <2>0, <3>1
  <2>2. (a \o v)[j] = v[i]
    <3>1. v \in Seq(Byte) /\ a \in Seq(Byte)
      BY <1>6
    <3>2. (a \o v)[j] = IF j <= Len(a) THEN a[j] ELSE v[j - Len(a)]
      BY <2>1, <3>1, ConcatProperties
    <3> QED BY <3>2, <2>1
  <2>3. (f \o z)[j] = z[i]
    <3>1. z \in Seq(Byte) /\ f \in Seq(Byte)
      BY <1>4
    <3>2. (f \o z)[j] = IF j <= Len(f) THEN f[j] ELSE z[j - Len(f)]
      BY <2>1, <3>1, ConcatProperties
    <3> QED BY <3>2, <2>1
  <2> QED BY <2>2, <2>3, <1>4, <1>7, <1>9
<1>12. v = z
  BY <1>4, <1>6, <1>10, <1>11, SeqEqual
<1> QED BY <1>12 DEF v, z, u

\* Unread bytes, as a sequence.
LEMMA UnreadType ==
  ASSUME StreamType
  PROVE  /\ Unread \in Seq(Byte) /\ Len(Unread) = Len(buf) - offset /\ Len(Unread) \in Nat
         /\ Len(buf) \in Nat /\ (offset = 0 => Unread = buf)
<1>1. Unread \in Seq(Byte) /\ Len(Unread) = Len(buf) - offset /\ (offset = 0 => Unread = buf)
  BY Suffix DEF StreamType, Unread
<1> QED BY <1>1, LenProperties DEF StreamType

\* ensureBytes moves and grows: the unread bytes stay the same, and there is
\* room for n bytes.
LEMMA PrepareEffect ==
  ASSUME StreamType, NEW n \in Nat, n <= HeaderSize + MaxPacketSize, Prepare(n),
         size = InitSize \/ size < 2 * (HeaderSize + MaxPacketSize)
  PROVE  /\ buf' \in Seq(Byte) /\ offset' \in 0..Len(buf') /\ size' \in Nat /\ Len(buf') <= size'
         /\ Unread' = Unread
         /\ Len(Unread) >= n \/ (offset' = 0 /\ n <= size')
         /\ size' = InitSize \/ size' < 2 * (HeaderSize + MaxPacketSize)
<1>1. /\ buf \in Seq(Byte) /\ offset \in 0..Len(buf) /\ size \in Nat /\ Len(buf) <= size
  BY DEF StreamType
<1>2. /\ Unread \in Seq(Byte) /\ Len(Unread) = Len(buf) - offset /\ Len(Unread) \in Nat
      /\ Len(buf) \in Nat
  BY UnreadType
<1>3. CASE Len(Unread) >= n
  <2>1. buf' = buf /\ offset' = offset /\ size' = size
    BY <1>3 DEF Prepare
  <2>2. Unread' = Unread
    BY <2>1 DEF Unread
  <2> QED BY <2>1, <2>2, <1>1, <1>3
<1>4. CASE ~(Len(Unread) >= n)
  <2>1. buf' = Unread /\ offset' = 0 /\ size' = Grown(n)
    BY <1>4 DEF Prepare
  <2>2. /\ Grown(n) \in Nat /\ Grown(n) >= n /\ Grown(n) >= size
        /\ Grown(n) = InitSize \/ Grown(n) < 2 * (HeaderSize + MaxPacketSize)
    BY <1>1, StreamAssumption DEF Grown
  <2>3. buf' \in Seq(Byte) /\ 0 \in 0..Len(buf') /\ Len(buf') <= Grown(n)
    BY <2>1, <2>2, <1>1, <1>2
  <2>4. SubSeq(buf', 0 + 1, Len(buf')) = buf'
    BY <2>3, Suffix
  <2>5. Unread' = Unread
    BY <2>1, <2>4 DEF Unread
  <2> QED BY <2>1, <2>2, <2>3, <2>5
<1> QED BY <1>3, <1>4

\* What the writer did stays as it is.
LEMMA WriterKept ==
  ASSUME WireInv, UNCHANGED writer
  PROVE  WireInv' /\ sent' = sent /\ wire' = wire /\ closed' = closed
<1>1. sent' = sent /\ wire' = wire /\ writing' = writing /\ closed' = closed
  BY DEF writer
<1> QED BY <1>1, Zenon DEF WireInv

\* The caller calls.
LEMMA CallStep ==
  ASSUME StreamInv, Call
  PROVE  StreamInv'
<1>1. /\ pc' = "header" /\ err = "none" /\ Prepare(HeaderSize)
      /\ taken' = taken /\ packets' = packets /\ err' = err /\ eofWithData' = eofWithData
      /\ UNCHANGED writer
  BY DEF Call
<1>2. StreamType /\ WireInv /\ CallInv /\ PacketsInv /\ NothingLost /\ ErrorInv
  BY DEF StreamInv
<1>3. WireInv' /\ sent' = sent /\ wire' = wire /\ closed' = closed
  BY <1>1, <1>2, WriterKept
<1>4. /\ buf' \in Seq(Byte) /\ offset' \in 0..Len(buf') /\ size' \in Nat /\ Len(buf') <= size'
      /\ Unread' = Unread
      /\ Len(Unread) >= HeaderSize \/ (offset' = 0 /\ HeaderSize <= size')
      /\ size' = InitSize \/ size' < 2 * (HeaderSize + MaxPacketSize)
  <2>1. HeaderSize \in Nat /\ HeaderSize <= HeaderSize + MaxPacketSize
    BY StreamAssumption
  <2> QED BY <1>1, <1>2, <2>1, PrepareEffect DEF CallInv
<1>5. StreamType'
  BY <1>1, <1>2, <1>3, <1>4 DEF StreamType
<1>6. CallInv'
  <2>1. Need' = HeaderSize
    BY <1>1 DEF Need
  <2> QED BY <1>1, <1>4, <2>1 DEF CallInv
<1>7. PacketsInv'
  BY <1>1, <1>2, <1>3 DEF PacketsInv
<1>8. NothingLost'
  BY <1>1, <1>2, <1>3, <1>4 DEF NothingLost, Returned
<1>9. ErrorInv'
  BY <1>1 DEF ErrorInv
<1> QED BY <1>3, <1>5, <1>6, <1>7, <1>8, <1>9 DEF StreamInv

\* The header is there.
LEMMA ParseHeaderStep ==
  ASSUME StreamInv, ParseHeader
  PROVE  StreamInv'
<1>1. /\ pc = "header" /\ Len(Unread) >= HeaderSize
      /\ taken' = taken /\ packets' = packets /\ eofWithData' = eofWithData
      /\ UNCHANGED writer
  BY DEF ParseHeader
<1>2. StreamType /\ WireInv /\ CallInv /\ PacketsInv /\ NothingLost /\ ErrorInv
  BY DEF StreamInv
<1>3. WireInv' /\ sent' = sent /\ wire' = wire /\ closed' = closed
  BY <1>1, <1>2, WriterKept
<1>4. /\ Length \in Nat /\ Len(packets) < Len(sent)
      /\ Length = Len(sent[Len(packets) + 1].packet.data)
  BY <1>1, <1>2, NextKnown
<1>5. err = "none"
  BY <1>1, <1>2 DEF CallInv
<1>6. PacketsInv'
  BY <1>1, <1>2, <1>3 DEF PacketsInv
<1>7. CASE Length > MaxPacketSize
  <2>1. pc' = "idle" /\ err' = "PacketTooLarge" /\ buf' = buf /\ size' = size /\ offset' = offset
    BY <1>7 DEF ParseHeader
  <2>2. StreamType'
    BY <1>1, <1>2, <1>3, <2>1 DEF StreamType
  <2>3. CallInv'
    BY <1>2, <2>1 DEF CallInv
  <2>4. NothingLost'
    BY <1>1, <1>2, <1>3, <2>1 DEF NothingLost, Returned, Unread
  <2>5. ErrorInv'
    BY <1>1, <1>3, <1>4, <1>7, <2>1 DEF ErrorInv
  <2> QED BY <1>3, <1>6, <2>2, <2>3, <2>4, <2>5 DEF StreamInv
<1>8. CASE ~(Length > MaxPacketSize)
  <2>1. pc' = "body" /\ err' = err /\ Prepare(HeaderSize + Length)
    BY <1>8 DEF ParseHeader
  <2>2. HeaderSize + Length \in Nat /\ HeaderSize + Length <= HeaderSize + MaxPacketSize
    BY <1>4, <1>8, StreamAssumption
  <2>3. /\ buf' \in Seq(Byte) /\ offset' \in 0..Len(buf') /\ size' \in Nat /\ Len(buf') <= size'
        /\ Unread' = Unread
        /\ Len(Unread) >= HeaderSize + Length \/ (offset' = 0 /\ HeaderSize + Length <= size')
        /\ size' = InitSize \/ size' < 2 * (HeaderSize + MaxPacketSize)
    BY <1>2, <2>1, <2>2, PrepareEffect DEF CallInv
  <2>4. Length' = Length
    BY <2>3 DEF Length
  <2>5. Need' = HeaderSize + Length
    BY <2>1, <2>4 DEF Need
  <2>6. StreamType'
    BY <1>1, <1>2, <1>3, <2>1, <2>3 DEF StreamType
  <2>7. CallInv'
    <3>1. Length <= MaxPacketSize
      BY <1>4, <1>8, StreamAssumption
    <3> QED BY <1>1, <1>5, <2>1, <2>3, <2>4, <2>5, <3>1 DEF CallInv
  <2>8. NothingLost'
    BY <1>1, <1>2, <1>3, <2>3 DEF NothingLost, Returned
  <2>9. ErrorInv'
    BY <1>5, <2>1 DEF ErrorInv
  <2> QED BY <1>3, <1>6, <2>6, <2>7, <2>8, <2>9 DEF StreamInv
<1> QED BY <1>7, <1>8

\* The packet is returned: it is the next one sent.
LEMMA ReturnStep ==
  ASSUME StreamInv, Return
  PROVE  StreamInv'
<1>1. /\ pc = "body" /\ Len(Unread) >= Need /\ pc' = "idle" /\ offset' = offset + Need
      /\ packets' = Append(packets, [id |-> ID, data |-> SubSeq(Unread, HeaderSize + 1, Need)])
      /\ taken' = taken /\ buf' = buf /\ size' = size /\ err' = err /\ eofWithData' = eofWithData
      /\ UNCHANGED writer
  BY DEF Return
<1>2. StreamType /\ WireInv /\ CallInv /\ PacketsInv /\ NothingLost /\ ErrorInv
  BY DEF StreamInv
<1>3. WireInv' /\ sent' = sent /\ wire' = wire /\ closed' = closed
  BY <1>1, <1>2, WriterKept
<1>4. Need = HeaderSize + Length /\ Len(Unread) >= HeaderSize
  BY <1>1, <1>2 DEF Need, CallInv
<1>5. PICK p \in PacketSet :
        /\ p = sent[Len(packets) + 1].packet /\ Len(packets) < Len(sent)
        /\ Length \in Nat /\ ID = p.id
        /\ SubSeq(Unread, HeaderSize + 1, Need) = p.data
        /\ Unread = Frame(p) \o SubSeq(Unread, Need + 1, Len(Unread))
  <2>1. Len(Unread) >= HeaderSize + Length
    BY <1>1, <1>4
  <2> QED BY <2>1, <1>2, <1>4, NextKnown
<1>6. packets' = Append(packets, p)
  <2>1. p = [id |-> p.id, data |-> p.data]
    BY DEF PacketSet
  <2> QED BY <1>1, <1>5, <2>1
<1>7. /\ packets \in Seq(PacketSet) /\ Len(packets) \in Nat /\ Len(sent) \in Nat
      /\ packets' \in Seq(PacketSet) /\ Len(packets') = Len(packets) + 1
      /\ packets'[Len(packets) + 1] = p
      /\ \A i \in 1..Len(packets) : packets'[i] = packets[i]
  BY <1>2, <1>6, AppendProperties, LenProperties DEF StreamType
<1>8. Need \in Nat /\ offset + Need \in 0..Len(buf)
  BY <1>1, <1>2, <1>4, <1>5, UnreadType, StreamAssumption, SMTT(30) DEF StreamType
<1>9. StreamType'
  <2>1. Len(packets') <= Len(sent)
    BY <1>5, <1>7
  <2> QED BY <2>1, <1>1, <1>2, <1>3, <1>7, <1>8 DEF StreamType
<1>10. err = "none"
  BY <1>1, <1>2 DEF CallInv
<1>11. CallInv'
  BY <1>1, <1>2 DEF CallInv
<1>12. PacketsInv'
  <2>1. ASSUME NEW i \in 1..Len(packets') PROVE packets'[i] = sent[i].packet
    <3>1. CASE i = Len(packets) + 1
      BY <3>1, <1>5, <1>7
    <3>2. CASE i # Len(packets) + 1
      <4>1. i \in 1..Len(packets)
        BY <3>2, <1>7
      <4> QED BY <4>1, <1>2, <1>7 DEF PacketsInv
    <3> QED BY <3>1, <3>2
  <2> QED BY <2>1, <1>3 DEF PacketsInv
<1>13. NothingLost'
  <2> DEFINE v == SubSeq(Unread, Need + 1, Len(Unread))
  <2>1. Unread' = v
    <3>1. buf \in Seq(Byte) /\ offset \in 0..Len(buf) /\ Need \in 0..(Len(buf) - offset)
      BY <1>1, <1>2, <1>8, UnreadType DEF StreamType
    <3>2. v = SubSeq(buf, (offset + Need) + 1, Len(buf))
      BY <3>1, SuffixOfSuffix DEF Unread
    <3> HIDE DEF v
    <3> QED BY <3>2, <1>1 DEF Unread
  <2>2. v \in Seq(Byte)
    <3>1. Unread \in Seq(Byte) /\ Need \in 0..Len(Unread)
      BY <1>1, <1>2, <1>8, UnreadType
    <3> QED BY <3>1, Suffix
  <2>3. Returned' = Returned \o Frame(p) /\ Returned \in Seq(Byte) /\ Frame(p) \in Seq(Byte)
    BY <1>6, <1>7, FramedAppend, FrameType DEF Returned
  <2>4. (Returned \o Frame(p)) \o v = Returned \o (Frame(p) \o v)
    <3> HIDE DEF v
    <3> QED BY <2>2, <2>3, ConcatAssoc, Zenon
  <2>5. Returned \o Unread = SubSeq(wire, 1, taken)
    BY <1>2 DEF NothingLost
  <2>6. Unread = Frame(p) \o v
    BY <1>5
  <2> HIDE DEF v
  <2>7. Returned' \o Unread' = SubSeq(wire, 1, taken)
    BY <2>1, <2>3, <2>4, <2>5, <2>6, Zenon
  <2> QED BY <2>7, <1>1, <1>3 DEF NothingLost
<1>14. ErrorInv'
  BY <1>1, <1>10 DEF ErrorInv
<1> QED BY <1>3, <1>9, <1>11, <1>12, <1>13, <1>14 DEF StreamInv

\* When what the stream does not have belongs to the last packet, and what it
\* has ends within packet n + 1, that is the last one.
LEMMA EndsInLast ==
  ASSUME NEW ps \in Seq(PacketSet), NEW n \in 0..(Len(ps) - 1),
         NEW w \in Seq(Byte), NEW t \in Seq(Byte), w \o t = Framed(ps),
         Len(t) <= Len(Frame(ps[Len(ps)])),
         Len(w) < Len(Framed(SubSeq(ps, 1, n))) + Len(Frame(ps[n + 1]))
  PROVE  Len(ps) = n + 1
<1> DEFINE f == Len(ps) - 1
<1>0. Len(ps) \in Nat /\ f \in 0..(Len(ps) - 1) /\ f + 1 = Len(ps) /\ n <= f
  BY LenProperties
<1> HIDE DEF f
<1>a. n = f \/ n + 1 <= f
  BY <1>0
<1>1. SUFFICES ASSUME n + 1 <= f PROVE FALSE
  BY <1>0, <1>a
<1> DEFINE front == SubSeq(ps, 1, f)
<1>2. front \in Seq(PacketSet) /\ Len(front) = f /\ ps[f + 1] \in PacketSet
      /\ SubSeq(ps, 1, f + 1) = Append(front, ps[f + 1])
  BY <1>0, PrefixNext
<1>3. SubSeq(ps, 1, f + 1) = ps
  BY <1>0, SubSeqFull
<1> HIDE DEF front
<1>4. Framed(ps) = Framed(front) \o Frame(ps[f + 1]) /\ Framed(front) \in Seq(Byte)
      /\ Frame(ps[f + 1]) \in Seq(Byte)
  BY <1>2, <1>3, FramedAppend, FrameType
<1>5. Len(Framed(ps)) = Len(Framed(front)) + Len(Frame(ps[f + 1]))
  BY <1>4, ConcatType
<1>6. Len(Framed(ps)) = Len(w) + Len(t)
  BY ConcatType
<1>7. n + 1 \in 0..Len(front) /\ n \in 0..(Len(ps) - 1)
  BY <1>0, <1>1, <1>2
<1>8. PICK r \in Seq(Byte) : Framed(front) = Framed(SubSeq(front, 1, n + 1)) \o r
  BY <1>2, <1>7, FramedPrefix
<1>9. SubSeq(front, 1, n + 1) = SubSeq(ps, 1, n + 1)
  <2>1. 1 \in 1..Len(ps) /\ f \in 1..Len(ps) /\ 1 \in 1..(f - 1 + 1) /\ n + 1 \in 1..(f - 1 + 1)
    BY <1>0, <1>1
  <2>2. SubSeq(SubSeq(ps, 1, f), 1, n + 1) = SubSeq(ps, 1 + 1 - 1, 1 + (n + 1) - 1)
    BY <2>1, SubSeqOfSubSeq
  <2>3. 1 + 1 - 1 = 1 /\ 1 + (n + 1) - 1 = n + 1
    OBVIOUS
  <2> QED BY <2>2, <2>3, Zenon DEF front
<1>10. /\ SubSeq(ps, 1, n) \in Seq(PacketSet) /\ ps[n + 1] \in PacketSet
       /\ SubSeq(ps, 1, n + 1) = Append(SubSeq(ps, 1, n), ps[n + 1])
  BY PrefixNext
<1>11. /\ Framed(SubSeq(ps, 1, n + 1)) = Framed(SubSeq(ps, 1, n)) \o Frame(ps[n + 1])
       /\ Framed(SubSeq(ps, 1, n)) \in Seq(Byte) /\ Frame(ps[n + 1]) \in Seq(Byte)
  BY <1>10, FramedAppend, FrameType
<1>12. /\ Framed(SubSeq(ps, 1, n + 1)) \in Seq(Byte)
       /\ Len(Framed(SubSeq(ps, 1, n + 1))) = Len(Framed(SubSeq(ps, 1, n))) + Len(Frame(ps[n + 1]))
  BY <1>11, ConcatType
<1>13. Len(Framed(front)) = Len(Framed(SubSeq(ps, 1, n + 1))) + Len(r) /\ Len(r) \in Nat
  <2>1. Framed(front) = Framed(SubSeq(ps, 1, n + 1)) \o r
    BY <1>8, <1>9
  <2> QED BY <2>1, <1>12, ConcatType, LenProperties, Zenon
<1>14. /\ Len(w) \in Nat /\ Len(t) \in Nat /\ Len(Framed(front)) \in Nat
       /\ Len(Frame(ps[f + 1])) \in Nat /\ Len(Framed(SubSeq(ps, 1, n))) \in Nat
       /\ Len(Frame(ps[n + 1])) \in Nat
  BY <1>4, <1>11, LenProperties
<1>15. Len(Frame(ps[f + 1])) = Len(Frame(ps[Len(ps)]))
  BY <1>0
<1>16. Len(w) >= Len(Framed(front))
  BY <1>5, <1>6, <1>14, <1>15
<1> QED BY <1>12, <1>13, <1>14, <1>16, SMTT(30)

\* A part of what the stream has.
LEMMA Slice ==
  ASSUME NEW w \in Seq(Byte), NEW a \in 0..Len(w), NEW k \in Nat, a + k <= Len(w)
  PROVE  /\ SubSeq(w, a + 1, a + k) \in Seq(Byte) /\ Len(SubSeq(w, a + 1, a + k)) = k
         /\ SubSeq(w, 1, a) \o SubSeq(w, a + 1, a + k) = SubSeq(w, 1, a + k)
<1>0. Len(w) \in Nat /\ \A i \in 1..Len(w) : w[i] \in Byte
  BY LenProperties, ElementOfSeq
<1>1. a + 1 \in Int /\ a + k \in Int /\ \A i \in (a + 1)..(a + k) : w[i] \in Byte
  BY <1>0
<1>2. /\ SubSeq(w, a + 1, a + k) \in Seq(Byte)
      /\ Len(SubSeq(w, a + 1, a + k)) = IF a + 1 <= a + k THEN a + k - (a + 1) + 1 ELSE 0
  BY <1>1, SubSeqProperties
<1>3. 1 \in 1..(Len(w) + 1) /\ a \in (1 - 1)..Len(w) /\ a + k \in a..Len(w)
  BY <1>0
<1>4. SubSeq(w, 1, a) \o SubSeq(w, a + 1, a + k) = SubSeq(w, 1, a + k)
  BY <1>3, ConcatAdjacentSubSeq
<1>5. Len(SubSeq(w, a + 1, a + k)) = k
  BY <1>2
<1> QED BY <1>2, <1>4, <1>5

\* One Read of the stream.
LEMMA ReadStep ==
  ASSUME StreamInv, NEW k \in Bytes, NEW eof \in BOOLEAN, Read(k, eof)
  PROVE  StreamInv'
<1> DEFINE y == SubSeq(wire, taken + 1, taken + k)
<1>1. /\ pc # "idle" /\ Len(Unread) < Need
      /\ k <= size - Len(buf) /\ k <= Len(wire) - taken
      /\ eof => closed /\ taken + k = Len(wire)
      /\ k > 0 \/ eof
      /\ buf' = buf \o y /\ taken' = taken + k
      /\ err' = IF eof THEN ErrorAtEOF(Len(buf) + k) ELSE err
      /\ pc' = IF eof THEN "idle" ELSE pc
      /\ eofWithData' = (eof /\ k > 0)
      /\ size' = size /\ offset' = offset /\ packets' = packets /\ UNCHANGED writer
  BY DEF Read
<1>2. StreamType /\ WireInv /\ CallInv /\ PacketsInv /\ NothingLost /\ ErrorInv
  BY DEF StreamInv
<1>3. WireInv' /\ sent' = sent /\ wire' = wire /\ closed' = closed
  BY <1>1, <1>2, WriterKept
<1>4. /\ buf \in Seq(Byte) /\ wire \in Seq(Byte) /\ Len(buf) \in Nat /\ Len(wire) \in Nat
      /\ taken \in 0..Len(wire) /\ k \in Nat /\ size \in Nat /\ Len(buf) <= size
  BY <1>2, LenProperties, StreamAssumption DEF StreamType, Bytes
<1>5. /\ pc = "header" => Need = HeaderSize
      /\ pc = "body" => Need = HeaderSize + Length /\ Length \in Nat /\ Len(Unread) >= HeaderSize
      /\ pc = "body" => Length = Len(sent[Len(packets) + 1].packet.data)
      /\ pc \in {"header", "body"} /\ Need \in Nat /\ HeaderSize \in Nat /\ HeaderSize > 0
  <2>1. pc = "body" => /\ Len(Unread) >= HeaderSize /\ Length \in Nat
                       /\ Length = Len(sent[Len(packets) + 1].packet.data)
    BY <1>2, NextKnown DEF CallInv
  <2>2. pc \in {"header", "body"} /\ HeaderSize \in Nat /\ HeaderSize > 0
    BY <1>1, <1>2, StreamAssumption DEF StreamType
  <2>3. CASE pc = "header"
    BY <2>2, <2>3 DEF Need
  <2>4. CASE pc = "body"
    BY <2>1, <2>2, <2>4 DEF Need
  <2> QED BY <2>2, <2>3, <2>4, <2>1
<1>6. offset = 0 /\ Need <= size /\ err = "none" /\ Unread = buf
  <2>1. Len(Unread) \in Nat /\ (offset = 0 => Unread = buf)
    BY <1>2, UnreadType
  <2> QED BY <2>1, <1>1, <1>2, <1>5 DEF CallInv
<1>7. y \in Seq(Byte) /\ Len(y) = k /\ SubSeq(wire, 1, taken) \o y = SubSeq(wire, 1, taken + k)
  <2>1. taken + k <= Len(wire)
    BY <1>1, <1>4
  <2> QED BY <2>1, <1>4, Slice
<1> HIDE DEF y
<1>8. buf' \in Seq(Byte) /\ Len(buf') = Len(buf) + k
  BY <1>1, <1>4, <1>7, ConcatType
<1>9. Unread' = buf'
  <2>1. 0 \in 0..Len(buf')
    BY <1>4, <1>8
  <2>2. SubSeq(buf', 0 + 1, Len(buf')) = buf'
    BY <2>1, <1>8, Suffix
  <2> QED BY <2>2, <1>1, <1>6 DEF Unread
<1>10. StreamType'
  <2>1. taken + k \in 0..Len(wire) /\ 0 \in 0..Len(buf') /\ Len(buf') <= size
    BY <1>1, <1>4, <1>8
  <2>2. err' \in {"none", "EOF", "UnexpectedEOF", "PacketTooLarge"}
    BY <1>1, <1>2 DEF ErrorAtEOF, StreamType
  <2>3. pc' \in {"idle", "header", "body"}
    BY <1>1, <1>2 DEF StreamType
  <2> QED BY <2>1, <2>2, <2>3, <1>1, <1>2, <1>3, <1>6, <1>8 DEF StreamType
<1>11. PacketsInv'
  BY <1>1, <1>2, <1>3 DEF PacketsInv
<1>12. Returned \in Seq(Byte) /\ Returned' = Returned
  BY <1>1, <1>2, FramedType DEF StreamType, Returned
<1>13. Returned \o buf' = SubSeq(wire, 1, taken + k)
  <2>0. Returned \in Seq(Byte) /\ buf \in Seq(Byte) /\ y \in Seq(Byte)
    BY <1>4, <1>7, <1>12
  <2>1. (Returned \o buf) \o y = Returned \o (buf \o y)
    BY <2>0, ConcatAssoc, Zenon
  <2>2. Returned \o buf = SubSeq(wire, 1, taken)
    BY <1>2, <1>6 DEF NothingLost
  <2> QED BY <2>1, <2>2, <1>1, <1>7
<1>14. NothingLost'
  BY <1>1, <1>3, <1>9, <1>12, <1>13 DEF NothingLost
<1>15. CallInv'
  <2>1. CASE eof
    BY <2>1, <1>1, <1>2 DEF CallInv
  <2>2. CASE ~eof
    <3>1. pc' = pc /\ err' = err
      BY <2>2, <1>1
    <3>2. pc = "body" => Length' = Length
      <4> SUFFICES ASSUME pc = "body" PROVE Length' = Length
        OBVIOUS
      <4>1. Field \in 1..HeaderSize /\ 1 \in 1..HeaderSize
        BY StreamAssumption DEF Field
      <4>2. Field \in 1..Len(buf) /\ 1 \in 1..Len(buf)
        BY <4>1, <1>4, <1>5, <1>6
      <4>3. SubSeq(buf \o y, 1, Field) = SubSeq(buf, 1, Field)
        BY <4>2, <1>4, <1>7, SubSeqOfConcat1
      <4> QED BY <4>3, <1>1, <1>6, <1>9 DEF Length
    <3>3. Need' = Need
      BY <3>1, <3>2, <1>5 DEF Need
    <3>4. pc = "body" => Len(buf') >= HeaderSize /\ Length <= MaxPacketSize
      BY <1>2, <1>4, <1>5, <1>6, <1>8 DEF CallInv
    <3> QED BY <3>1, <3>2, <3>3, <3>4, <1>1, <1>2, <1>6, <1>9 DEF CallInv
  <2> QED BY <2>1, <2>2
<1>16. ErrorInv'
  <2>1. CASE ~eof
    BY <2>1, <1>1, <1>6 DEF ErrorInv
  <2>2. CASE eof
    <3>1. closed' /\ wire' = wire /\ wire = Returned \o buf' /\ packets' = packets /\ sent' = sent
      BY <2>2, <1>1, <1>3, <1>4, <1>13, SubSeqFull
    <3>2. Len(wire) = Len(Returned) + Len(buf') /\ Len(Returned) \in Nat /\ Len(buf') \in Nat
      BY <3>1, <1>8, <1>12, ConcatType, LenProperties
    <3>3. CASE err' = "EOF"
      <4>1. ~(Len(buf') > 0 /\ Len(buf') < Need)
        BY <3>3, <2>2, <1>1, <1>8 DEF ErrorAtEOF
      <4>2. CASE Len(buf') = 0
        <5>1. buf' = <<>>
          BY <4>2, <1>8, EmptySeq
        <5>2. wire = Returned
          BY <5>1, <3>1, <1>12, ConcatEmptySeq
        <5> QED BY <5>2, <3>1, <3>3, <1>12 DEF ErrorInv
      <4>3. CASE Len(buf') >= Need
        <5>1. k > 0
          BY <4>3, <1>1, <1>4, <1>5, <1>6, <1>8
        <5>2. eofWithData'
          BY <5>1, <2>2, <1>1
        <5> QED BY <5>2, <3>3 DEF ErrorInv
      <4> QED BY <4>1, <4>2, <4>3, <3>2, <1>5
    <3>4. CASE err' = "UnexpectedEOF"
      <4>1. Len(buf') > 0 /\ Len(buf') < Need
        BY <3>4, <2>2, <1>1, <1>8 DEF ErrorAtEOF
      <4>2. wire # Returned
        BY <4>1, <3>2
      <4> DEFINE ps == PacketsOf(sent)
                 n == Len(packets)
      <4>3. /\ ps \in Seq(PacketSet) /\ Len(ps) = Len(sent) /\ Len(sent) \in Nat
            /\ \A i \in 1..Len(sent) : ps[i] = sent[i].packet
        BY <1>2, PacketsOfType, LenProperties DEF StreamType
      <4>4. n \in 0..Len(ps) /\ Returned = Framed(SubSeq(ps, 1, n))
        <5>1. packets = SubSeq(PacketsOf(sent), 1, Len(packets))
          BY <1>2, Position
        <5>2. n \in Nat /\ n <= Len(sent)
          BY <1>2, LenProperties DEF StreamType
        <5>3. n \in 0..Len(ps)
          BY <5>2, <4>3
        <5>4. Returned = Framed(SubSeq(ps, 1, n))
          BY <5>1, Zenon DEF Returned
        <5> QED BY <5>3, <5>4
      <4>5. PICK t \in Seq(Byte) :
              /\ wire \o t = Framed(ps)
              /\ t # <<>> => Len(t) <= Len(Frame(sent[Len(sent)].packet))
        BY <1>2 DEF WireInv
      <4> HIDE DEF ps
      <4>6. n < Len(ps)
        <5>1. (Returned \o buf') \o t = Returned \o (buf' \o t)
          <6>1. Returned \in Seq(Byte) /\ buf' \in Seq(Byte) /\ t \in Seq(Byte)
            BY <1>8, <1>12
          <6> QED BY <6>1, ConcatAssoc, Zenon
        <5>2. PICK u \in Seq(Byte) : u = buf'
          BY <1>8
        <5>3. Framed(SubSeq(ps, 1, n)) \o (u \o t) = Framed(ps) /\ Len(u) > 0
          BY <5>1, <5>2, <4>1, <4>4, <4>5, <3>1
        <5> QED BY <5>3, <4>3, <4>4, NextFrame
      <4>7. n \in 0..(Len(ps) - 1) /\ n + 1 \in 1..Len(sent) /\ Len(ps) \in 1..Len(sent)
        BY <4>3, <4>4, <4>6
      <4>8. ps[n + 1] = sent[n + 1].packet /\ ps[Len(ps)] = sent[Len(sent)].packet
        BY <4>3, <4>7
      <4>9. ps[n + 1] \in PacketSet /\ ps[Len(ps)] \in PacketSet
        BY <4>3, <4>7, ElementOfSeq
      <4>10. /\ Len(Frame(ps[n + 1])) = HeaderSize + Len(ps[n + 1].data)
             /\ Len(ps[n + 1].data) \in Nat /\ Len(Frame(ps[Len(ps)])) \in Nat
        BY <4>9, FrameType, LenProperties DEF PacketSet
      <4>11. Need <= Len(Frame(ps[n + 1]))
        <5>1. CASE pc = "header"
          BY <5>1, <1>5, <4>10
        <5>2. CASE pc = "body"
          BY <5>2, <1>5, <4>8, <4>10
        <5> QED BY <5>1, <5>2, <1>5
      <4>12. Len(t) <= Len(Frame(ps[Len(ps)]))
        <5>1. CASE t = <<>>
          BY <5>1, <4>10, EmptySeq
        <5>2. CASE t # <<>>
          BY <5>2, <4>5, <4>8
        <5> QED BY <5>1, <5>2
      <4>13. Len(wire) < Len(Returned) + Len(Frame(ps[n + 1]))
        BY <4>1, <4>10, <4>11, <3>2, <1>5, SMTT(30)
      <4>14. Len(ps) = n + 1
        <5>1. PICK w \in Seq(Byte) : w = wire
          BY <1>4
        <5>2. w \o t = Framed(ps) /\ Len(w) < Len(Framed(SubSeq(ps, 1, n))) + Len(Frame(ps[n + 1]))
          BY <5>1, <4>4, <4>5, <4>13
        <5> QED BY <5>2, <4>3, <4>7, <4>12, EndsInLast
      <4> QED BY <3>1, <3>4, <4>2, <4>3, <4>8, <4>13, <4>14, <1>12 DEF ErrorInv
    <3> QED BY <3>3, <3>4, <2>2, <1>1 DEF ErrorAtEOF, ErrorInv
  <2> QED BY <2>1, <2>2
<1> QED BY <1>3, <1>10, <1>11, <1>14, <1>15, <1>16 DEF StreamInv

\* A stream that has not begun.
LEMMA NothingYet ==
  /\ Framed(<<>>) = <<>> /\ PacketsOf(<<>>) = <<>> /\ <<>> \o <<>> = <<>>
  /\ SubSeq(<<>>, 1, 0) = <<>> /\ Len(<<>>) = 0
<1>1. PacketsOf(<<>>) = <<>>
  BY DEF PacketsOf
<1>2. SubSeq(<<>>, 1, 0) = <<>>
  BY SubSeqEmpty
<1>3. <<>> \in Seq(Byte) /\ Len(<<>>) = 0
  BY EmptySeq
<1>4. <<>> \o <<>> = <<>>
  BY <1>3, ConcatEmptySeq
<1> QED BY <1>1, <1>2, <1>3, <1>4, FramedEmpty

\* The initial state.
LEMMA InitInv == Init => StreamInv
<1> SUFFICES ASSUME Init PROVE StreamInv
  OBVIOUS
<1>1. /\ sent = <<>> /\ wire = <<>> /\ writing = <<>> /\ closed = FALSE
      /\ taken = 0 /\ packets = <<>> /\ err = "none" /\ pc = "idle"
      /\ buf = <<>> /\ size = InitSize /\ offset = 0
  BY DEF Init
<1>e. /\ <<>> \in Seq(Byte) /\ <<>> \in Seq(Messages) /\ <<>> \in Seq(PacketSet) /\ Len(<<>>) = 0
  BY EmptySeq
<1>2. StreamType
  <2>1. Len(wire) = 0 /\ Len(buf) = 0 /\ Len(packets) = 0 /\ Len(sent) = 0
    BY <1>1, <1>e, Zenon
  <2>2. /\ taken \in 0..Len(wire) /\ offset \in 0..Len(buf) /\ size \in Nat
        /\ Len(buf) <= size /\ Len(packets) <= Len(sent)
    BY <2>1, <1>1, StreamAssumption
  <2>3. sent \in Seq(Messages) /\ wire \in Seq(Byte) /\ buf \in Seq(Byte) /\ packets \in Seq(PacketSet)
    BY <1>1, <1>e, Zenon
  <2> QED BY <1>1, <2>2, <2>3, Zenon DEF StreamType
<1>3. WireInv
  <2>1. wire \o <<>> = Framed(PacketsOf(sent))
    BY <1>1, NothingYet
  <2> QED BY <2>1, <1>1, <1>e, Zenon DEF WireInv
<1>4. CallInv
  BY <1>1 DEF CallInv
<1>5. PacketsInv
  BY <1>1, <1>e DEF PacketsInv
<1>6. NothingLost
  <2>1. Unread = <<>>
    BY <1>1, SubSeqEmpty DEF Unread
  <2> QED BY <2>1, <1>1, NothingYet DEF NothingLost, Returned
<1>7. ErrorInv
  BY <1>1 DEF ErrorInv
<1> QED BY <1>2, <1>3, <1>4, <1>5, <1>6, <1>7 DEF StreamInv

\* Both ends turn to a new stream.
LEMMA ResetStep ==
  ASSUME StreamInv, Reset
  PROVE  StreamInv'
<1>1. /\ sent' = <<>> /\ wire' = <<>> /\ writing' = <<>> /\ closed' = FALSE
      /\ taken' = 0 /\ packets' = <<>> /\ err' = "none" /\ pc' = "idle"
      /\ buf' = <<>> /\ size' = size /\ offset' = 0
  BY DEF Reset, NewStream
<1>e. /\ <<>> \in Seq(Byte) /\ <<>> \in Seq(Messages) /\ <<>> \in Seq(PacketSet) /\ Len(<<>>) = 0
  BY EmptySeq
<1>s. size \in Nat /\ (size = InitSize \/ size < 2 * (HeaderSize + MaxPacketSize))
  BY DEF StreamInv, StreamType, CallInv
<1>2. StreamType'
  <2>1. Len(wire') = 0 /\ Len(buf') = 0 /\ Len(packets') = 0 /\ Len(sent') = 0
    BY <1>1, <1>e, Zenon
  <2>2. /\ taken' \in 0..Len(wire') /\ offset' \in 0..Len(buf') /\ size' \in Nat
        /\ Len(buf') <= size' /\ Len(packets') <= Len(sent')
    BY <2>1, <1>1, <1>s
  <2>3. sent' \in Seq(Messages) /\ wire' \in Seq(Byte) /\ buf' \in Seq(Byte) /\ packets' \in Seq(PacketSet)
    BY <1>1, <1>e, Zenon
  <2> QED BY <1>1, <2>2, <2>3, Zenon DEF StreamType
<1>3. WireInv'
  <2>1. wire' \o <<>> = Framed(PacketsOf(sent'))
    BY <1>1, NothingYet
  <2> QED BY <2>1, <1>1, <1>e, Zenon DEF WireInv
<1>4. CallInv'
  BY <1>1, <1>s DEF CallInv
<1>5. PacketsInv'
  BY <1>1, <1>e DEF PacketsInv
<1>6. NothingLost'
  <2>1. Unread' = <<>>
    BY <1>1, SubSeqEmpty DEF Unread
  <2> QED BY <2>1, <1>1, NothingYet DEF NothingLost, Returned
<1>7. ErrorInv'
  BY <1>1 DEF ErrorInv
<1> QED BY <1>2, <1>3, <1>4, <1>5, <1>6, <1>7 DEF StreamInv

-----------------------------------------------------------------------------
(* The theorems.                                                           *)

\* Every step of the writer, of the stream and of the reader preserves the
\* inductive invariant.
LEMMA StreamInvariant == Spec => []StreamInv
<1>1. ASSUME StreamInv, [Next]_vars PROVE StreamInv'
  <2>1. CASE \/ \E m \in Messages : Write(m)
             \/ WritePiece \/ Close
             \/ \E k \in Bytes : WriteFails(k)
    BY <1>1, <2>1, WriterSteps
  <2>2. CASE Call
    BY <1>1, <2>2, CallStep
  <2>3. CASE ParseHeader
    BY <1>1, <2>3, ParseHeaderStep
  <2>4. CASE Return
    BY <1>1, <2>4, ReturnStep
  <2>5. CASE \E k \in Bytes, eof \in BOOLEAN : Read(k, eof)
    BY <1>1, <2>5, ReadStep
  <2>6. CASE Reset
    BY <1>1, <2>6, ResetStep
  <2>7. CASE UNCHANGED vars
    <3>1. /\ sent' = sent /\ wire' = wire /\ writing' = writing /\ closed' = closed
          /\ taken' = taken /\ buf' = buf /\ size' = size /\ offset' = offset /\ pc' = pc
          /\ packets' = packets /\ err' = err /\ eofWithData' = eofWithData
      BY <2>7 DEF vars, writer, reader
    <3>2. Unread' = Unread /\ Returned' = Returned /\ Length' = Length /\ Need' = Need
      BY <3>1 DEF Unread, Returned, Length, Need
    <3>3. StreamType' /\ CallInv' /\ PacketsInv'
      BY <1>1, <3>1, <3>2 DEF StreamInv, StreamType, CallInv, PacketsInv
    <3>4. WireInv'
      BY <1>1, <2>7, WriterKept DEF StreamInv, vars
    <3>5. NothingLost' /\ ErrorInv'
      BY <1>1, <3>1, <3>2 DEF StreamInv, NothingLost, ErrorInv
    <3> QED BY <3>3, <3>4, <3>5 DEF StreamInv
  <2> QED BY <1>1, <2>1, <2>2, <2>3, <2>4, <2>5, <2>6, <2>7 DEF Next
<1> QED BY InitInv, <1>1, PTL DEF Spec

\* NothingLost: whatever pieces a stream arrives in, and however the buffer is
\* moved, grown and used again, the packets returned and what is unread are
\* the bytes taken from the stream.
THEOREM NothingIsLost == Spec => []NothingLost
<1>1. StreamInv => NothingLost
  BY DEF StreamInv
<1> QED BY StreamInvariant, <1>1, PTL

\* BufferFits: the reader never reads into an empty slice, and an announced
\* size does not make the buffer grow beyond the limit.
THEOREM BufferAlwaysFits == Spec => []BufferFits
<1>1. StreamInv => BufferFits
  <2> SUFFICES ASSUME StreamInv PROVE BufferFits
    OBVIOUS
  <2>0. StreamType /\ CallInv /\ WireInv /\ PacketsInv /\ NothingLost
    BY DEF StreamInv
  <2>1. TypeOK
    <3>1. \A i \in DOMAIN buf : buf[i] \in Byte
      BY <2>0, LenProperties, ElementOfSeq DEF StreamType
    <3>2. 0 <= offset /\ offset <= Len(buf) /\ Len(buf) <= size
      BY <2>0, LenProperties DEF StreamType
    <3> QED BY <3>1, <3>2, <2>0 DEF StreamType, TypeOK
  <2>2. ASSUME pc # "idle", Len(Unread) < Need PROVE Len(buf) < size
    <3>1. Len(Unread) \in Nat /\ (offset = 0 => Unread = buf)
      BY <2>0, UnreadType
    <3>2. Need \in Nat
      <4>1. pc = "body" => Length \in Nat
        BY <2>0, NextKnown DEF CallInv
      <4>2. HeaderSize \in Nat
        BY StreamAssumption
      <4> QED BY <4>1, <4>2, <2>0, <2>2 DEF Need, StreamType
    <3>3. offset = 0 /\ Need <= size
      BY <3>1, <3>2, <2>0, <2>2 DEF CallInv
    <3>4. size \in Nat
      BY <2>0 DEF StreamType
    <3> QED BY <3>1, <3>2, <3>3, <3>4, <2>2
  <2>3. size = InitSize \/ size < 2 * (HeaderSize + MaxPacketSize)
    BY <2>0 DEF CallInv
  <2> QED BY <2>1, <2>2, <2>3 DEF BufferFits
<1> QED BY StreamInvariant, <1>1, PTL

\* ErrorsJustified: the reader reports the end of the stream after its last
\* packet, an unexpected end only within a packet, and a packet as too large
\* only when it is.
THEOREM ErrorsAlwaysJustified == Spec => []ErrorsJustified
<1>1. StreamInv => ErrorsJustified
  <2> SUFFICES ASSUME StreamInv PROVE ErrorsJustified
    OBVIOUS
  <2> DEFINE left == SubSeq(sent, Len(packets) + 1, Len(sent))
  <2>0. /\ sent \in Seq(Messages) /\ packets \in Seq(PacketSet) /\ Len(packets) <= Len(sent)
        /\ ErrorInv /\ Len(sent) \in Nat /\ Len(packets) \in Nat
        /\ \A i \in 1..Len(sent) : sent[i] \in Messages
    BY LenProperties, ElementOfSeq DEF StreamInv, StreamType
  <2>1. ASSUME Len(packets) < Len(sent)
        PROVE  /\ left \in Seq(Messages) /\ Len(left) = Len(sent) - Len(packets) /\ left # <<>>
               /\ left[1] = sent[Len(packets) + 1] /\ sent[Len(packets) + 1] \in Messages
    <3>1. PICK a \in Int, b \in Int : a = Len(packets) + 1 /\ b = Len(sent)
      BY <2>0
    <3>2. (\A i \in a..b : sent[i] \in Messages) /\ a <= b /\ 1 \in 1..(b - a + 1) /\ a + 1 - 1 = a
      BY <2>0, <2>1, <3>1
    <3>3. /\ SubSeq(sent, a, b) \in Seq(Messages)
          /\ Len(SubSeq(sent, a, b)) = IF a <= b THEN b - a + 1 ELSE 0
          /\ \A i \in 1..(b - a + 1) : SubSeq(sent, a, b)[i] = sent[a + i - 1]
      BY <3>2, SubSeqProperties
    <3>4. SubSeq(sent, a, b)[1] = sent[a] /\ Len(SubSeq(sent, a, b)) = b - a + 1
      BY <3>2, <3>3
    <3>5. SubSeq(sent, a, b) # <<>>
      <4>1. Len(SubSeq(sent, a, b)) # 0
        BY <3>1, <3>4, <2>0, <2>1
      <4>2. \A q : q = <<>> => Len(q) = 0
        BY EmptySeq
      <4> QED BY <4>1, <4>2, Zenon
    <3>6. sent[Len(packets) + 1] \in Messages
      BY <2>0, <2>1
    <3> QED BY <3>1, <3>3, <3>4, <3>5, <3>6, <2>0
  <2> HIDE DEF left
  <2>2. err = "UnexpectedEOF" => /\ closed /\ wire # Returned /\ Len(left) = 1
                                 /\ Len(wire) < Len(Returned \o Frame(left[1].packet))
    <3> SUFFICES ASSUME err = "UnexpectedEOF"
                 PROVE  /\ closed /\ wire # Returned /\ Len(left) = 1
                        /\ Len(wire) < Len(Returned \o Frame(left[1].packet))
      OBVIOUS
    <3>1. /\ closed /\ wire # Returned /\ Len(sent) = Len(packets) + 1
          /\ Len(wire) < Len(Returned) + Len(Frame(sent[Len(packets) + 1].packet))
      BY <2>0 DEF ErrorInv
    <3>2. Len(left) = 1 /\ left[1] = sent[Len(packets) + 1] /\ left[1] \in Messages
      BY <2>0, <2>1, <3>1
    <3>3. Frame(left[1].packet) \in Seq(Byte) /\ Returned \in Seq(Byte)
      BY <2>0, <3>2, MessageAssumption, FrameType, FramedType DEF PacketSet, Returned
    <3>4. Len(Returned \o Frame(left[1].packet)) = Len(Returned) + Len(Frame(left[1].packet))
      BY <3>3, ConcatType, Zenon
    <3> QED BY <3>1, <3>2, <3>4
  <2>3. err = "PacketTooLarge" => left # <<>> /\ Len(left[1].packet.data) > MaxPacketSize
    BY <2>0, <2>1 DEF ErrorInv
  <2>4. err = "EOF" => eofWithData \/ (closed /\ wire = Returned)
    BY <2>0 DEF ErrorInv
  <2> QED BY <2>2, <2>3, <2>4 DEF ErrorsJustified, left
<1> QED BY StreamInvariant, <1>1, PTL

-----------------------------------------------------------------------------
(* Integers in groups of bits.                                             *)

LEMMA DivMod ==
  ASSUME NEW a \in Int, NEW g \in Int, g > 0
  PROVE  a \div g \in Int /\ a % g \in 0..(g - 1) /\ a = g * (a \div g) + (a % g)
<1>1. a = g * (a \div g) + (a % g)
  OBVIOUS
<1>2. a \div g \in Int /\ a % g \in 0..(g - 1)
  OBVIOUS
<1> QED BY <1>1, <1>2, Zenon

LEMMA ModSmall ==
  ASSUME NEW a \in Nat, NEW g \in Nat, a < g
  PROVE  a % g = a
  OBVIOUS

\* A product grows with its factor.
LEMMA Times ==
  ASSUME NEW w \in Nat, NEW x \in Int, NEW y \in Int, x <= y
  PROVE  x * w \in Int /\ y * w \in Int /\ x * w <= y * w
<1>1. PICK k \in Nat : y = x + k
  <2>1. y - x \in Nat
    OBVIOUS
  <2> QED BY <2>1
<1>2. y * w = x * w + k * w
  BY <1>1
<1>3. k * w \in Nat
  OBVIOUS
<1>4. x * w \in Int /\ y * w \in Int
  OBVIOUS
<1> QED BY <1>2, <1>3, <1>4

\* A continuation bit does not count.
LEMMA ModAdd ==
  ASSUME NEW g \in Nat, NEW r \in 0..(g - 1)
  PROVE  (r + g) % g = r /\ r % g = r
<1>0. PICK q, s : q = (r + g) \div g /\ s = (r + g) % g
  OBVIOUS
<1>1. q \in Int /\ s \in 0..(g - 1) /\ r + g = g * q + s
  <2>1. r + g \in Int /\ g \in Int /\ g > 0
    OBVIOUS
  <2> QED BY <2>1, <1>0, DivMod, Zenon
<1>2. q = 1
  <2>1. CASE q <= 0
    <3>1. q * g <= 0 * g
      BY <1>1, <2>1, Times
    <3> QED BY <3>1, <1>1
  <2>2. CASE q >= 2
    <3>1. 2 * g <= q * g
      BY <1>1, <2>2, Times
    <3> QED BY <3>1, <1>1
  <2> QED BY <2>1, <2>2, <1>1
<1>3. s = r
  BY <1>1, <1>2
<1>4. r % g = r
  <2>1. r \in Nat /\ r < g
    OBVIOUS
  <2> QED BY <2>1, ModSmall, Zenon
<1> QED BY <1>0, <1>3, <1>4

\* A number x that w divides v into, divided by g.
Between(v, w, x) == x * w <= v /\ v < (x + 1) * w
LEMMA Shifted ==
  ASSUME NEW v \in Nat, NEW w \in Nat, NEW x \in Nat, NEW g \in Nat, g > 0,
         Between(v, w, x)
  PROVE  /\ x \div g \in Nat /\ x % g \in 0..(g - 1)
         /\ (x \div g) * (g * w) <= v /\ v < ((x \div g) + 1) * (g * w)
         /\ x * w = (x \div g) * (g * w) + (x % g) * w
<1>0. PICK q, r : q = x \div g /\ r = x % g
  OBVIOUS
<1>1. q \in Int /\ r \in 0..(g - 1) /\ x = g * q + r
  <2>1. x \in Int /\ g \in Int
    OBVIOUS
  <2> QED BY <2>1, <1>0, DivMod, Zenon
<1>2. q \in Nat
  <2>1. SUFFICES ASSUME q <= -1 PROVE FALSE
    BY <1>1
  <2>2. q * g <= (-1) * g
    BY <1>1, <2>1, Times
  <2> QED BY <2>2, <1>1
<1>3. x * w = q * (g * w) + r * w
  BY <1>1, <1>2
<1>4. r * w \in Nat /\ q * (g * w) \in Nat /\ g * w \in Nat
  BY <1>1, <1>2
<1>5. (r + 1) * w <= g * w
  BY <1>1, Times
<1>6. (x + 1) * w = q * (g * w) + (r + 1) * w /\ (q + 1) * (g * w) = q * (g * w) + g * w
  BY <1>1, <1>2
<1>7. (x + 1) * w \in Int /\ (r + 1) * w \in Int
  BY <1>1
<1>8. q * (g * w) <= v /\ v < (q + 1) * (g * w)
  BY <1>3, <1>4, <1>5, <1>6, <1>7 DEF Between
<1> QED BY <1>0, <1>1, <1>2, <1>3, <1>8, Zenon

\* A set of numbers has a least one.
LEMMA Least ==
  ASSUME NEW S \in SUBSET Nat, S # {}
  PROVE  Min(S) \in S /\ \A y \in S : Min(S) <= y
<1> DEFINE R == OpToRel(<, Nat)
<1>1. IsWellFoundedOn(R, Nat)
  BY NatLessThanWellFounded
<1> HIDE DEF R
<1>2. PICK x \in S : \A y \in S : ~(<<y, x>> \in R)
  BY <1>1, WFMin
<1>3. \A y \in S : ~(y < x)
  BY <1>2 DEF R, OpToRel
<1>4. \A y \in S : x <= y
  BY <1>3
<1> QED BY <1>4, Zenon DEF Min

\* Steps of a loop, each from one number to the next.
Steps(step, m) == \A i \in 1..m, x \in Nat : step[i][x] \in Nat
Loops(u, m, start, step) == \A i \in 0..m : u[i] = IF i = 0 THEN start ELSE step[i][u[i - 1]]
LEMMA Loop ==
  ASSUME NEW m \in Nat, NEW start \in Nat, NEW step, Steps(step, m)
  PROVE  \E u \in [0..m -> Nat] : Loops(u, m, start, step)
<1> DEFINE Upto(u, k) == \A i \in 0..k : u[i] = IF i = 0 THEN start ELSE step[i][u[i - 1]]
           T == {k \in 0..m : \E u \in [0..k -> Nat] : Upto(u, k)}
<1>1. 0 \in T
  <2>1. [i \in 0..0 |-> start] \in [0..0 -> Nat] /\ Upto([i \in 0..0 |-> start], 0)
    OBVIOUS
  <2>2. 0 \in 0..m
    OBVIOUS
  <2> QED BY <2>1, <2>2, Zenon
<1>2. ASSUME NEW k \in 0..(m - 1), k \in T PROVE k + 1 \in T
  <2>0. k + 1 \in 0..m /\ k \in Nat /\ k + 1 \in 1..m
    OBVIOUS
  <2>1. SUFFICES \E u \in [0..(k + 1) -> Nat] : Upto(u, k + 1)
    BY <2>0, Zenon
  <2>2. PICK u \in [0..k -> Nat] : Upto(u, k)
    BY <1>2
  <2>3. PICK x \in Nat : x = step[k + 1][u[k]]
    <3>1. u[k] \in Nat
      BY <2>0
    <3> QED BY <2>0, <3>1, Zenon DEF Steps
  <2> DEFINE h == [i \in 0..(k + 1) |-> IF i = k + 1 THEN x ELSE u[i]]
  <2>4. h \in [0..(k + 1) -> Nat]
    BY <2>3
  <2>5. ASSUME NEW i \in 0..(k + 1) PROVE h[i] = IF i = 0 THEN start ELSE step[i][h[i - 1]]
    <3>1. CASE i = k + 1
      <4>1. h[i] = x /\ h[i - 1] = u[k] /\ i # 0
        BY <3>1, <2>0
      <4> HIDE DEF h
      <4> QED BY <4>1, <3>1, <2>3, Zenon
    <3>2. CASE i # k + 1
      <4>1. i \in 0..k /\ h[i] = u[i] /\ (i # 0 => i - 1 \in 0..k /\ h[i - 1] = u[i - 1])
        BY <3>2, <2>0
      <4>2. u[i] = IF i = 0 THEN start ELSE step[i][u[i - 1]]
        BY <2>2, <4>1
      <4> HIDE DEF h
      <4> QED BY <4>1, <4>2
    <3> QED BY <3>1, <3>2
  <2> HIDE DEF h
  <2> QED BY <2>4, <2>5
<1>3. m \in T
  <2>1. 0 \in Int /\ m \in Int /\ m \in 0..m
    OBVIOUS
  <2> HIDE DEF T
  <2>2. 0..m \subseteq T
    BY <1>1, <1>2, <2>1, IntervalInduction, Zenon
  <2> QED BY <2>1, <2>2
<1> QED BY <1>3, Zenon DEF Loops

\* The weights are the powers of Group.
LEMMA WeightType ==
  /\ Weight[0] = 1
  /\ \A i \in 1..MaxVarIntBytes : Weight[i] = Group * Weight[i - 1]
  /\ \A i \in 0..MaxVarIntBytes : Weight[i] \in Nat /\ Weight[i] > 0
<1>0. MaxVarIntBytes \in Nat /\ Group \in Nat /\ Group >= 2
  BY CodecAssumption, WeightAssumption
<1>1. PICK step : step = [i \in 1..MaxVarIntBytes |-> [x \in Nat |-> Group * x]]
  OBVIOUS
<1>2. \A i \in 1..MaxVarIntBytes, x \in Nat : step[i][x] = Group * x
  BY <1>0, <1>1
<1>3. 1 \in Nat
  OBVIOUS
<1>4. PICK u \in [0..MaxVarIntBytes -> Nat] : Loops(u, MaxVarIntBytes, 1, step)
  <2>1. Steps(step, MaxVarIntBytes)
    <3>1. \A x \in Nat : Group * x \in Nat
      BY <1>0
    <3> QED BY <1>2, <3>1, Zenon DEF Steps
  <2> QED BY <1>0, <1>3, <2>1, Loop, Zenon
<1>5. \A i \in 0..MaxVarIntBytes : u[i] = IF i = 0 THEN 1 ELSE Group * u[i - 1]
  <2> SUFFICES ASSUME NEW i \in 0..MaxVarIntBytes, i # 0 PROVE step[i][u[i - 1]] = Group * u[i - 1]
    <3>1. u[0] = 1 /\ \A i \in 0..MaxVarIntBytes : i # 0 => u[i] = step[i][u[i - 1]]
      <4>1. 0 \in 0..MaxVarIntBytes
        BY <1>0
      <4> QED BY <1>4, <4>1, Zenon DEF Loops
    <3> QED BY <3>1
  <2>1. i \in 1..MaxVarIntBytes /\ i - 1 \in 0..MaxVarIntBytes
    BY <1>0
  <2>2. u[i - 1] \in Nat
    BY <2>1, <1>4
  <2> QED BY <2>1, <2>2, <1>2
<1>6. u = [i \in 0..MaxVarIntBytes |-> IF i = 0 THEN 1 ELSE Group * u[i - 1]]
  BY <1>5
<1>7. Weight = [i \in 0..MaxVarIntBytes |-> IF i = 0 THEN 1 ELSE Group * Weight[i - 1]]
  <2> DEFINE W == CHOOSE w : w = [i \in 0..MaxVarIntBytes |-> IF i = 0 THEN 1 ELSE Group * w[i - 1]]
  <2>1. W = [i \in 0..MaxVarIntBytes |-> IF i = 0 THEN 1 ELSE Group * W[i - 1]]
    BY <1>6, Zenon
  <2>2. Weight = W
    BY Zenon DEF Weight
  <2> QED BY <2>1, <2>2, Zenon
<1>8. /\ Weight[0] = 1
      /\ \A i \in 1..MaxVarIntBytes : Weight[i] = Group * Weight[i - 1]
  <2>1. 0 \in 0..MaxVarIntBytes /\ \A i \in 1..MaxVarIntBytes : i \in 0..MaxVarIntBytes /\ i # 0
    BY <1>0
  <2> QED BY <1>7, <2>1, Zenon
<1> DEFINE T == {i \in 0..MaxVarIntBytes : Weight[i] \in Nat /\ Weight[i] > 0}
<1>9. 0 \in T
  BY <1>0, <1>8
<1>10. ASSUME NEW i \in 0..(MaxVarIntBytes - 1), i \in T PROVE i + 1 \in T
  <2>1. i + 1 \in 1..MaxVarIntBytes /\ i + 1 \in 0..MaxVarIntBytes /\ (i + 1) - 1 = i
    BY <1>0
  <2>2. PICK w \in Nat : w = Weight[i] /\ w > 0
    BY <1>10
  <2>3. Weight[i + 1] = Group * w
    BY <1>8, <2>1, <2>2
  <2>4. 1 * w <= Group * w
    BY <1>0, Times
  <2>5. Group * w \in Nat /\ Group * w > 0
    BY <1>0, <2>2, <2>4, SMTT(30)
  <2> QED BY <2>1, <2>3, <2>5
<1>11. 0..MaxVarIntBytes \subseteq T
  <2>1. 0 \in Int /\ MaxVarIntBytes \in Int
    BY <1>0
  <2> HIDE DEF T
  <2> QED BY <1>9, <1>10, <2>1, IntervalInduction, Zenon
<1> QED BY <1>8, <1>11

\* They grow.
LEMMA WeightGrows ==
  ASSUME NEW i \in 0..MaxVarIntBytes, NEW j \in i..MaxVarIntBytes
  PROVE  Weight[i] <= Weight[j]
<1>0. MaxVarIntBytes \in Nat /\ Group \in Nat /\ Group >= 2 /\ i \in Nat
  BY CodecAssumption, WeightAssumption
<1> DEFINE T == {k \in i..MaxVarIntBytes : Weight[i] <= Weight[k]}
<1>1. i \in T
  BY <1>0, WeightType
<1>2. ASSUME NEW k \in i..(MaxVarIntBytes - 1), k \in T PROVE k + 1 \in T
  <2>1. k + 1 \in i..MaxVarIntBytes /\ k + 1 \in 1..MaxVarIntBytes /\ (k + 1) - 1 = k
        /\ k \in 0..MaxVarIntBytes
    BY <1>0
  <2>2. PICK w \in Nat : w = Weight[k]
    BY <2>1, WeightType
  <2>3. Weight[k + 1] = Group * w
    BY <2>1, <2>2, WeightType
  <2>4. 1 * w <= Group * w
    BY <1>0, Times
  <2>5. Weight[i] \in Nat /\ Weight[i] <= w
    BY <2>2, <1>2, WeightType
  <2> QED BY <2>1, <2>3, <2>4, <2>5, <1>0
<1>3. i..MaxVarIntBytes \subseteq T
  <2>1. i \in Int /\ MaxVarIntBytes \in Int
    BY <1>0
  <2> HIDE DEF T
  <2> QED BY <1>1, <1>2, <2>1, IntervalInduction, Zenon
<1> QED BY <1>3

\* What is left of v after i groups.
Shifts(u, v) ==
  /\ u \in [0..MaxVarIntBytes -> Nat]
  /\ u[0] = v
  /\ \A i \in 1..MaxVarIntBytes : u[i] = u[i - 1] \div Group

\* It is v divided by the weight.
LEMMA ShiftBounds ==
  ASSUME NEW v \in Nat, NEW u, Shifts(u, v)
  PROVE  \A i \in 0..MaxVarIntBytes : u[i] * Weight[i] <= v /\ v < (u[i] + 1) * Weight[i]
<1>0. MaxVarIntBytes \in Nat /\ Group \in Nat /\ Group > 0
  BY CodecAssumption, WeightAssumption
<1> DEFINE T == {i \in 0..MaxVarIntBytes : u[i] * Weight[i] <= v /\ v < (u[i] + 1) * Weight[i]}
<1>1. 0 \in T
  BY <1>0, WeightType DEF Shifts
<1>2. ASSUME NEW i \in 0..(MaxVarIntBytes - 1), i \in T PROVE i + 1 \in T
  <2>1. i + 1 \in 0..MaxVarIntBytes /\ i + 1 \in 1..MaxVarIntBytes /\ (i + 1) - 1 = i
        /\ i \in 0..MaxVarIntBytes
    BY <1>0
  <2>2. PICK w \in Nat : w = Weight[i]
    BY <2>1, WeightType
  <2>3. PICK x \in Nat : x = u[i]
    BY <2>1 DEF Shifts
  <2>4. Between(v, w, x)
    BY <1>2, <2>2, <2>3 DEF Between
  <2>5. (x \div Group) * (Group * w) <= v /\ v < ((x \div Group) + 1) * (Group * w)
    BY <1>0, <2>4, Shifted
  <2>6. Weight[i + 1] = Group * w
    BY <2>1, <2>2, WeightType
  <2>7. u[i + 1] = x \div Group
    BY <2>1, <2>3 DEF Shifts
  <2>8. u[i + 1] * Weight[i + 1] <= v /\ v < (u[i + 1] + 1) * Weight[i + 1]
    BY <2>5, <2>6, <2>7, Zenon
  <2> QED BY <2>1, <2>8
<1>3. 0..MaxVarIntBytes \subseteq T
  <2>1. 0 \in Int /\ MaxVarIntBytes \in Int
    BY <1>0
  <2> HIDE DEF T
  <2> QED BY <1>1, <1>2, <2>1, IntervalInduction, Zenon
<1> QED BY <1>3

\* Nothing is left when the weight exceeds v.
LEMMA ShiftZero ==
  ASSUME NEW v \in Nat, NEW u, Shifts(u, v), NEW i \in 0..MaxVarIntBytes
  PROVE  u[i] = 0 <=> v < Weight[i]
<1>1. PICK w \in Nat : w = Weight[i] /\ w > 0
  BY WeightType
<1>2. PICK x \in Nat : x = u[i]
  BY DEF Shifts
<1>3. x * w <= v /\ v < (x + 1) * w
  BY <1>1, <1>2, ShiftBounds
<1>4. CASE x = 0
  BY <1>1, <1>2, <1>3, <1>4
<1>5. CASE x # 0
  <2>1. 1 <= x /\ 1 \in Int
    BY <1>5
  <2>2. 1 * w <= x * w /\ x * w \in Int
    BY <2>1, Times
  <2> QED BY <1>1, <1>2, <1>3, <1>5, <2>2
<1> QED BY <1>4, <1>5

\* The bytes that WriteVarInt writes: n groups, of which the last leaves nothing.
Encodes(u, v, n) ==
  /\ Shifts(u, v) /\ n \in 1..MaxVarIntBytes /\ u[n] = 0
  /\ \A i \in 1..MaxVarIntBytes : u[i] = 0 => n <= i
  /\ WriteVarInt(v) = [i \in 1..n |-> (u[i - 1] % Group) + IF i < n THEN Group ELSE 0]

LEMMA WriteVarIntDef ==
  ASSUME NEW v \in 0..(Word - 1)
  PROVE  \E u, n : Encodes(u, v, n)
<1>0. /\ MaxVarIntBytes \in Nat /\ MaxVarIntBytes # 0 /\ Group \in Nat /\ Group > 0
      /\ v \in Nat /\ v < Weight[MaxVarIntBytes]
  BY CodecAssumption, WeightAssumption, WeightType
<1>1. PICK step : step = [i \in 1..MaxVarIntBytes |-> [x \in Nat |-> x \div Group]]
  OBVIOUS
<1>2. \A i \in 1..MaxVarIntBytes, x \in Nat : step[i][x] = x \div Group
  BY <1>1
<1>3. \A x \in Nat : x \div Group \in Nat
  BY <1>0
<1>4. PICK u \in [0..MaxVarIntBytes -> Nat] : Loops(u, MaxVarIntBytes, v, step)
  <2>1. Steps(step, MaxVarIntBytes)
    BY <1>2, <1>3, Zenon DEF Steps
  <2> QED BY <1>0, <2>1, Loop, Zenon
<1>5. \A i \in 0..MaxVarIntBytes : u[i] = IF i = 0 THEN v ELSE u[i - 1] \div Group
  <2>1. u[0] = v /\ \A i \in 0..MaxVarIntBytes : i # 0 => u[i] = step[i][u[i - 1]]
    <3>1. 0 \in 0..MaxVarIntBytes
      BY <1>0
    <3> QED BY <1>4, <3>1, Zenon DEF Loops
  <2> SUFFICES ASSUME NEW i \in 0..MaxVarIntBytes, i # 0 PROVE step[i][u[i - 1]] = u[i - 1] \div Group
    BY <2>1
  <2>2. i \in 1..MaxVarIntBytes /\ i - 1 \in 0..MaxVarIntBytes
    BY <1>0
  <2>3. u[i - 1] \in Nat
    BY <2>2
  <2> QED BY <2>2, <2>3, <1>2
<1>6. u = [i \in 0..MaxVarIntBytes |-> IF i = 0 THEN v ELSE u[i - 1] \div Group]
  BY <1>5
<1> DEFINE C == CHOOSE c : c = [i \in 0..MaxVarIntBytes |-> IF i = 0 THEN v ELSE c[i - 1] \div Group]
           ends == {i \in 1..MaxVarIntBytes : C[i] = 0}
           n == Min(ends)
<1>7. C = [i \in 0..MaxVarIntBytes |-> IF i = 0 THEN v ELSE C[i - 1] \div Group]
  BY <1>6, Zenon
<1>8. WriteVarInt(v) = [i \in 1..n |-> (C[i - 1] % Group) + IF i < n THEN Group ELSE 0]
  BY Zenon DEF WriteVarInt
<1>9. C[0] = v /\ \A i \in 1..MaxVarIntBytes : C[i] = C[i - 1] \div Group
  <2> HIDE DEF C
  <2>1. 0 \in 0..MaxVarIntBytes /\ \A i \in 1..MaxVarIntBytes : i \in 0..MaxVarIntBytes /\ i # 0
    BY <1>0
  <2> QED BY <1>7, <2>1, Zenon
<1> HIDE DEF C
<1>10. \A i \in 0..MaxVarIntBytes : C[i] \in Nat
  <2> DEFINE T == {i \in 0..MaxVarIntBytes : C[i] \in Nat}
  <2>1. 0 \in T
    BY <1>0, <1>9
  <2>2. ASSUME NEW i \in 0..(MaxVarIntBytes - 1), i \in T PROVE i + 1 \in T
    <3>1. i + 1 \in 1..MaxVarIntBytes /\ i + 1 \in 0..MaxVarIntBytes /\ (i + 1) - 1 = i
      BY <1>0
    <3>2. C[i + 1] = C[i] \div Group
      BY <3>1, <1>9
    <3>3. C[i] \in Nat
      BY <2>2
    <3> QED BY <3>1, <3>2, <3>3, <1>3
  <2>3. 0 \in Int /\ MaxVarIntBytes \in Int
    BY <1>0
  <2>4. 0..MaxVarIntBytes \subseteq T
    <3> HIDE DEF T
    <3> QED BY <2>1, <2>2, <2>3, IntervalInduction, Zenon
  <2> QED BY <2>4
<1>11. Shifts(C, v)
  <2>1. C \in [0..MaxVarIntBytes -> Nat]
    <3>1. \E f : C = [i \in 0..MaxVarIntBytes |-> IF i = 0 THEN v ELSE f[i - 1] \div Group]
      BY <1>7, Zenon
    <3> QED BY <3>1, <1>10
  <2> QED BY <2>1, <1>9 DEF Shifts
<1>12. C[MaxVarIntBytes] = 0
  <2>1. MaxVarIntBytes \in 0..MaxVarIntBytes
    BY <1>0
  <2> QED BY <1>0, <1>11, <2>1, ShiftZero
<1>13. ends \in SUBSET Nat /\ ends # {}
  BY <1>0, <1>12
<1>14. n \in ends /\ \A i \in ends : n <= i
  <2> HIDE DEF ends
  <2> QED BY <1>13, Least
<1>15. n \in 1..MaxVarIntBytes /\ C[n] = 0 /\ \A i \in 1..MaxVarIntBytes : C[i] = 0 => n <= i
  BY <1>14
<1> HIDE DEF n
<1>16. Encodes(C, v, n)
  BY <1>8, <1>11, <1>15, Zenon DEF Encodes
<1> QED BY <1>16

\* VarIntSize is the number of bytes written.
LEMMA VarIntSizeDef ==
  ASSUME NEW v \in Nat, NEW u, NEW n, Encodes(u, v, n)
  PROVE  VarIntSize(v) = n
<1>0. /\ MaxVarIntBytes \in Nat /\ n \in 1..MaxVarIntBytes /\ u[n] = 0 /\ Shifts(u, v)
      /\ \A i \in 1..MaxVarIntBytes : u[i] = 0 => n <= i
  BY CodecAssumption DEF Encodes
<1>1. \A i \in 0..MaxVarIntBytes : Weight[i] \in Nat
  BY WeightType
<1>2. v < Weight[n] /\ (n = 1 \/ v >= Weight[n - 1])
  <2>1. v < Weight[n]
    BY <1>0, ShiftZero
  <2>2. ASSUME n # 1 PROVE v >= Weight[n - 1]
    <3>1. n - 1 \in 1..MaxVarIntBytes /\ n - 1 \in 0..MaxVarIntBytes /\ ~(n <= n - 1)
      BY <1>0, <2>2
    <3>2. u[n - 1] # 0
      BY <1>0, <3>1
    <3>3. ~(v < Weight[n - 1])
      BY <1>0, <3>1, <3>2, ShiftZero
    <3> QED BY <3>1, <3>3, <1>1
  <2> QED BY <2>1, <2>2
<1>3. ASSUME NEW m \in 1..MaxVarIntBytes, v < Weight[m], m = 1 \/ v >= Weight[m - 1]
      PROVE  m = n
  <2>1. n <= m
    <3>1. m \in 0..MaxVarIntBytes
      BY <1>0
    <3>2. u[m] = 0
      BY <1>0, <1>3, <3>1, ShiftZero
    <3> QED BY <1>0, <3>2
  <2>2. ASSUME m > n PROVE FALSE
    <3>1. n \in 0..MaxVarIntBytes /\ m - 1 \in n..MaxVarIntBytes /\ m - 1 \in 0..MaxVarIntBytes /\ m # 1
      BY <1>0, <2>2
    <3>2. Weight[n] <= Weight[m - 1]
      BY <3>1, WeightGrows
    <3>3. Weight[n] \in Nat /\ Weight[m - 1] \in Nat
      BY <3>1, <1>1
    <3> QED BY <1>2, <1>3, <3>1, <3>2, <3>3
  <2> QED BY <1>0, <2>1, <2>2
<1> QED BY <1>0, <1>2, <1>3, Zenon DEF VarIntSize

\* The bytes of an encoding.
LEMMA EncodedBytes ==
  ASSUME NEW v \in Nat, NEW u, NEW n, Encodes(u, v, n)
  PROVE  /\ WriteVarInt(v) \in Seq(Nat) /\ Len(WriteVarInt(v)) = n
         /\ \A i \in 1..n : /\ WriteVarInt(v)[i] % Group = u[i - 1] % Group
                            /\ WriteVarInt(v)[i] < Group <=> i = n
<1>0. n \in 1..MaxVarIntBytes /\ MaxVarIntBytes \in Nat /\ Group \in Nat /\ Group > 0
  BY CodecAssumption, WeightAssumption DEF Encodes
<1>1. PICK d : d = WriteVarInt(v)
  OBVIOUS
<1>2. ASSUME NEW i \in 1..n
      PROVE  d[i] \in Nat /\ d[i] % Group = u[i - 1] % Group /\ (d[i] < Group <=> i = n)
  <2>1. PICK x \in Nat : x = u[i - 1]
    <3>1. i - 1 \in 0..MaxVarIntBytes
      BY <1>0
    <3> QED BY <3>1 DEF Encodes, Shifts
  <2>2. PICK r \in 0..(Group - 1) : r = x % Group
    <3>1. x \in Int /\ Group \in Int
      BY <1>0
    <3> QED BY <1>0, <3>1, DivMod
  <2>3. d[i] = (u[i - 1] % Group) + IF i < n THEN Group ELSE 0
    BY <1>1 DEF Encodes
  <2>4. d[i] = r + IF i < n THEN Group ELSE 0
    BY <2>1, <2>2, <2>3
  <2>5. (r + Group) % Group = r /\ r % Group = r
    BY <1>0, ModAdd
  <2>6. CASE i < n
    <3>1. d[i] = r + Group
      BY <2>4, <2>6
    <3>2. d[i] % Group = r
      BY <2>5, <3>1, Zenon
    <3> QED BY <3>1, <3>2, <2>1, <2>2, <2>6, <1>0
  <2>7. CASE ~(i < n)
    <3>1. d[i] = r /\ i = n
      BY <2>4, <2>7, <1>0
    <3>2. d[i] % Group = r
      BY <2>5, <3>1, Zenon
    <3> QED BY <3>1, <3>2, <2>1, <2>2, <1>0
  <2> QED BY <2>6, <2>7
<1>3. d \in [1..n -> Nat]
  <2>1. \E f : d = [i \in 1..n |-> f[i]]
    <3>1. PICK f : f = [i \in 1..n |-> (u[i - 1] % Group) + IF i < n THEN Group ELSE 0]
      OBVIOUS
    <3>2. d = f
      BY <1>1, <3>1, Zenon DEF Encodes
    <3>3. f = [i \in 1..n |-> f[i]]
      BY <3>1
    <3> QED BY <3>2, <3>3, Zenon
  <2> QED BY <2>1, <1>2
<1>4. d \in Seq(Nat) /\ Len(d) = n
  BY <1>0, <1>3, SeqDef
<1> QED BY <1>1, <1>2, <1>4, Zenon

\* n groups that end in a byte without continuation bit are read as the value
\* they were taken from, whatever follows.
Groups(e, u, n) ==
  /\ Len(e) \in Nat /\ n <= Len(e)
  /\ \A i \in 1..n : e[i] % Group = u[i - 1] % Group /\ (e[i] < Group <=> i = n)
LEMMA ReadBack ==
  ASSUME NEW v \in 0..(Word - 1), NEW u, NEW n \in 1..MaxVarIntBytes, Shifts(u, v), u[n] = 0,
         NEW e, Groups(e, u, n)
  PROVE  ReadVarInt(e) = [err |-> "none", val |-> v, n |-> n]
<1>0. /\ MaxVarIntBytes \in Nat /\ Group \in Nat /\ Group > 0 /\ Word \in Nat /\ Word > 0
      /\ v \in Nat /\ v < Word
  BY CodecAssumption, WeightAssumption, WeightType
<1> USE DEF Groups
<1> DEFINE last == {i \in 1..MaxVarIntBytes : i <= Len(e) /\ e[i] < Group}
<1>1. last \in SUBSET Nat /\ n \in last
  BY <1>0
<1>2. Min(last) = n
  <2>1. Min(last) \in last /\ \A i \in last : Min(last) <= i
    <3>1. last # {}
      BY <1>1
    <3> HIDE DEF last
    <3> QED BY <1>1, <3>1, Least
  <2>2. PICK k : k = Min(last)
    OBVIOUS
  <2>3. k \in 1..MaxVarIntBytes /\ e[k] < Group /\ k <= n
    BY <1>1, <2>1, <2>2
  <2>4. k = n
    BY <2>3
  <2> QED BY <2>2, <2>4
<1> DEFINE digit(i) == (e[i] % Group) * Weight[i - 1]
           C == CHOOSE c : c = [i \in 0..Min(last) |->
                                  IF i = 0 THEN 0 ELSE (c[i - 1] + (e[i] % Group) * Weight[i - 1]) % Word]
<1>3. ReadVarInt(e) = [err |-> "none", val |-> C[Min(last)], n |-> Min(last)]
  <2>1. last # {}
    BY <1>1
  <2> QED BY <2>1, Zenon DEF ReadVarInt
<1> HIDE DEF last
<1>4. \A i \in 1..n : /\ i - 1 \in 0..MaxVarIntBytes /\ i \in 1..MaxVarIntBytes
                      /\ u[i - 1] \in Nat /\ Weight[i - 1] \in Nat
                      /\ u[i] = u[i - 1] \div Group /\ Weight[i] = Group * Weight[i - 1]
  <2> SUFFICES ASSUME NEW i \in 1..n
               PROVE  /\ i - 1 \in 0..MaxVarIntBytes /\ i \in 1..MaxVarIntBytes
                      /\ u[i - 1] \in Nat /\ Weight[i - 1] \in Nat
                      /\ u[i] = u[i - 1] \div Group /\ Weight[i] = Group * Weight[i - 1]
    BY Zenon
  <2>1. i - 1 \in 0..MaxVarIntBytes /\ i \in 1..MaxVarIntBytes
    BY <1>0
  <2>2. u[i - 1] \in Nat
    BY <2>1 DEF Shifts
  <2>3. u[i] = u[i - 1] \div Group
    BY <2>1, Zenon DEF Shifts
  <2>4. Weight[i - 1] \in Nat /\ Weight[i] = Group * Weight[i - 1]
    BY <2>1, WeightType, Zenon
  <2> QED BY <2>1, <2>2, <2>3, <2>4, Zenon
\* What a step adds, and what that leaves.
<1>5. ASSUME NEW i \in 1..n
      PROVE  /\ digit(i) \in Nat
             /\ u[i - 1] * Weight[i - 1] = u[i] * Weight[i] + digit(i)
             /\ u[i] * Weight[i] \in Nat /\ u[i] * Weight[i] <= v
             /\ u[i - 1] * Weight[i - 1] \in Nat /\ u[i - 1] * Weight[i - 1] <= v
  <2>1. PICK x \in Nat : x = u[i - 1]
    BY <1>4
  <2>2. PICK w \in Nat : w = Weight[i - 1]
    BY <1>4
  <2>3. x * w <= v /\ v < (x + 1) * w
    BY <1>0, <1>4, <2>1, <2>2, ShiftBounds
  <2>4. /\ x \div Group \in Nat /\ x % Group \in 0..(Group - 1)
        /\ (x \div Group) * (Group * w) <= v
        /\ x * w = (x \div Group) * (Group * w) + (x % Group) * w
    <3>1. v \in Nat /\ Group \in Nat /\ Group > 0
      BY <1>0
    <3>2. Between(v, w, x)
      BY <2>3, Zenon DEF Between
    <3> QED BY <3>1, <3>2, Shifted, SMTT(30)
  <2>5. e[i] % Group = x % Group /\ u[i] = x \div Group /\ Weight[i] = Group * w
    BY <1>4, <2>1, <2>2
  <2>6. digit(i) = (x % Group) * w /\ u[i] * Weight[i] = (x \div Group) * (Group * w)
    BY <2>2, <2>5, Zenon
  <2>7. (x % Group) * w \in Nat /\ (x \div Group) * (Group * w) \in Nat /\ x * w \in Nat
    <3>1. \A a \in Nat, b \in Nat : a * b \in Nat
      OBVIOUS
    <3>2. x % Group \in Nat /\ Group * w \in Nat
      BY <1>0, <2>4, <3>1
    <3> QED BY <2>4, <3>1, <3>2, Zenon
  <2> QED BY <2>1, <2>2, <2>3, <2>4, <2>6, <2>7, Zenon
<1>6. PICK step : step = [i \in 1..n |-> [x \in Nat |-> (x + digit(i)) % Word]]
  OBVIOUS
<1>7. \A i \in 1..n, x \in Nat : step[i][x] = (x + digit(i)) % Word
  BY <1>6, Zenon
<1>8. \A i \in 1..n, x \in Nat : (x + digit(i)) % Word \in Nat
  <2> SUFFICES ASSUME NEW i \in 1..n, NEW x \in Nat PROVE (x + digit(i)) % Word \in Nat
    OBVIOUS
  <2>1. PICK y \in Nat : y = digit(i)
    BY <1>5
  <2>2. (x + y) % Word \in Nat
    BY <1>0
  <2> QED BY <2>1, <2>2, Zenon
<1>9. PICK s \in [0..n -> Nat] : Loops(s, n, 0, step)
  <2>1. Steps(step, n)
    BY <1>7, <1>8, Zenon DEF Steps
  <2>2. n \in Nat /\ 0 \in Nat
    BY <1>0
  <2> QED BY <2>1, <2>2, Loop, Zenon
<1>10. \A i \in 0..n : s[i] = IF i = 0 THEN 0 ELSE (s[i - 1] + digit(i)) % Word
  <2>1. s[0] = 0 /\ \A i \in 0..n : i # 0 => s[i] = step[i][s[i - 1]]
    <3>1. 0 \in 0..n
      BY <1>0
    <3> QED BY <1>9, <3>1, Zenon DEF Loops
  <2> SUFFICES ASSUME NEW i \in 0..n, i # 0 PROVE step[i][s[i - 1]] = (s[i - 1] + digit(i)) % Word
    BY <2>1, Zenon
  <2>2. i \in 1..n /\ i - 1 \in 0..n
    BY <1>0
  <2>3. s[i - 1] \in Nat
    BY <2>2
  <2> QED BY <2>2, <2>3, <1>7, Zenon
<1>11. s = [i \in 0..n |-> IF i = 0 THEN 0 ELSE (s[i - 1] + (e[i] % Group) * Weight[i - 1]) % Word]
  <2>1. s = [i \in 0..n |-> s[i]]
    OBVIOUS
  <2>2. [i \in 0..n |-> s[i]]
          = [i \in 0..n |-> IF i = 0 THEN 0 ELSE (s[i - 1] + (e[i] % Group) * Weight[i - 1]) % Word]
    BY <1>10, Zenon
  <2> QED BY <2>1, <2>2, Zenon
<1>12. C = [i \in 0..n |-> IF i = 0 THEN 0 ELSE (C[i - 1] + (e[i] % Group) * Weight[i - 1]) % Word]
  BY <1>2, <1>11, ZenonT(60)
<1> HIDE DEF C
<1>13. C[0] = 0 /\ \A i \in 1..n : C[i] = (C[i - 1] + digit(i)) % Word
  <2>1. 0 \in 0..n /\ \A i \in 1..n : i \in 0..n /\ i # 0
    BY <1>0
  <2> QED BY <1>12, <2>1, Zenon
<1> HIDE DEF digit
\* The bytes read so far are what the shifts have taken off.
<1> DEFINE T == {i \in 0..n : C[i] = v - u[i] * Weight[i]}
<1>14. 0 \in T
  <2>1. u[0] = v /\ Weight[0] = 1
    BY WeightType DEF Shifts
  <2> QED BY <2>1, <1>0, <1>13
<1>15. ASSUME NEW i \in 0..(n - 1), i \in T PROVE i + 1 \in T
  <2>1. i + 1 \in 1..n /\ i + 1 \in 0..n /\ (i + 1) - 1 = i
    BY <1>0
  <2>2. C[i + 1] = (C[i] + digit(i + 1)) % Word
    BY <1>13, <2>1
  <2>3. /\ digit(i + 1) \in Nat
        /\ u[i] * Weight[i] = u[i + 1] * Weight[i + 1] + digit(i + 1)
        /\ u[i + 1] * Weight[i + 1] \in Nat /\ u[i + 1] * Weight[i + 1] <= v
    BY <1>5, <2>1
  <2>4. PICK a, b \in Nat, c \in Nat :
          a = u[i] * Weight[i] /\ b = u[i + 1] * Weight[i + 1] /\ c = digit(i + 1)
    BY <2>3, SMTT(30)
  <2>5. a = b + c /\ b <= v
    BY <2>3, <2>4, Zenon
  <2>6. C[i] = v - a
    BY <1>15, <2>4, Zenon
  <2>7. (C[i] + c) = v - b /\ v - b \in Nat /\ v - b < Word
    BY <1>0, <2>5, <2>6
  <2>8. C[i + 1] = v - b
    BY <1>0, <2>2, <2>4, <2>7, ModSmall, ZenonT(60)
  <2> QED BY <2>1, <2>4, <2>8, Zenon
<1>16. 0..n \subseteq T
  <2>1. 0 \in Int /\ n \in Int
    BY <1>0
  <2> HIDE DEF T
  <2> QED BY <1>14, <1>15, <2>1, IntervalInduction, Zenon
<1>17. C[n] = v
  <2>1. n \in 0..n /\ n \in 0..MaxVarIntBytes
    BY <1>0
  <2>2. C[n] = v - u[n] * Weight[n] /\ Weight[n] \in Nat
    BY <2>1, <1>16, WeightType
  <2> QED BY <2>2, <1>0
<1> QED BY <1>2, <1>3, <1>17, Zenon

\* No proper prefix is accepted.
LEMMA ReadCutOff ==
  ASSUME NEW d, Len(d) \in 0..(MaxVarIntBytes - 1), \A i \in 1..Len(d) : ~(d[i] < Group)
  PROVE  ReadVarInt(d).err = "UnexpectedEOF"
<1> DEFINE last == {i \in 1..MaxVarIntBytes : i <= Len(d) /\ d[i] < Group}
<1>0. MaxVarIntBytes \in Nat
  BY CodecAssumption
<1>1. ~(last # {}) /\ Len(d) < MaxVarIntBytes
  BY <1>0
<1>2. ReadVarInt(d) = Failed("UnexpectedEOF")
  BY <1>1, Zenon DEF ReadVarInt
<1> QED BY <1>2 DEF Failed

\* What VarIntsRoundTrip says, for one value and any bytes t that follow it.
LEMMA RoundTrip ==
  ASSUME NEW v \in 0..(Word - 1), NEW t \in Seq(Nat)
  PROVE  LET d == WriteVarInt(v)
         IN /\ ReadVarInt(d \o t) = [err |-> "none", val |-> v, n |-> VarIntSize(v)]
            /\ \A k \in 0..(VarIntSize(v) - 1) : ReadVarInt(SubSeq(d, 1, k)).err = "UnexpectedEOF"
<1>0. v \in Nat /\ MaxVarIntBytes \in Nat
  BY CodecAssumption
<1>1. PICK u, n : Encodes(u, v, n)
  BY WriteVarIntDef
<1>2. VarIntSize(v) = n
  BY <1>0, <1>1, VarIntSizeDef
<1>3. n \in 1..MaxVarIntBytes /\ n \in Nat
  BY <1>0, <1>1 DEF Encodes
<1>4. PICK d \in Seq(Nat) : d = WriteVarInt(v) /\ Len(d) = n
  BY <1>0, <1>1, EncodedBytes
<1>5. \A i \in 1..n : d[i] % Group = u[i - 1] % Group /\ (d[i] < Group <=> i = n)
  BY <1>0, <1>1, <1>4, EncodedBytes, Zenon
<1>6. ReadVarInt(d \o t) = [err |-> "none", val |-> v, n |-> n]
  <2>1. PICK e : e = d \o t
    OBVIOUS
  <2>2. /\ e \in Seq(Nat) /\ Len(e) = Len(d) + Len(t)
        /\ \A i \in 1..(Len(d) + Len(t)) : e[i] = IF i <= Len(d) THEN d[i] ELSE t[i - Len(d)]
    BY <2>1, ConcatProperties
  <2>3. Len(t) \in Nat
    BY LenProperties
  <2>4. Len(e) \in Nat /\ n <= Len(e) /\ \A i \in 1..n : e[i] = d[i]
    BY <1>3, <1>4, <2>2, <2>3
  <2>5. \A i \in 1..n : e[i] % Group = u[i - 1] % Group /\ (e[i] < Group <=> i = n)
    BY <1>5, <2>4, Zenon
  <2>6. Shifts(u, v) /\ u[n] = 0
    BY <1>1 DEF Encodes
  <2>7. Groups(e, u, n)
    BY <2>4, <2>5, Zenon DEF Groups
  <2>8. ReadVarInt(e) = [err |-> "none", val |-> v, n |-> n]
    BY <1>3, <2>6, <2>7, ReadBack
  <2> QED BY <2>1, <2>8, Zenon
<1>7. ASSUME NEW k \in 0..(n - 1) PROVE ReadVarInt(SubSeq(d, 1, k)).err = "UnexpectedEOF"
  <2>1. 1 \in Int /\ k \in Int /\ \A i \in 1..k : d[i] \in Nat
    BY <1>3, <1>4, ElementOfSeq
  <2>2. /\ SubSeq(d, 1, k) \in Seq(Nat)
        /\ Len(SubSeq(d, 1, k)) = IF 1 <= k THEN k - 1 + 1 ELSE 0
        /\ \A i \in 1..(k - 1 + 1) : SubSeq(d, 1, k)[i] = d[1 + i - 1]
    BY <2>1, SubSeqProperties, SMTT(30)
  <2>3. PICK p : p = SubSeq(d, 1, k)
    OBVIOUS
  <2>4. Len(p) = k /\ \A i \in 1..k : p[i] = d[i]
    BY <2>2, <2>3
  <2>5. \A i \in 1..k : ~(d[i] < Group)
    <3>1. \A i \in 1..k : i \in 1..n /\ i # n
      BY <1>3
    <3> QED BY <3>1, <1>5, Zenon
  <2>6. \A i \in 1..Len(p) : ~(p[i] < Group)
    BY <2>4, <2>5, Zenon
  <2>7. Len(p) \in 0..(MaxVarIntBytes - 1)
    BY <1>0, <1>3, <2>4
  <2> QED BY <2>3, <2>6, <2>7, ReadCutOff, Zenon
<1> QED BY <1>2, <1>4, <1>6, <1>7, Zenon

\* VarIntsRoundTrip: ReadVarInt reads back what WriteVarInt writes, in as many
\* bytes as VarIntSize says, whatever byte of the stream follows, and asks for
\* more bytes as long as the last one of them is missing.
THEOREM VarIntsSurviveEncoding == Spec => []VarIntsRoundTrip
<1>1. StreamInv => VarIntsRoundTrip
  <2> SUFFICES ASSUME StreamInv, NEW v \in 0..(Word - 1)
               PROVE  LET d == WriteVarInt(v)
                      IN /\ ReadVarInt(d \o Unread) = [err |-> "none", val |-> v, n |-> VarIntSize(v)]
                         /\ \A k \in 0..(VarIntSize(v) - 1) :
                              ReadVarInt(SubSeq(d, 1, k)).err = "UnexpectedEOF"
    BY Zenon DEF VarIntsRoundTrip
  <2>1. PICK t \in Seq(Byte) : t = Unread
    BY UnreadType, Zenon DEF StreamInv
  <2>2. t \in Seq(Nat)
    <3>1. Byte \subseteq Nat
      BY DEF Byte
    <3>2. \A i \in 1..Len(t) : t[i] \in Nat
      BY <2>1, <3>1, ElementOfSeq
    <3>3. t = [i \in 1..Len(t) |-> t[i]] /\ Len(t) \in Nat
      BY <2>1, LenProperties
    <3>4. t \in [1..Len(t) -> Nat]
      BY <3>2, <3>3
    <3> QED BY <3>3, <3>4, SeqDef
  <2> QED BY <2>1, <2>2, RoundTrip, Zenon
<1> QED BY StreamInvariant, <1>1, PTL

-----------------------------------------------------------------------------
(* Strings and packets.                                                    *)

\* The parts of three sequences in a row.
Row(d, a, b, c) == {a, b, c} \subseteq Seq(Nat) /\ d = a \o (b \o c)
Parts(d, a, b, c) ==
  /\ d \in Seq(Nat) /\ Len(a) \in Nat /\ Len(b) \in Nat /\ Len(c) \in Nat
  /\ Len(d) = Len(a) + Len(b) + Len(c)
  /\ SubSeq(d, Len(a) + 1, Len(a) + Len(b)) = b
  /\ Rest(d, Len(a) + Len(b)) = c
LEMMA Cut ==
  ASSUME NEW d, NEW a, NEW b, NEW c, Row(d, a, b, c)
  PROVE  Parts(d, a, b, c)
<1>0. a \in Seq(Nat) /\ b \in Seq(Nat) /\ c \in Seq(Nat) /\ d = a \o (b \o c)
  BY DEF Row
<1>1. PICK k, m, n \in Nat : k = Len(a) /\ m = Len(b) /\ n = Len(c)
  BY <1>0, LenProperties
<1>2. PICK e : e = b \o c
  OBVIOUS
<1>3. /\ e \in Seq(Nat) /\ Len(e) = m + n
      /\ \A i \in 1..(m + n) : e[i] = IF i <= m THEN b[i] ELSE c[i - m]
  BY <1>0, <1>1, <1>2, ConcatProperties
<1>4. /\ d \in Seq(Nat) /\ Len(d) = k + (m + n)
      /\ \A i \in 1..(k + (m + n)) : d[i] = IF i <= k THEN a[i] ELSE e[i - k]
  <2>1. d = a \o e
    BY <1>0, <1>2
  <2> QED BY <1>0, <1>1, <1>3, <2>1, ConcatProperties
<1>5. ASSUME NEW i \in 1..m PROVE d[k + i] = b[i]
  <2>1. k + i \in 1..(k + (m + n)) /\ ~(k + i <= k) /\ (k + i) - k = i /\ i \in 1..(m + n) /\ i <= m
    OBVIOUS
  <2> QED BY <1>3, <1>4, <2>1
<1>6. ASSUME NEW i \in 1..n PROVE d[k + m + i] = c[i]
  <2>1. /\ k + m + i \in 1..(k + (m + n)) /\ ~(k + m + i <= k) /\ (k + m + i) - k = m + i
        /\ m + i \in 1..(m + n) /\ ~(m + i <= m) /\ (m + i) - m = i
    OBVIOUS
  <2> QED BY <1>3, <1>4, <2>1
<1>7. SubSeq(d, k + 1, k + m) = b
  <2>1. PICK s : s = SubSeq(d, k + 1, k + m)
    OBVIOUS
  <2>2. \A i \in (k + 1)..(k + m) : d[i] \in Nat
    BY <1>4, ElementOfSeq
  <2>3. /\ s \in Seq(Nat) /\ Len(s) = m
        /\ \A i \in 1..m : s[i] = d[k + i]
    <3>1. /\ s \in Seq(Nat)
          /\ Len(s) = IF k + 1 <= k + m THEN k + m - (k + 1) + 1 ELSE 0
          /\ \A i \in 1..(k + m - (k + 1) + 1) : s[i] = d[k + 1 + i - 1]
      BY <2>1, <2>2, SubSeqProperties
    <3>2. k + m - (k + 1) + 1 = m /\ \A i \in 1..m : k + 1 + i - 1 = k + i
      OBVIOUS
    <3> QED BY <3>1, <3>2
  <2> QED BY <1>0, <1>1, <1>5, <2>1, <2>3, SeqEqual, SMTT(30)
<1>8. Rest(d, k + m) = c
  <2>1. PICK s : s = SubSeq(d, k + m + 1, k + m + n)
    OBVIOUS
  <2>2. \A i \in (k + m + 1)..(k + m + n) : d[i] \in Nat
    BY <1>4, ElementOfSeq
  <2>3. /\ s \in Seq(Nat) /\ Len(s) = n
        /\ \A i \in 1..n : s[i] = d[k + m + i]
    <3>1. /\ s \in Seq(Nat)
          /\ Len(s) = IF k + m + 1 <= k + m + n THEN k + m + n - (k + m + 1) + 1 ELSE 0
          /\ \A i \in 1..(k + m + n - (k + m + 1) + 1) : s[i] = d[k + m + 1 + i - 1]
      BY <2>1, <2>2, SubSeqProperties
    <3>2. k + m + n - (k + m + 1) + 1 = n /\ \A i \in 1..n : k + m + 1 + i - 1 = k + m + i
      OBVIOUS
    <3> QED BY <3>1, <3>2
  <2>4. s = c
    BY <1>0, <1>1, <1>6, <2>3, SeqEqual
  <2>5. Rest(d, k + m) = SubSeq(d, k + m + 1, k + m + n)
    <3>1. Len(d) = k + m + n
      BY <1>4
    <3> QED BY <3>1, Zenon DEF Rest
  <2> QED BY <2>1, <2>4, <2>5
<1>9. d \in Seq(Nat) /\ Len(d) = k + m + n
  BY <1>4
<1> QED BY <1>1, <1>7, <1>8, <1>9, Zenon DEF Parts

\* A string of at most the greatest length.
Text == {s \in Seq(Nat) : Len(s) <= MaxStringLength}

\* ReadString reads a string that WriteString has written.
Written(d, s, t) == d = WriteString(s) \o t
LEMMA StringRead ==
  ASSUME NEW s \in Text, NEW t \in Seq(Nat), NEW d, Written(d, s, t)
  PROVE  ReadString(d).err = "none" /\ ReadString(d).val = s /\ Rest(d, ReadString(d).n) = t
<1>0. s \in Seq(Nat) /\ Len(s) \in Nat /\ Len(s) <= MaxStringLength
  BY LenProperties DEF Text
<1>1. PICK v \in 0..(Word - 1) : v = Len(s)
  <2>1. PICK top : top = Word - 1
    OBVIOUS
  <2>2. MaxStringLength \in 0..top
    BY <2>1, CodecAssumption, Zenon
  <2>3. top \in Int
    BY <2>1, WeightAssumption, WeightType, CodecAssumption
  <2>4. Len(s) \in 0..top
    BY <1>0, <2>2, <2>3
  <2> QED BY <2>1, <2>4, Zenon
<1>2. v \in Nat
  BY <1>0, <1>1
<1>3. PICK u, n : Encodes(u, v, n)
  BY WriteVarIntDef
<1>4. VarIntSize(v) = n
  BY <1>2, <1>3, VarIntSizeDef
<1>5. PICK w \in Seq(Nat) : w = WriteVarInt(v) /\ Len(w) = n
  BY <1>2, <1>3, EncodedBytes
<1>6. s \o t \in Seq(Nat)
  BY <1>0, ConcatProperties
<1>7. d = w \o (s \o t)
  <2>1. WriteString(s) = w \o s
    BY <1>1, <1>5, Zenon DEF WriteString
  <2>2. (w \o s) \o t = w \o (s \o t)
    BY <1>0, <1>5, ConcatAssociative, SMTT(30)
  <2> QED BY <2>1, <2>2, Zenon DEF Written
<1>8. PICK length : length = ReadVarInt(d)
  OBVIOUS
<1>9. length.err = "none" /\ length.val = v /\ length.n = n
  <2>1. ReadVarInt(w \o (s \o t)) = [err |-> "none", val |-> v, n |-> VarIntSize(v)]
    BY <1>5, <1>6, RoundTrip, Zenon
  <2> QED BY <1>4, <1>7, <1>8, <2>1
<1>10. /\ n \in Nat /\ v \in Nat /\ Len(t) \in Nat /\ Len(d) = n + v + Len(t)
       /\ SubSeq(d, n + 1, n + v) = s /\ Rest(d, n + v) = t
  <2>1. Row(d, w, s, t)
    BY <1>0, <1>5, <1>7 DEF Row
  <2>2. /\ Len(w) \in Nat /\ Len(s) \in Nat /\ Len(t) \in Nat
        /\ Len(d) = Len(w) + Len(s) + Len(t)
        /\ SubSeq(d, Len(w) + 1, Len(w) + Len(s)) = s /\ Rest(d, Len(w) + Len(s)) = t
    <3>1. Parts(d, w, s, t)
      BY <2>1, Cut, Zenon
    <3> QED BY <3>1, Zenon DEF Parts
  <2> QED BY <2>2, <1>1, <1>5, Zenon
<1>11. ~(v > MaxStringLength) /\ ~(n + v > Len(d))
  <2>1. MaxStringLength \in Int
    <3>1. Word - 1 \in Int
      BY WeightAssumption, WeightType, CodecAssumption
    <3> QED BY <3>1, CodecAssumption
  <2>2. n \in Nat /\ v \in Nat /\ Len(t) \in Nat /\ Len(d) = n + v + Len(t) /\ v <= MaxStringLength
    BY <1>0, <1>1, <1>10
  <2>3. \A N, V, T \in Nat : ~(N + V > N + V + T)
    OBVIOUS
  <2>4. ~(n + v > Len(d))
    BY <2>2, <2>3, Zenon
  <2>5. ~(v > MaxStringLength)
    BY <2>1, <2>2
  <2> QED BY <2>4, <2>5
<1>12. ReadString(d) = [err |-> "none", val |-> SubSeq(d, n + 1, n + v), n |-> n + v]
  <2>1. /\ ~(length.err # "none") /\ ~(length.val > MaxStringLength)
        /\ ~(length.n + length.val > Len(d))
    BY <1>9, <1>11
  <2>2. ReadString(d) = [err |-> "none", val |-> SubSeq(d, length.n + 1, length.n + length.val),
                         n |-> length.n + length.val]
    BY <1>8, <2>1, Zenon DEF ReadString
  <2> QED BY <1>9, <2>2, Zenon
<1>13. ReadString(d).err = "none" /\ ReadString(d).val = s /\ ReadString(d).n = n + v
  <2>1. PICK r, x, m : r = ReadString(d) /\ x = SubSeq(d, n + 1, n + v) /\ m = n + v
    OBVIOUS
  <2>2. r = [err |-> "none", val |-> x, n |-> m] /\ x = s
    BY <1>10, <1>12, <2>1, Zenon
  <2>3. r.err = "none" /\ r.val = s /\ r.n = m
    BY <2>2
  <2> QED BY <2>1, <2>3, Zenon
<1> QED BY <1>10, <1>13, Zenon


\* What ReadStrings reads: R[i] follows the first i strings.
Reads(R, d, k) ==
  \A i \in 0..k : R[i] = IF i = 0 THEN d ELSE Rest(R[i - 1], ReadString(R[i - 1]).n)
Sound(R, k) == {m \in 0..k : \A i \in 1..m : ReadString(R[i - 1]).err = "none"}
Found(R, k) ==
  [strings |-> [i \in 1..Max(Sound(R, k)) |-> ReadString(R[i - 1]).val],
   rest |-> IF Max(Sound(R, k)) = k THEN R[k] ELSE <<>>]
LEMMA ReadStringsDef ==
  ASSUME NEW d, NEW k \in Nat
  PROVE  \E R : Reads(R, d, k) /\ ReadStrings(d, k) = Found(R, k)
<1> DEFINE After(x) == Rest(x, ReadString(x).n)
           Is(g, m) == g = [i \in 0..m |-> IF i = 0 THEN d ELSE After(g[i - 1])]
           T == {m \in 0..k : \E g : Is(g, m)}
<1>1. 0 \in T
  <2>1. Is([i \in 0..0 |-> d], 0)
    <3>1. PICK g : g = [i \in 0..0 |-> d]
      OBVIOUS
    <3>2. \A i \in 0..0 : i = 0 /\ g[i] = d
      BY <3>1
    <3> HIDE DEF After
    <3> QED BY <3>1, <3>2
  <2>2. 0 \in 0..k
    OBVIOUS
  <2> HIDE DEF Is
  <2> QED BY <2>1, <2>2
<1>2. ASSUME NEW m \in 0..(k - 1), m \in T PROVE m + 1 \in T
  <2>1. PICK g : Is(g, m)
    BY <1>2
  <2>2. PICK x : x = After(g[m])
    OBVIOUS
  <2>3. PICK h : h = [i \in 0..(m + 1) |-> IF i = m + 1 THEN x ELSE g[i]]
    OBVIOUS
  <2>4. ASSUME NEW i \in 0..(m + 1) PROVE h[i] = IF i = 0 THEN d ELSE After(h[i - 1])
    <3>1. CASE i = m + 1
      <4>1. i # 0 /\ i - 1 = m /\ m \in 0..(m + 1) /\ m # m + 1
        BY <3>1
      <4>2. h[m] = g[m] /\ h[i] = x
        BY <2>3, <3>1, <4>1
      <4> HIDE DEF After
      <4> QED BY <2>2, <4>1, <4>2, Zenon
    <3>2. CASE i # m + 1
      <4>1. i \in 0..m /\ (i # 0 => i - 1 \in 0..m /\ i - 1 \in 0..(m + 1) /\ i - 1 # m + 1)
        BY <3>2
      <4> HIDE DEF After
      <4>2. g[i] = IF i = 0 THEN d ELSE After(g[i - 1])
        BY <2>1, <4>1
      <4>3. h[i] = g[i] /\ (i # 0 => h[i - 1] = g[i - 1])
        BY <2>3, <3>2, <4>1
      <4> QED BY <4>2, <4>3
    <3> QED BY <3>1, <3>2
  <2>5. Is(h, m + 1)
    <3> HIDE DEF After
    <3>1. h = [i \in 0..(m + 1) |-> h[i]]
      BY <2>3
    <3> QED BY <2>4, <3>1
  <2>6. m + 1 \in 0..k
    OBVIOUS
  <2> HIDE DEF Is
  <2> QED BY <2>5, <2>6
<1>3. k \in T
  <2>1. 0 \in Int /\ k \in Int /\ k \in 0..k
    OBVIOUS
  <2> HIDE DEF T
  <2>2. 0..k \subseteq T
    BY <1>1, <1>2, <2>1, IntervalInduction, Zenon
  <2> QED BY <2>1, <2>2
<1>4. PICK g : Is(g, k)
  BY <1>3
<1> DEFINE C == CHOOSE f : Is(f, k)
<1>5. Is(C, k)
  BY <1>4, Zenon
<1>6. ReadStrings(d, k) = Found(C, k)
  BY Zenon DEF ReadStrings, Found, Sound
<1> HIDE DEF C
<1>7. Reads(C, d, k)
  <2> SUFFICES ASSUME NEW i \in 0..k
               PROVE  C[i] = IF i = 0 THEN d ELSE After(C[i - 1])
    BY DEF Reads
  <2> HIDE DEF After
  <2> QED BY <1>5
<1> QED BY <1>6, <1>7

\* Bytes are numbers.
LEMMA BytesAreNumbers ==
  ASSUME NEW s \in Seq(Byte)
  PROVE  s \in Seq(Nat)
<1>1. Byte \subseteq Nat
  BY DEF Byte
<1>2. \A i \in 1..Len(s) : s[i] \in Nat
  BY <1>1, ElementOfSeq
<1>3. s = [i \in 1..Len(s) |-> s[i]] /\ Len(s) \in Nat
  BY LenProperties
<1>4. s \in [1..Len(s) -> Nat]
  BY <1>2, <1>3
<1> QED BY <1>3, <1>4, SeqDef

LEMMA RestType ==
  ASSUME NEW d \in Seq(Nat), NEW n \in Nat
  PROVE  Rest(d, n) \in Seq(Nat)
<1>1. Len(d) \in Int /\ n + 1 \in Int /\ \A i \in (n + 1)..Len(d) : i \in 1..Len(d)
  BY LenProperties
<1>2. \A i \in (n + 1)..Len(d) : d[i] \in Nat
  BY <1>1, ElementOfSeq
<1> QED BY <1>1, <1>2, SubSeqProperties, Zenon DEF Rest

LEMMA RestOfAll ==
  ASSUME NEW d \in Seq(Nat)
  PROVE  Rest(d, 0) = d
<1>1. Len(d) \in Int /\ 0 + 1 = 1 /\ 1 \in Int /\ \A i \in 1..Len(d) : d[i] \in Nat
  BY LenProperties, ElementOfSeq
<1>2. PICK s : s = SubSeq(d, 1, Len(d))
  OBVIOUS
<1>3. /\ s \in Seq(Nat) /\ Len(s) = IF 1 <= Len(d) THEN Len(d) - 1 + 1 ELSE 0
      /\ \A i \in 1..(Len(d) - 1 + 1) : s[i] = d[1 + i - 1]
  BY <1>1, <1>2, SubSeqProperties
<1>4. Len(s) = Len(d) /\ \A i \in 1..Len(s) : s[i] = d[i]
  BY <1>1, <1>3, LenProperties
<1>5. s = d
  BY <1>3, <1>4, SeqEqual
<1>6. Rest(d, 0) = s
  BY <1>1, <1>2, Zenon DEF Rest
<1> QED BY <1>5, <1>6, Zenon

\* ReadString returns an error where no string is.
LEMMA NothingRead ==
  ASSUME NEW d \in Seq(Nat), NoString(d)
  PROVE  ReadString(d).err # "none"
<1>1. PICK length : length = ReadVarInt(d)
  OBVIOUS
<1>2. CASE d = <<>>
  <2>1. Len(d) \in 0..(MaxVarIntBytes - 1) /\ \A i \in 1..Len(d) : ~(d[i] < Group)
    BY <1>2, CodecAssumption
  <2>2. length.err = "UnexpectedEOF"
    BY <1>1, <2>1, ReadCutOff
  <2>3. ReadString(d) = Failed(length.err)
    <3>1. length.err # "none"
      BY <2>2
    <3> QED BY <1>1, <3>1, Zenon DEF ReadString
  <2> QED BY <2>2, <2>3 DEF Failed
<1>3. CASE d # <<>>
  <2>1. PICK v \in 0..(Word - 1) :
          /\ d = WriteVarInt(v) \o Rest(d, VarIntSize(v))
          /\ v > MaxStringLength \/ v > Len(Rest(d, VarIntSize(v)))
    BY <1>3, Zenon DEF NoString
  <2>2. v \in Nat
    OBVIOUS
  <2>3. PICK u, n : Encodes(u, v, n)
    BY WriteVarIntDef
  <2>4. VarIntSize(v) = n
    BY <2>2, <2>3, VarIntSizeDef
  <2>5. n \in Nat
    BY <2>3, CodecAssumption DEF Encodes
  <2>6. PICK w \in Seq(Nat) : w = WriteVarInt(v) /\ Len(w) = n
    BY <2>2, <2>3, EncodedBytes
  <2>7. PICK t \in Seq(Nat) : t = Rest(d, n)
    BY <2>5, RestType
  <2>8. d = w \o t /\ (v > MaxStringLength \/ v > Len(t))
    BY <2>1, <2>4, <2>6, <2>7, Zenon
  <2>9. length.err = "none" /\ length.val = v /\ length.n = n
    <3>1. ReadVarInt(w \o t) = [err |-> "none", val |-> v, n |-> n]
      BY <2>4, <2>6, RoundTrip, Zenon
    <3>2. length = [err |-> "none", val |-> v, n |-> n]
      BY <1>1, <2>8, <3>1, Zenon
    <3> QED BY <3>2
  <2>10. Len(d) = n + Len(t) /\ Len(t) \in Nat
    <3>1. Len(w \o t) = Len(w) + Len(t) /\ Len(t) \in Nat
      BY ConcatProperties, LenProperties
    <3> QED BY <2>6, <2>8, <3>1, Zenon
  <2>11. CASE v > MaxStringLength
    <3>1. ReadString(d) = Failed("StringTooLong")
      <4>1. ~(length.err # "none") /\ length.val > MaxStringLength
        BY <2>9, <2>11
      <4> QED BY <1>1, <4>1, Zenon DEF ReadString
    <3> QED BY <3>1 DEF Failed
  <2>12. CASE ~(v > MaxStringLength)
    <3>1. ReadString(d) = Failed("UnexpectedEOF")
      <4>1. ~(length.err # "none") /\ ~(length.val > MaxStringLength)
        BY <2>9, <2>12
      <4>2. length.n + length.val > Len(d)
        <5>1. \A N, T, V \in Nat : V > T => N + V > N + T
          OBVIOUS
        <5>2. n + v > Len(d)
          BY <2>2, <2>5, <2>8, <2>10, <2>12, <5>1, Zenon
        <5> QED BY <2>9, <5>2, Zenon
      <4> QED BY <1>1, <4>1, <4>2, Zenon DEF ReadString
    <3> QED BY <3>1 DEF Failed
  <2> QED BY <2>11, <2>12
<1> QED BY <1>2, <1>3

\* The strings ss as they lie in d: q[i] is what follows the i-th.
Laid(q, d, k, ss) ==
  /\ q[0] = d
  /\ \A i \in 1..Len(ss) : ss[i] \in Text /\ q[i] \in Seq(Nat) /\ Written(q[i - 1], ss[i], q[i])
  /\ Len(ss) = k \/ (Len(ss) < k /\ ReadString(q[Len(ss)]).err # "none")

LEMMA CarriedLaid ==
  ASSUME NEW d \in Seq(Nat), NEW k \in Nat, NEW ss \in Seq(Seq(Byte)), NEW rest,
         Carries(d, k, ss, rest)
  PROVE  \E q : /\ Laid(q, d, k, ss)
                /\ rest = IF Len(ss) = k THEN q[Len(ss)] ELSE <<>>
<1>1. PICK m \in Nat : m = Len(ss)
  BY LenProperties
<1>2. PICK at \in [0..m -> 0..Len(d)] :
        /\ at[0] = 0
        /\ \A i \in 1..m : /\ Len(ss[i]) <= MaxStringLength
                           /\ Rest(d, at[i - 1]) = WriteString(ss[i]) \o Rest(d, at[i])
        /\ \/ m = k /\ rest = Rest(d, at[k])
           \/ m < k /\ rest = <<>> /\ NoString(Rest(d, at[m]))
  BY <1>1, Zenon DEF Carries
<1>3. PICK q : q = [i \in 0..m |-> Rest(d, at[i])]
  OBVIOUS
<1>4. \A i \in 0..m : q[i] = Rest(d, at[i]) /\ q[i] \in Seq(Nat)
  <2> SUFFICES ASSUME NEW i \in 0..m PROVE q[i] = Rest(d, at[i]) /\ q[i] \in Seq(Nat)
    OBVIOUS
  <2>1. q[i] = Rest(d, at[i])
    BY <1>3
  <2>2. at[i] \in Nat
    <3>1. Len(d) \in Nat
      BY LenProperties
    <3> QED BY <3>1
  <2> QED BY <2>1, <2>2, RestType, Zenon
<1>5. q[0] = d
  <2>1. 0 \in 0..m
    OBVIOUS
  <2> QED BY <1>2, <1>4, <2>1, RestOfAll, Zenon
<1>6. ASSUME NEW i \in 1..m
      PROVE  ss[i] \in Text /\ q[i] \in Seq(Nat) /\ Written(q[i - 1], ss[i], q[i])
  <2>1. i \in 0..m /\ i - 1 \in 0..m
    OBVIOUS
  <2>2. ss[i] \in Seq(Nat)
    BY <1>1, ElementOfSeq, BytesAreNumbers
  <2>3. ss[i] \in Text
    BY <1>2, <2>2 DEF Text
  <2>4. q[i - 1] = Rest(d, at[i - 1]) /\ q[i] = Rest(d, at[i]) /\ q[i] \in Seq(Nat)
    BY <1>4, <2>1, Zenon
  <2>5. Rest(d, at[i - 1]) = WriteString(ss[i]) \o Rest(d, at[i])
    BY <1>2, Zenon
  <2> QED BY <2>3, <2>4, <2>5, Zenon DEF Written
<1>7. m \in 0..m
  OBVIOUS
<1>8. CASE m = k
  <2>1. ~(m < k)
    BY <1>8
  <2>2. rest = q[m]
    BY <1>2, <1>4, <1>7, <1>8, <2>1
  <2> QED BY <1>1, <1>5, <1>6, <1>8, <2>2, Zenon DEF Laid
<1>9. CASE m # k
  <2>1. m < k /\ rest = <<>> /\ NoString(q[m])
    BY <1>2, <1>4, <1>7, <1>9
  <2>2. ReadString(q[m]).err # "none"
    BY <1>4, <1>7, <2>1, NothingRead
  <2> QED BY <1>1, <1>5, <1>6, <1>9, <2>1, <2>2, Zenon DEF Laid
<1> QED BY <1>8, <1>9

LEMMA Greatest ==
  ASSUME NEW S \in SUBSET Int, NEW n \in S, \A m \in S : m <= n
  PROVE  Max(S) = n
<1>1. \A m \in S : n >= m
  OBVIOUS
<1>2. ASSUME NEW x \in S, \A m \in S : x >= m PROVE x = n
  BY <1>2
<1> QED BY <1>1, <1>2, Zenon DEF Max

\* ReadStrings reads the strings that lie in d, no more and no fewer.
LEMMA StringsRead ==
  ASSUME NEW k \in Nat, NEW ss \in Seq(Seq(Byte)), NEW d, NEW q, Laid(q, d, k, ss)
  PROVE  ReadStrings(d, k) = [strings |-> ss, rest |-> IF Len(ss) = k THEN q[Len(ss)] ELSE <<>>]
<1>1. PICK m \in Nat : m = Len(ss)
  BY LenProperties
<1>2. /\ q[0] = d
      /\ \A i \in 1..m : ss[i] \in Text /\ q[i] \in Seq(Nat) /\ Written(q[i - 1], ss[i], q[i])
      /\ m = k \/ (m < k /\ ReadString(q[m]).err # "none")
  BY <1>1, Zenon DEF Laid
<1>3. m <= k
  BY <1>2
<1>4. PICK R : Reads(R, d, k) /\ ReadStrings(d, k) = Found(R, k)
  BY ReadStringsDef
<1>5. ASSUME NEW i \in 1..m
      PROVE  /\ ReadString(q[i - 1]).err = "none" /\ ReadString(q[i - 1]).val = ss[i]
             /\ Rest(q[i - 1], ReadString(q[i - 1]).n) = q[i]
  <2>1. PICK s, t, e : s = ss[i] /\ t = q[i] /\ e = q[i - 1]
    OBVIOUS
  <2>2. s \in Text /\ t \in Seq(Nat) /\ Written(e, s, t)
    BY <1>2, <2>1, Zenon
  <2>3. ReadString(e).err = "none" /\ ReadString(e).val = s /\ Rest(e, ReadString(e).n) = t
    BY <2>2, StringRead
  <2> QED BY <2>1, <2>3, Zenon
<1>6. \A i \in 0..m : R[i] = q[i]
  <2> DEFINE T == {i \in 0..m : R[i] = q[i]}
  <2>1. 0 \in T
    <3>1. 0 \in 0..m /\ 0 \in 0..k
      OBVIOUS
    <3>2. R[0] = d
      BY <1>4, <3>1, Zenon DEF Reads
    <3> QED BY <1>2, <3>1, <3>2
  <2>2. ASSUME NEW i \in 0..(m - 1), i \in T PROVE i + 1 \in T
    <3>1. i + 1 \in 0..m /\ i + 1 \in 0..k /\ i + 1 \in 1..m /\ i + 1 # 0 /\ (i + 1) - 1 = i
      BY <1>3
    <3>2. R[i] = q[i]
      BY <2>2
    <3>3. R[i + 1] = Rest(R[(i + 1) - 1], ReadString(R[(i + 1) - 1]).n)
      BY <1>4, <3>1, Zenon DEF Reads
    <3>4. Rest(q[(i + 1) - 1], ReadString(q[(i + 1) - 1]).n) = q[i + 1]
      BY <1>5, <3>1, Zenon
    <3>5. R[i + 1] = q[i + 1]
      BY <3>1, <3>2, <3>3, <3>4, Zenon
    <3> QED BY <3>1, <3>5
  <2>3. 0 \in Int /\ m \in Int
    OBVIOUS
  <2>4. 0..m \subseteq T
    <3> HIDE DEF T
    <3> QED BY <2>1, <2>2, <2>3, IntervalInduction, Zenon
  <2> QED BY <2>4
<1>7. ASSUME NEW i \in 1..m
      PROVE  ReadString(R[i - 1]).err = "none" /\ ReadString(R[i - 1]).val = ss[i]
  <2>1. i - 1 \in 0..m
    OBVIOUS
  <2>2. R[i - 1] = q[i - 1]
    BY <1>6, <2>1, Zenon
  <2> QED BY <1>5, <2>2, Zenon
<1>8. Max(Sound(R, k)) = m
  <2>1. m \in Sound(R, k)
    <3>1. m \in 0..k
      BY <1>3
    <3>2. \A i \in 1..m : ReadString(R[i - 1]).err = "none"
      BY <1>7
    <3> QED BY <3>1, <3>2, Zenon DEF Sound
  <2>2. ASSUME NEW x \in Sound(R, k) PROVE x <= m
    <3>1. x \in 0..k /\ \A i \in 1..x : ReadString(R[i - 1]).err = "none"
      BY DEF Sound
    <3>2. ASSUME x > m PROVE FALSE
      <4>1. m + 1 \in 1..x /\ (m + 1) - 1 = m /\ m # k /\ m \in 0..m
        BY <3>1, <3>2
      <4>2. ReadString(R[m]).err = "none"
        BY <3>1, <4>1, Zenon
      <4>3. ReadString(q[m]).err # "none"
        BY <1>2, <4>1, Zenon
      <4> QED BY <1>6, <4>1, <4>2, <4>3, Zenon
    <3> QED BY <3>1, <3>2
  <2>3. Sound(R, k) \in SUBSET Int
    BY DEF Sound
  <2> QED BY <2>1, <2>2, <2>3, Greatest
<1>9. ss = [i \in 1..m |-> ReadString(R[i - 1]).val]
  <2>1. ss = [i \in 1..m |-> ss[i]]
    BY <1>1, LenProperties
  <2>2. [i \in 1..m |-> ss[i]] = [i \in 1..m |-> ReadString(R[i - 1]).val]
    BY <1>7
  <2> QED BY <2>1, <2>2, Zenon
<1>10. m \in 0..m
  OBVIOUS
<1>11. R[m] = q[m]
  BY <1>6, <1>10
<1>12. CASE m = k
  <2>1. Found(R, k) = [strings |-> ss, rest |-> q[m]]
    BY <1>8, <1>9, <1>11, <1>12, Zenon DEF Found
  <2> QED BY <1>1, <1>4, <1>12, <2>1, Zenon
<1>13. CASE m # k
  <2>1. Found(R, k) = [strings |-> ss, rest |-> <<>>]
    BY <1>8, <1>9, <1>13, Zenon DEF Found
  <2> QED BY <1>1, <1>4, <1>13, <2>1, Zenon
<1> QED BY <1>12, <1>13

LEMMA NumbersAssoc ==
  \A a, b, c \in Seq(Nat) : (a \o b) \o c = a \o (b \o c)
BY ConcatAssociative, SMTT(30)

\* The parsers find what the peer has put into a packet.
LEMMA ConnectRead ==
  ASSUME NEW d \in Seq(Byte), NEW meaning, ConnectMeans(d, meaning)
  PROVE  ParseConnect(d) = meaning
<1>0. HashSize \in Nat /\ UUIDSize \in Nat /\ d \in Seq(Nat) /\ Len(d) \in Nat
  BY CodecAssumption, BytesAreNumbers, LenProperties
<1>1. PICK fixed \in Nat : fixed = HashSize + 1 + UUIDSize
  BY <1>0
<1>2. PICK tail \in Seq(Nat) : tail = Rest(d, fixed)
  BY <1>0, RestType
<1>3. CASE Len(d) < ConnectPacketMinSize
  <2>1. ~(Len(d) >= ConnectPacketMinSize)
    <3>1. ConnectPacketMinSize \in Int
      BY CodecAssumption
    <3> QED BY <1>0, <1>3, <3>1
  <2>2. meaning = [err |-> "ConnectTooShort"]
    BY <2>1, Zenon DEF ConnectMeans
  <2> QED BY <1>3, <2>2, Zenon DEF ParseConnect
<1>4. CASE ~(Len(d) < ConnectPacketMinSize)
  <2>1. /\ meaning \in [err : {"none"}, hash : Seq(Byte), clientType : Byte, uuid : Seq(Byte),
                        strings : Seq(Seq(Byte)), referral : Seq(Byte)]
        /\ Len(meaning.hash) = HashSize /\ Len(meaning.uuid) = UUIDSize
        /\ d = meaning.hash \o <<meaning.clientType>> \o meaning.uuid \o tail
        /\ Carries(tail, 3, meaning.strings, meaning.referral)
    BY <1>1, <1>2, <1>4, Zenon DEF ConnectMeans
  <2>2. PICK h, c, u, ss, rest :
          /\ h = meaning.hash /\ c = meaning.clientType /\ u = meaning.uuid
          /\ ss = meaning.strings /\ rest = meaning.referral
    OBVIOUS
  <2>3. /\ h \in Seq(Byte) /\ c \in Byte /\ u \in Seq(Byte) /\ ss \in Seq(Seq(Byte))
        /\ meaning = [err |-> "none", hash |-> h, clientType |-> c, uuid |-> u,
                      strings |-> ss, referral |-> rest]
    BY <2>1, <2>2
  <2>4. /\ Len(h) = HashSize /\ Len(u) = UUIDSize /\ d = ((h \o <<c>>) \o u) \o tail
        /\ Carries(tail, 3, ss, rest)
    BY <2>1, <2>2, Zenon
  <2>5. /\ h \in Seq(Nat) /\ u \in Seq(Nat) /\ <<c>> \in Seq(Nat) /\ <<>> \in Seq(Nat)
        /\ Len(<<c>>) = 1 /\ <<c>>[1] = c /\ Len(<<>>) = 0
    BY <2>3, BytesAreNumbers DEF Byte
  <2>6. PICK x \in Seq(Nat) : x = u \o tail
    BY <2>5, ConcatProperties
  <2>7. PICK y \in Seq(Nat) : y = <<c>> \o x
    BY <2>5, ConcatProperties
  <2>8. PICK a \in Seq(Nat) : a = h \o <<c>> /\ Len(a) = HashSize + 1
    <3>1. h \o <<c>> \in Seq(Nat) /\ Len(h \o <<c>>) = Len(h) + Len(<<c>>)
      BY <2>5, ConcatProperties, Zenon
    <3> QED BY <2>4, <2>5, <3>1, Zenon
  <2>9. d = a \o x
    <3>1. (a \o u) \o tail = a \o (u \o tail)
      <4>1. a \in Seq(Nat) /\ u \in Seq(Nat) /\ tail \in Seq(Nat)
        BY <2>5, <2>8
      <4> QED BY <4>1, NumbersAssoc
    <3> QED BY <2>4, <2>6, <2>8, <3>1, Zenon
  <2>10. d = h \o y
    <3>1. (h \o <<c>>) \o x = h \o (<<c>> \o x)
      <4>1. PICK p \in Seq(Nat), b \in Seq(Nat) : p = h /\ b = <<c>>
        BY <2>5
      <4>2. (p \o b) \o x = p \o (b \o x)
        BY NumbersAssoc, ZenonT(60)
      <4> QED BY <4>1, <4>2, Zenon
    <3> QED BY <2>7, <2>8, <2>9, <3>1, Zenon
  <2>11. SubSeq(d, 1, HashSize) = h
    <3>1. <<>> \o d = d
      BY <1>0, ConcatEmptySeq
    <3>2. Row(d, <<>>, h, y)
      BY <2>5, <2>10, <3>1 DEF Row
    <3>3. SubSeq(d, Len(<<>>) + 1, Len(<<>>) + Len(h)) = h
      <4>1. Parts(d, <<>>, h, y)
        BY <3>2, Cut, Zenon
      <4> QED BY <4>1, Zenon DEF Parts
    <3>4. Len(<<>>) + 1 = 1 /\ Len(<<>>) + Len(h) = HashSize
      BY <1>0, <2>4, <2>5
    <3> QED BY <3>3, <3>4, Zenon
  <2>12. d[HashSize + 1] = c
    <3>1. HashSize + 1 \in 1..Len(a) /\ HashSize + 1 <= Len(a) /\ Len(a) \in Nat /\ Len(x) \in Nat
      BY <1>0, <2>8, LenProperties
    <3>2. d[HashSize + 1] = a[HashSize + 1]
      <4>1. PICK i : i = HashSize + 1
        OBVIOUS
      <4>2. i \in 1..(Len(a) + Len(x)) /\ i <= Len(a)
        BY <3>1, <4>1
      <4>3. (a \o x)[i] = a[i]
        BY <4>2, ConcatProperties
      <4> QED BY <2>9, <4>1, <4>3, Zenon
    <3>3. a[HashSize + 1] = c
      <4>1. PICK i : i = HashSize + 1
        OBVIOUS
      <4>2. i \in 1..(Len(h) + Len(<<c>>)) /\ ~(i <= Len(h)) /\ i - Len(h) = 1
        BY <1>0, <2>4, <2>5, <4>1
      <4>3. (h \o <<c>>)[i] = <<c>>[i - Len(h)]
        BY <2>5, <4>2, ConcatProperties
      <4> QED BY <2>5, <2>8, <4>1, <4>2, <4>3, Zenon
    <3> QED BY <3>2, <3>3, Zenon
  <2>13. SubSeq(d, HashSize + 2, fixed) = u
    <3>1. d = a \o (u \o tail)
      BY <2>6, <2>9, Zenon
    <3>2. Row(d, a, u, tail)
      BY <2>5, <3>1 DEF Row
    <3>3. SubSeq(d, Len(a) + 1, Len(a) + Len(u)) = u
      <4>1. Parts(d, a, u, tail)
        BY <3>2, Cut, Zenon
      <4> QED BY <4>1, Zenon DEF Parts
    <3>4. Len(a) + 1 = HashSize + 2 /\ Len(a) + Len(u) = fixed
      <4>1. (HashSize + 1) + 1 = HashSize + 2
        BY <1>0
      <4> QED BY <1>1, <2>4, <2>8, <4>1, Zenon
    <3> QED BY <3>3, <3>4, Zenon
  <2>14. PICK q : Laid(q, tail, 3, ss) /\ rest = IF Len(ss) = 3 THEN q[Len(ss)] ELSE <<>>
    <3>1. PICK k \in Nat : k = 3
      OBVIOUS
    <3>2. Carries(tail, k, ss, rest)
      BY <2>4, <3>1, Zenon
    <3>3. \E q : Laid(q, tail, k, ss) /\ rest = IF Len(ss) = k THEN q[Len(ss)] ELSE <<>>
      BY <2>3, <3>2, CarriedLaid
    <3> QED BY <3>1, <3>3, Zenon
  <2>15. ReadStrings(tail, 3) = [strings |-> ss, rest |-> rest]
    <3>1. ReadStrings(tail, 3) = [strings |-> ss, rest |-> IF Len(ss) = 3 THEN q[Len(ss)] ELSE <<>>]
      BY <2>3, <2>14, StringsRead
    <3> QED BY <2>14, <3>1, Zenon
  <2>16. ReadStrings(tail, 3).strings = ss /\ ReadStrings(tail, 3).rest = rest
    BY <2>15
  <2>17. ParseConnect(d)
           = [err |-> "none", hash |-> SubSeq(d, 1, HashSize), clientType |-> d[HashSize + 1],
              uuid |-> SubSeq(d, HashSize + 2, fixed),
              strings |-> ReadStrings(tail, 3).strings, referral |-> ReadStrings(tail, 3).rest]
    BY <1>1, <1>2, <1>4, Zenon DEF ParseConnect
  <2> QED BY <2>3, <2>11, <2>12, <2>13, <2>16, <2>17, Zenon
<1> QED BY <1>3, <1>4

LEMMA DisconnectRead ==
  ASSUME NEW d \in Seq(Byte), NEW meaning, DisconnectMeans(d, meaning)
  PROVE  ParseDisconnect(d) = meaning
<1>1. PICK n : Carries(d, 1, meaning.strings, Rest(d, n))
  BY Zenon DEF DisconnectMeans
<1>2. PICK ss \in Seq(Seq(Byte)) : ss = meaning.strings /\ meaning = [err |-> "none", strings |-> ss]
  BY DEF DisconnectMeans
<1>3. d \in Seq(Nat)
  BY BytesAreNumbers
<1>4. PICK q : Laid(q, d, 1, ss)
  BY <1>1, <1>2, <1>3, CarriedLaid
<1>5. ReadStrings(d, 1) = [strings |-> ss, rest |-> IF Len(ss) = 1 THEN q[Len(ss)] ELSE <<>>]
  BY <1>4, StringsRead
<1>6. ReadStrings(d, 1).strings = ss
  BY <1>5
<1> QED BY <1>2, <1>6, Zenon DEF ParseDisconnect

LEMMA MessageRead ==
  ASSUME NEW m \in Messages
  PROVE  ParsePacket(m.packet) = m.meaning
<1>1. PICK id, d, meaning : id = m.packet.id /\ d = m.packet.data /\ meaning = m.meaning
  OBVIOUS
<1>2. /\ d \in Seq(Byte)
      /\ id = PacketConnect => ConnectMeans(d, meaning)
      /\ id = PacketDisconnect => DisconnectMeans(d, meaning)
      /\ id \notin {PacketConnect, PacketDisconnect} => OtherMeans(meaning)
  <2>1. m.packet.data \in Seq(Byte)
    BY MessageAssumption
  <2> QED BY <1>1, <2>1, MessageAssumption, Zenon
<1>3. PacketConnect # PacketDisconnect
  BY DEF PacketConnect, PacketDisconnect
<1>4. CASE id = PacketConnect
  <2>1. ParsePacket(m.packet) = ParseConnect(d)
    BY <1>1, <1>3, <1>4 DEF ParsePacket
  <2> QED BY <1>1, <1>2, <1>4, <2>1, ConnectRead
<1>5. CASE id = PacketDisconnect
  <2>1. ParsePacket(m.packet) = ParseDisconnect(d)
    BY <1>1, <1>3, <1>5 DEF ParsePacket
  <2> QED BY <1>1, <1>2, <1>5, <2>1, DisconnectRead
<1>6. CASE id # PacketConnect /\ id # PacketDisconnect
  <2>1. ParsePacket(m.packet) = [err |-> "InvalidPacketID"]
    BY <1>1, <1>6 DEF ParsePacket
  <2> QED BY <1>1, <1>2, <1>6, <2>1 DEF OtherMeans
<1> QED BY <1>4, <1>5, <1>6

\* MeaningKept: whatever pieces the stream cuts the messages into, parsing the
\* returned packets gives what the peer has put into the messages, in order.
THEOREM MeaningIsKept == Spec => []MeaningKept
<1>1. StreamInv => MeaningKept
  <2> SUFFICES ASSUME StreamInv, NEW i \in DOMAIN packets
               PROVE  ParsePacket(packets[i]) = sent[i].meaning
    BY DEF MeaningKept
  <2>1. /\ sent \in Seq(Messages) /\ packets \in Seq(PacketSet) /\ Len(packets) <= Len(sent)
        /\ PacketsInv
    BY DEF StreamInv, StreamType
  <2>2. i \in 1..Len(packets) /\ i \in 1..Len(sent)
    BY <2>1, LenProperties
  <2>3. sent[i] \in Messages /\ packets[i] = sent[i].packet
    BY <2>1, <2>2, ElementOfSeq DEF PacketsInv
  <2> QED BY <2>3, MessageRead
<1> QED BY StreamInvariant, <1>1, PTL
=============================================================================
