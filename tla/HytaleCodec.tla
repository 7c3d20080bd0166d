---------------------------- MODULE HytaleCodec ----------------------------
(***************************************************************************)
(* The encodings of the Hytale protocol (pkg/protohytale/encoding.go and   *)
(* packets_connect.go) on byte sequences.  The code's sizes are constants, *)
(* so that a small instance meets every limit.                             *)
(***************************************************************************)
EXTENDS Integers, Sequences, FiniteSetsExt

CONSTANTS
  GroupBits, MaxVarIntBytes, WordBits,   \* 7, 5 and 32 in the code
  MaxStringLength,                       \* 256
  HashSize, UUIDSize, ConnectPacketMinSize  \* 32, 16 and 82

Group == 2 ^ GroupBits    \* the continuation bit of a byte
Word == 2 ^ WordBits      \* integers are kept modulo Word

ASSUME CodecAssumption ==
  /\ {GroupBits, MaxVarIntBytes, WordBits} \subseteq Nat \ {0}
  /\ GroupBits * MaxVarIntBytes >= WordBits
  /\ MaxStringLength \in 0..(Word - 1)
  /\ {HashSize, UUIDSize, ConnectPacketMinSize} \subseteq Nat
  /\ ConnectPacketMinSize >= HashSize + 1 + UUIDSize

\* A shift by i groups multiplies by Weight[i].
Weight[i \in 0..MaxVarIntBytes] == IF i = 0 THEN 1 ELSE Group * Weight[i - 1]

\* The powers of two that the proofs need.
ASSUME WeightAssumption ==
  /\ Group \in Nat /\ Group >= 2
  /\ Word \in 1..Weight[MaxVarIntBytes]

Failed(e) == [err |-> e, val |-> 0, n |-> 0]

-----------------------------------------------------------------------------
\* Mutant: one byte less is accepted.
ReadVarIntShort(d) ==
  LET last == {i \in 1..(MaxVarIntBytes - 1) : i <= Len(d) /\ d[i] < Group}
      value[i \in 0..Min(last)] ==
        IF i = 0 THEN 0 ELSE (value[i - 1] + (d[i] % Group) * Weight[i - 1]) % Word
  IN IF last # {} THEN [err |-> "none", val |-> value[Min(last)], n |-> Min(last)]
     ELSE Failed(IF Len(d) < MaxVarIntBytes - 1 THEN "UnexpectedEOF" ELSE "TooLong")

\* Groups from the lowest on, a continuation bit on all but the last; bits
\* beyond the word are lost.
ReadVarInt(d) ==
  LET last == {i \in 1..MaxVarIntBytes : i <= Len(d) /\ d[i] < Group}
      value[i \in 0..Min(last)] ==
        IF i = 0 THEN 0 ELSE (value[i - 1] + (d[i] % Group) * Weight[i - 1]) % Word
  IN IF last # {} THEN [err |-> "none", val |-> value[Min(last)], n |-> Min(last)]
     ELSE Failed(IF Len(d) < MaxVarIntBytes THEN "UnexpectedEOF" ELSE "TooLong")

\* Groups until nothing is left of the value.
WriteVarInt(value) ==
  LET rest[i \in 0..MaxVarIntBytes] == IF i = 0 THEN value ELSE rest[i - 1] \div Group
      n == Min({i \in 1..MaxVarIntBytes : rest[i] = 0})
  IN [i \in 1..n |-> (rest[i - 1] % Group) + IF i < n THEN Group ELSE 0]

\* The code's table of 2^7, 2^14, ... as one expression.
VarIntSize(value) ==
  CHOOSE n \in 1..MaxVarIntBytes : value < Weight[n] /\ (n = 1 \/ value >= Weight[n - 1])

\* Mutant: a string of the greatest length is refused.
ReadStringShort(d) ==
  LET length == ReadVarInt(d)
      end == length.n + length.val
  IN IF length.err # "none" THEN Failed(length.err)
     ELSE IF length.val >= MaxStringLength THEN Failed("StringTooLong")
     ELSE IF end > Len(d) THEN Failed("UnexpectedEOF")
     ELSE [err |-> "none", val |-> SubSeq(d, length.n + 1, end), n |-> end]

ReadString(d) ==
  LET length == ReadVarInt(d)
      end == length.n + length.val
  IN IF length.err # "none" THEN Failed(length.err)
     ELSE IF length.val > MaxStringLength THEN Failed("StringTooLong")
     ELSE IF end > Len(d) THEN Failed("UnexpectedEOF")
     ELSE [err |-> "none", val |-> SubSeq(d, length.n + 1, end), n |-> end]

WriteString(s) == WriteVarInt(Len(s)) \o s

-----------------------------------------------------------------------------
PacketConnect == 0
PacketDisconnect == 1

Rest(d, n) == SubSeq(d, n + 1, Len(d))

\* The strings at the start of d, up to the first that is missing or broken
\* and at most k, and what follows them; an empty rest stands for nil.
ReadStrings(d, k) ==
  LET rest[i \in 0..k] == IF i = 0 THEN d ELSE Rest(rest[i - 1], ReadString(rest[i - 1]).n)
      n == Max({m \in 0..k : \A i \in 1..m : ReadString(rest[i - 1]).err = "none"})
  IN [strings |-> [i \in 1..n |-> ReadString(rest[i - 1]).val],
      rest |-> IF n = k THEN rest[k] ELSE <<>>]

\* Protocol hash, client type, UUID, then language, identity token, user name
\* and referral data as far as they can be parsed.
ParseConnect(d) ==
  LET fixed == HashSize + 1 + UUIDSize
      tail == ReadStrings(Rest(d, fixed), 3)
  IN IF Len(d) < ConnectPacketMinSize THEN [err |-> "ConnectTooShort"]
     ELSE [err |-> "none", hash |-> SubSeq(d, 1, HashSize), clientType |-> d[HashSize + 1],
           uuid |-> SubSeq(d, HashSize + 2, fixed), strings |-> tail.strings,
           referral |-> tail.rest]

\* The reason is optional.
ParseDisconnect(d) ==
  [err |-> "none", strings |-> ReadStrings(d, 1).strings]

ParsePacket(p) ==
  CASE p.id = PacketConnect -> ParseConnect(p.data)
    [] p.id = PacketDisconnect -> ParseDisconnect(p.data)
    [] OTHER -> [err |-> "InvalidPacketID"]
=============================================================================
