----------------------------- MODULE QuicParser -----------------------------
(***************************************************************************)
(* The QUIC and TLS parser (internal/proxy/parser.go) as operators on byte *)
(* sequences.  Offsets count from 0, as in the code.  A slice that starts  *)
(* behind the end of its data panics in the code and has no value here: a  *)
(* check that reaches one fails.                                           *)
(*                                                                         *)
(* Values of eight-byte integers are those TLC can represent.              *)
(***************************************************************************)
EXTENDS Integers, Sequences, SequencesExt

Byte(d, o) == d[o + 1]
Slice(d, from, to) == SubSeq(d, from + 1, to)
BigEndian(d, o, n) ==
  LET value[k \in 0..n] == IF k = 0 THEN 0 ELSE 256 * value[k - 1] + Byte(d, o + k - 1)
  IN value[n]

NoCID == <<-1>>             \* the error result of ExtractDCID
NoVarInt == [n |-> 0, val |-> 0]
LongHeader(b) == b >= 128   \* b & 0x80

\* n is the length of the integer at o, 0 for an error.
readVarInt(d, o) ==
  IF o = Len(d) THEN NoVarInt
  ELSE LET n == <<1, 2, 4, 8>>[Byte(d, o) \div 64 + 1]
       IN IF o + n > Len(d) THEN NoVarInt
          ELSE [n |-> n,
                val |-> BigEndian(<<Byte(d, o) % 64>> \o Slice(d, o + 1, o + n), 0, n)]

ClassifyPacket(p) ==
  IF p = <<>> THEN "Unknown"
  ELSE IF ~LongHeader(p[1]) THEN "1-RTT"
  ELSE <<"Initial", "0-RTT", "Handshake", "Retry">>[((p[1] \div 16) % 4) + 1]

\* dcidLen is what the caller guesses for a short header.
ExtractDCID(p, dcidLen) ==
  LET from == IF LongHeader(p[1]) THEN 6 ELSE 1
      to == from + IF LongHeader(p[1]) THEN Byte(p, 5) ELSE dcidLen
  IN IF \/ Len(p) < 1
        \/ IF LongHeader(p[1]) THEN Len(p) < 6 ELSE dcidLen <= 0
        \/ Len(p) < to
     THEN NoCID ELSE Slice(p, from, to)

-----------------------------------------------------------------------------
(* Server datagrams.                                                       *)

\* Mutant: the bytes of the length field itself are not skipped.
WalkSkipsNoLength(d) ==
  LET walk[o \in 0..Len(d)] ==
        LET scidLen == o + 6 + Byte(d, o + 5)
            end == scidLen + 1 + Byte(d, scidLen)
            length == readVarInt(d, end)
            next == end + length.val
        IN IF \/ o >= Len(d) \/ ~LongHeader(Byte(d, o))
              \/ Len(d) - o < 6 \/ scidLen >= Len(d) \/ end > Len(d)
           THEN {}
           ELSE {Slice(d, scidLen + 1, end)} \cup
                IF length.n = 0 \/ next > Len(d) THEN {} ELSE walk[next]
  IN walk[0] \ {<<>>}

\* The SCIDs of the packets that the walk over a datagram meets.  What
\* follows the SCID is read as the packet's length, whatever its type.
ExtractAllSCIDs(d) ==
  LET walk[o \in 0..Len(d)] ==
        LET scidLen == o + 6 + Byte(d, o + 5)
            end == scidLen + 1 + Byte(d, scidLen)
            length == readVarInt(d, end)
            next == end + length.n + length.val
        IN IF \/ o >= Len(d) \/ ~LongHeader(Byte(d, o))
              \/ Len(d) - o < 6 \/ scidLen >= Len(d) \/ end > Len(d)
           THEN {}
           ELSE {Slice(d, scidLen + 1, end)} \cup
                IF length.n = 0 \/ next > Len(d) THEN {} ELSE walk[next]
  IN walk[0] \ {<<>>}

-----------------------------------------------------------------------------
(* Initial packets of a client.                                            *)

\* The offset behind k integers that start at o; -1 when one is cut off.
SkipVarInts(d, o, k) ==
  LET skip[i \in 0..k, p \in -1..Len(d)] ==
        IF i = 0 \/ p < 0 THEN p
        ELSE LET v == readVarInt(d, p) IN IF v.n = 0 THEN -1 ELSE skip[i - 1, p + v.n]
  IN skip[k, o]

\* The offset behind an ACK frame whose type ends at o, or -1.
SkipACK(d, o, ecn) ==
  LET count == SkipVarInts(d, o, 2)
      ranges == SkipVarInts(d, count, 2)
      last == SkipVarInts(d, ranges, 2 * readVarInt(d, count).val)
  IN IF count < 0 \/ ranges < 0 \/ last < 0 THEN -1
     ELSE IF ecn THEN SkipVarInts(d, last, 3) ELSE last

\* The CRYPTO frames of a decrypted payload.  An error inside a CRYPTO frame
\* leaves the switch, not the loop; one inside an ACK frame ends the walk.
extractCryptoFrames(d) ==
  LET walk[o \in 0..Len(d)] ==
        LET type == readVarInt(d, o)
            body == o + type.n
            zeros == {i \in body..Len(d) : \A j \in body..(i - 1) : Byte(d, j) = 0}
            ack == SkipACK(d, body, type.val = 3)
            offset == readVarInt(d, body)
            length == readVarInt(d, body + offset.n)
            data == body + offset.n + length.n
        IN IF o = Len(d) \/ type.n = 0 THEN <<>>
           ELSE CASE type.val = 0 -> walk[Max(zeros)]
                  [] type.val = 1 -> walk[body]
                  [] type.val \in {2, 3} -> IF ack < 0 THEN <<>> ELSE walk[ack]
                  [] type.val = 6 ->
                       IF offset.n = 0 THEN walk[body]
                       ELSE IF length.n = 0 \/ data + length.val > Len(d) THEN walk[data]
                       ELSE <<[offset |-> offset.val, data |-> Slice(d, data, data + length.val)]>>
                            \o walk[data + length.val]
                  [] OTHER -> <<>>
  IN walk[0]

\* AEAD and header protection with keys derived from the DCID: a payload opens
\* under the key it was sealed with, if it is long enough for the sample.
decryptInitialPacket(packet, payloadLen, dcid) == payloadLen >= 20 /\ packet.key = dcid

\* A packet has bytes, of which the sealed payload is opaque, the DCID its key
\* is derived from, and the frames in the payload.  No frames for an error.
ExtractCryptoFramesFromPacket(packet) ==
  LET p == packet.bytes
      scidLen == 6 + Byte(p, 5)
      token == scidLen + 1 + Byte(p, scidLen)
      tokenLen == readVarInt(p, token)
      length == token + tokenLen.n + tokenLen.val
      payloadLen == readVarInt(p, length)
      payload == length + payloadLen.n
  IN IF \/ Len(p) < 5 \/ ClassifyPacket(p) # "Initial" \/ BigEndian(p, 1, 4) # 1
        \/ 5 >= Len(p) \/ scidLen >= Len(p)
        \/ tokenLen.n = 0 \/ payloadLen.n = 0
        \/ payload + payloadLen.val > Len(p)
        \/ ~decryptInitialPacket(packet, payloadLen.val, Slice(p, 6, scidLen))
     THEN <<>> ELSE extractCryptoFrames(packet.plain)

-----------------------------------------------------------------------------
(* TLS.                                                                    *)

parseSNI(d) ==
  IF Len(d) < 5 THEN <<>>
  ELSE IF Byte(d, 2) # 0 \/ 5 + BigEndian(d, 3, 2) > Len(d) THEN <<>>
  ELSE Slice(d, 5, 5 + BigEndian(d, 3, 2))

parseALPN(d) ==
  LET walk[o \in 0..Len(d)] ==
        LET end == o + 1 + Byte(d, o)
        IN IF o = Len(d) THEN <<>> ELSE IF end > Len(d) THEN <<>>
           ELSE <<Slice(d, o + 1, end)>> \o walk[end]
  IN IF Len(d) < 2 THEN <<>> ELSE walk[2]

NoHello == [ok |-> FALSE, sni |-> <<>>, alpn |-> <<>>, raw |-> <<>>]

\* Type, length (3 bytes), version, random (32 bytes), session ID, cipher
\* suites, compression methods, extensions; the last SNI and ALPN count.
parseTLSClientHello(data) ==
  LET ciphers == 39 + Byte(data, 38)
      compression == ciphers + 2 + BigEndian(data, ciphers, 2)
      extensions == compression + 1 + Byte(data, compression)
      extEnd == extensions + 2 + BigEndian(data, extensions, 2)
      scan[o \in 0..Len(data)] ==
        LET end == o + 4 + BigEndian(data, o + 2, 2)
        IN IF o >= extEnd \/ o + 4 > Len(data) THEN <<>> ELSE IF end > Len(data) THEN <<>>
           ELSE <<[type |-> BigEndian(data, o, 2), body |-> Slice(data, o + 4, end)]>> \o scan[end]
      last(type, parse(_)) ==
        FoldLeft(LAMBDA r, e : IF e.type = type THEN parse(e.body) ELSE r, <<>>,
                 scan[extensions + 2])
  IN IF \/ Len(data) < 6 \/ Byte(data, 0) # 1 \/ Len(data) < 4 + BigEndian(data, 1, 3)
        \/ 38 >= Len(data) \/ ciphers + 2 > Len(data)
        \/ compression >= Len(data) \/ extensions + 2 > Len(data)
     THEN NoHello
     ELSE [ok |-> TRUE, sni |-> last(0, parseSNI), alpn |-> last(16, parseALPN), raw |-> data]
=============================================================================
