---------------------------- MODULE HytaleStream ----------------------------
(***************************************************************************)
(* Framed packets on a byte stream (pkg/protohytale/reader.go): a          *)
(* PacketWriter at one end, a PacketReader at the other.  The stream hands *)
(* out bytes in pieces of any size and may announce its end with the last  *)
(* piece, as quic-go's streams do, or after it.  A write may fail part of  *)
(* the way.  The reader is reset for the next stream and keeps its buffer. *)
(*                                                                         *)
(* ReadPacket and ReadPacketNoCopy differ in whether the caller gets a     *)
(* copy and take the same steps.                                           *)
(***************************************************************************)
EXTENDS HytaleCodec, SequencesExt

CONSTANTS
  Messages,        \* what the peer may send: [packet, meaning]
  HeaderSize,      \* 8: the length and the ID of a packet, little endian
  MaxPacketSize,   \* 16 MB
  InitSize,        \* the size of the first buffer
  MaxSent, MaxStreams  \* bounds: MaxSent - s packets on stream s, streams

ASSUME StreamAssumption ==
  /\ HeaderSize \in Nat \ {0} /\ HeaderSize % 2 = 0
  /\ MaxPacketSize \in Nat /\ InitSize \in Nat
  /\ InitSize >= HeaderSize   \* NewPacketReaderSize takes the default otherwise

VARIABLES
  sent,       \* the messages on this stream
  wire,       \* every byte written to it
  writing,    \* the pieces Write has still to hand to the stream
  closed,     \* there will be no more bytes
  taken,      \* how many bytes of wire the reader has
  buf,        \* the buffered bytes of PacketReader.buf; what lies behind is garbage
  size,       \* len(PacketReader.buf)
  offset,
  pc,         \* the call in progress: "idle", "header", "body"
  packets,    \* the packets returned so far
  err,        \* the error returned, after which the caller stops
  eofWithData,   \* the stream's end came together with bytes
  streams     \* how many streams the reader has been used for

writer == <<sent, wire, writing, closed>>
reader == <<taken, buf, size, offset, pc, packets, err, eofWithData>>
vars == <<writer, reader, streams>>

Field == HeaderSize \div 2
Byte == 0..255

\* The lowest byte first; what does not fit into the field is cut off.
LittleEndian(n) ==
  LET shifted[i \in 1..Field] == IF i = 1 THEN n ELSE shifted[i - 1] \div 256
  IN [i \in 1..Field |-> shifted[i] % 256]
FromLittleEndian(s) == FoldRight(LAMBDA b, v : b + 256 * v, s, 0)

\* No string is at the start of d: d is empty, or the string is longer than is
\* allowed or cut off.
NoString(d) ==
  \/ d = <<>>
  \/ \E length \in 0..(Word - 1) :
       LET text == Rest(d, VarIntSize(length))
       IN /\ d = WriteVarInt(length) \o text
          /\ length > MaxStringLength \/ length > Len(text)

\* The peer has put the strings ss into d, one behind the other, with the rest
\* behind the k-th.
Carries(d, k, ss, rest) ==
  /\ Len(ss) <= k
  /\ \E at \in [0..Len(ss) -> 0..Len(d)] :
       /\ at[0] = 0
       /\ \A i \in 1..Len(ss) :
            /\ Len(ss[i]) <= MaxStringLength
            /\ Rest(d, at[i - 1]) = WriteString(ss[i]) \o Rest(d, at[i])
       /\ \/ Len(ss) = k /\ rest = Rest(d, at[k])
          \/ Len(ss) < k /\ rest = <<>> /\ NoString(Rest(d, at[Len(ss)]))

\* What a Connect, a Disconnect and any other packet of the peer say.
ConnectMeans(d, m) ==
  LET tail == Rest(d, HashSize + 1 + UUIDSize)
  IN \/ Len(d) < ConnectPacketMinSize /\ m = [err |-> "ConnectTooShort"]
     \/ /\ Len(d) >= ConnectPacketMinSize
        /\ m \in [err : {"none"}, hash : Seq(Byte), clientType : Byte, uuid : Seq(Byte),
                  strings : Seq(Seq(Byte)), referral : Seq(Byte)]
        /\ Len(m.hash) = HashSize /\ Len(m.uuid) = UUIDSize
        /\ d = m.hash \o <<m.clientType>> \o m.uuid \o tail
        /\ Carries(tail, 3, m.strings, m.referral)
DisconnectMeans(d, m) ==
  /\ m \in [err : {"none"}, strings : Seq(Seq(Byte))]
  /\ \E n \in 0..Len(d) : Carries(d, 1, m.strings, Rest(d, n))
OtherMeans(m) == m = [err |-> "InvalidPacketID"]

\* Lengths and IDs are 32-bit integers, which the header has room for; a message
\* means what the peer has put into its packet.
ASSUME MessageAssumption ==
  \A m \in Messages :
    /\ m.packet \in [id : Nat, data : Seq(Byte)]
    /\ \A n \in {m.packet.id, Len(m.packet.data)} : FromLittleEndian(LittleEndian(n)) = n
    /\ m.packet.id = PacketConnect => ConnectMeans(m.packet.data, m.meaning)
    /\ m.packet.id = PacketDisconnect => DisconnectMeans(m.packet.data, m.meaning)
    /\ m.packet.id \notin {PacketConnect, PacketDisconnect} => OtherMeans(m.meaning)

Header(p) == LittleEndian(Len(p.data)) \o LittleEndian(p.id)

Init ==
  /\ sent = <<>> /\ wire = <<>> /\ writing = <<>> /\ closed = FALSE
  /\ taken = 0 /\ packets = <<>> /\ err = "none" /\ eofWithData = FALSE
  /\ pc = "idle"
  /\ buf = <<>> /\ size = InitSize /\ offset = 0
  /\ streams = 1

-----------------------------------------------------------------------------
(* PacketWriter.                                                           *)

\* Write hands the header to the stream, then the data, if there is any.
Write(m) ==
  /\ ~closed /\ writing = <<>> /\ Len(sent) + streams <= MaxSent
  /\ sent' = Append(sent, m)
  /\ writing' = IF m.packet.data = <<>> THEN <<Header(m.packet)>>
                ELSE <<Header(m.packet), m.packet.data>>
  /\ UNCHANGED <<wire, closed, reader, streams>>

WritePiece ==
  /\ ~closed /\ writing # <<>>
  /\ wire' = wire \o Head(writing)
  /\ writing' = Tail(writing)
  /\ UNCHANGED <<sent, closed, reader, streams>>

\* The stream fails under the writer: k bytes of the piece get through.
WriteFails(k) ==
  /\ ~closed /\ writing # <<>> /\ k < Len(Head(writing))
  /\ wire' = wire \o SubSeq(Head(writing), 1, k)
  /\ writing' = <<>>
  /\ closed' = TRUE
  /\ UNCHANGED <<sent, reader, streams>>

Close ==
  /\ ~closed /\ writing = <<>>
  /\ closed' = TRUE
  /\ UNCHANGED <<sent, wire, writing, reader, streams>>

-----------------------------------------------------------------------------
(* PacketReader.                                                           *)

Unread == SubSeq(buf, offset + 1, Len(buf))
Length == FromLittleEndian(SubSeq(Unread, 1, Field))
ID == FromLittleEndian(SubSeq(Unread, Field + 1, HeaderSize))
Need == IF pc = "header" THEN HeaderSize ELSE HeaderSize + Length

\* Mutant: the buffer is doubled, whatever the packet's size.
GrownDouble(n) == IF n > size THEN 2 * size ELSE size

\* The size of a buffer with room for n bytes.
Grown(n) == IF n <= size THEN size ELSE IF 2 * size < n THEN n ELSE 2 * size

\* Mutant: the number of buffered bytes is reduced, the bytes are not moved.
PrepareUnmoved(n) ==
  IF Len(Unread) >= n THEN UNCHANGED <<buf, size, offset>>
  ELSE buf' = SubSeq(buf, 1, Len(Unread)) /\ offset' = 0 /\ size' = Grown(n)

\* The first half of ensureBytes: unread bytes move to the start of the
\* buffer, and the buffer grows.
Prepare(n) ==
  IF Len(Unread) >= n THEN UNCHANGED <<buf, size, offset>>
  ELSE buf' = Unread /\ offset' = 0 /\ size' = Grown(n)

Call ==
  /\ pc = "idle" /\ err = "none"
  /\ pc' = "header"
  /\ Prepare(HeaderSize)
  /\ UNCHANGED <<writer, taken, packets, err, eofWithData, streams>>

\* Mutant: an end within a packet is reported like any other.
ErrorAtEOFPlain(total) == "EOF"

\* What ensureBytes makes of the stream's end when it has total bytes.
ErrorAtEOF(total) == IF total > 0 /\ total < Need THEN "UnexpectedEOF" ELSE "EOF"

\* One Read of the stream: k bytes, with its end or without.
Read(k, eof) ==
  /\ pc # "idle" /\ Len(Unread) < Need
  /\ k <= size - Len(buf) /\ k <= Len(wire) - taken
  /\ eof => closed /\ taken + k = Len(wire)
  /\ k > 0 \/ eof
  /\ buf' = buf \o SubSeq(wire, taken + 1, taken + k)
  /\ taken' = taken + k
  /\ err' = IF eof THEN ErrorAtEOF(Len(buf) + k) ELSE err
  /\ pc' = IF eof THEN "idle" ELSE pc
  /\ eofWithData' = (eof /\ k > 0)
  /\ UNCHANGED <<writer, size, offset, packets, streams>>

\* Mutant: a header alone is not enough.
ParseHeaderLate ==
  /\ pc = "header" /\ Len(Unread) > HeaderSize
  /\ IF Length > MaxPacketSize
     THEN pc' = "idle" /\ err' = "PacketTooLarge" /\ UNCHANGED <<buf, size, offset>>
     ELSE pc' = "body" /\ Prepare(HeaderSize + Length) /\ UNCHANGED err
  /\ UNCHANGED <<writer, taken, packets, eofWithData, streams>>

\* The header is there: room for the packet, unless it is too large.
ParseHeader ==
  /\ pc = "header" /\ Len(Unread) >= HeaderSize
  /\ IF Length > MaxPacketSize
     THEN pc' = "idle" /\ err' = "PacketTooLarge" /\ UNCHANGED <<buf, size, offset>>
     ELSE pc' = "body" /\ Prepare(HeaderSize + Length) /\ UNCHANGED err
  /\ UNCHANGED <<writer, taken, packets, eofWithData, streams>>

\* The packet is there.
Return ==
  /\ pc = "body" /\ Len(Unread) >= Need
  /\ packets' = Append(packets, [id |-> ID, data |-> SubSeq(Unread, HeaderSize + 1, Need)])
  /\ offset' = offset + Need
  /\ pc' = "idle"
  /\ UNCHANGED <<writer, taken, buf, size, err, eofWithData, streams>>

NewStream ==
  /\ pc = "idle" /\ streams < MaxStreams
  /\ streams' = streams + 1
  /\ sent' = <<>> /\ wire' = <<>> /\ writing' = <<>> /\ closed' = FALSE
  /\ taken' = 0 /\ packets' = <<>> /\ err' = "none" /\ eofWithData' = FALSE
  /\ UNCHANGED <<pc, size>>

\* Both ends turn to a new stream; the buffer keeps its size.
Reset == NewStream /\ buf' = <<>> /\ offset' = 0

-----------------------------------------------------------------------------
Bytes == 0..(2 * (HeaderSize + MaxPacketSize))

Next ==
  \/ \E m \in Messages : Write(m)
  \/ WritePiece \/ Close
  \/ \E k \in Bytes : WriteFails(k)
  \/ Call \/ ParseHeader \/ Return
  \/ \E k \in Bytes, eof \in BOOLEAN : Read(k, eof)
  \/ Reset

Spec == Init /\ [][Next]_vars

\* The writer finishes a packet, the caller calls again as long as there is no
\* error, and the stream delivers what is written.
FairSpec ==
  /\ Spec
  /\ WF_vars(WritePiece)
  /\ WF_vars(Call \/ ParseHeader \/ Return)
  /\ WF_vars(\E k \in Bytes, eof \in BOOLEAN : Read(k, eof))

-----------------------------------------------------------------------------
\* Type invariant.
TypeOK ==
  /\ 0 <= offset /\ offset <= Len(buf) /\ Len(buf) <= size
  /\ \A i \in DOMAIN buf : buf[i] \in Byte
  /\ pc \in {"idle", "header", "body"} /\ closed \in BOOLEAN
  /\ err \in {"none", "EOF", "UnexpectedEOF", "PacketTooLarge"}

Frame(p) == Header(p) \o p.data
Framed(ps) == FlattenSeq([i \in DOMAIN ps |-> Frame(ps[i])])
Returned == Framed(packets)

\* Compaction, growth and reuse of the buffer neither lose, nor repeat, nor
\* invent a byte: the packets returned and what is unread are what was taken
\* from this stream.
NothingLost == Returned \o Unread = SubSeq(wire, 1, taken)

\* The buffer fits (TypeOK: offset and bytes lie within it): the reader never
\* reads into an empty slice, which would return at once and for ever, and a
\* packet's announced size does not make the buffer grow beyond the limit.
BufferFits ==
  /\ TypeOK
  /\ pc # "idle" /\ Len(Unread) < Need => Len(buf) < size
  /\ size = InitSize \/ size < 2 * (HeaderSize + MaxPacketSize)

\* An error says what happened: the end of the stream comes after its last
\* packet (or with its last bytes), an unexpected end within a packet.
ErrorsJustified ==
  LET left == SubSeq(sent, Len(packets) + 1, Len(sent))
  IN CASE err = "EOF" -> eofWithData \/ (closed /\ wire = Returned)
       [] err = "UnexpectedEOF" -> /\ closed /\ wire # Returned /\ Len(left) = 1
                                   /\ Len(wire) < Len(Returned \o Frame(left[1].packet))
       [] err = "PacketTooLarge" -> left # <<>> /\ Len(left[1].packet.data) > MaxPacketSize
       [] OTHER -> TRUE

\* The parsers find in the packets what the peer put into the messages.
MeaningKept == \A i \in DOMAIN packets : ParsePacket(packets[i]) = sent[i].meaning

\* Every value survives encoding, in as many bytes as VarIntSize says, whatever
\* byte of the stream follows it, and no proper prefix of the encoding decodes.
VarIntsRoundTrip ==
  Len(Unread) = 1 =>
    \A v \in 0..(Word - 1) :
      LET d == WriteVarInt(v)
      IN /\ ReadVarInt(d \o Unread) = [err |-> "none", val |-> v, n |-> VarIntSize(v)]
         /\ \A k \in 0..(VarIntSize(v) - 1) : ReadVarInt(SubSeq(d, 1, k)).err = "UnexpectedEOF"

\* A packet that is written completely is returned, whatever pieces it
\* arrives in, unless the stream fails before or its end comes with the data.
EventuallyReturned ==
  \A s \in 1..MaxStreams : \A n \in 1..(MaxSent - s) :
    (streams = s /\ Len(sent) >= n /\ writing = <<>>)
      ~> (streams # s \/ Len(packets) >= n \/ err # "none")
=============================================================================
