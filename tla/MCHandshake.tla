----------------------------- MODULE MCHandshake -----------------------------
(* Handshake with the packets of a few clients and servers, encoded as     *)
(* RFC 9000 and RFC 8446 have it.                                          *)
EXTENDS Handshake

Cat(ss) == FoldLeft(LAMBDA r, s : r \o s, <<>>, ss)
Fill(n, b) == [i \in 1..n |-> b]
U16(v) == <<v \div 256, v % 256>>
VarInt(v) == IF v < 64 THEN <<v>> ELSE <<64 + v \div 256, v % 256>>
Vec8(s) == <<Len(s)>> \o s
Vec16(s) == U16(Len(s)) \o s

\* ClientHellos: a server name, protocols, extensions in some order.
SNIExt(name) == U16(0) \o Vec16(Vec16(<<0>> \o Vec16(name)))
ALPNExt(protos) == U16(16) \o Vec16(Vec16(Cat([i \in DOMAIN protos |-> Vec8(protos[i])])))
OtherExt == U16(43) \o Vec16(<<0>>)
Hello(sid, exts, name, protos) ==
  LET body == <<3, 3>> \o Fill(32, 7) \o Vec8(sid) \o Vec16(<<19, 1>>) \o Vec8(<<0>>)
              \o Vec16(Cat(exts))
  IN [ok |-> TRUE, sni |-> name, alpn |-> protos, raw |-> <<1, 0>> \o U16(Len(body)) \o body]

Plain == Hello(<<>>, <<SNIExt(<<5>>)>>, <<5>>, <<>>)
Full == Hello(<<8>>, <<OtherExt, ALPNExt(<<<<3>>, <<4, 4>>>>), SNIExt(<<5, 6>>)>>,
              <<5, 6>>, <<<<3>>, <<4, 4>>>>)
\* Fills the buffer; does not fit.
Exact == Hello(Fill(BufferSize - Len(Plain.raw), 9), <<SNIExt(<<5>>)>>, <<5>>, <<>>)
TooLong == Hello(Fill(BufferSize - Len(Plain.raw) + 1, 9), <<SNIExt(<<5>>)>>, <<5>>, <<>>)

\* Frames.
Crypto(h, from, to) == <<6>> \o VarInt(from) \o VarInt(to - from) \o Slice(h.raw, from, to)
Ping == <<1>>
Padding == <<0, 0, 0>>
Ack == <<2>> \o VarInt(70) \o <<0, 1, 0, 1, 2>>  \* with one further range
AckECN == <<3>> \o <<9, 0, 0, 0>> \o <<1, 1, 1>>

Initial(frames, scid, token) ==
  LET plain == Cat(frames)
  IN [bytes |-> <<192, 0, 0, 0, 1>> \o Vec8(DCID) \o Vec8(scid) \o VarInt(Len(token)) \o token
                \o VarInt(Len(plain) + 17) \o Fill(Len(plain) + 17, 255),
      key |-> DCID, plain |-> plain]

Flight(h, packets) == [hello |-> h, packets |-> packets]
Halves(cut, overlap) ==
  Flight(Full, <<Initial(<<Padding, Crypto(Full, 0, cut)>>, <<7>>, <<>>),
                 Initial(<<Ping, Crypto(Full, cut - overlap, Len(Full.raw))>>, <<7>>, <<>>)>>)
MCFlights ==
  { Flight(Plain, <<Initial(<<Crypto(Plain, 0, Len(Plain.raw)), Padding>>, <<>>, <<>>)>>),
    \* frames out of order within a packet, with a token, in three packets
    Flight(Full, <<Initial(<<Crypto(Full, 50, 60), Ping, Crypto(Full, 0, 9)>>, <<7>>, <<1, 2>>),
                   Initial(<<Ack, Crypto(Full, 60, Len(Full.raw)), AckECN, Crypto(Full, 20, 50)>>,
                           <<7>>, <<1, 2>>),
                   Initial(<<Crypto(Full, 5, 20), Padding>>, <<7>>, <<1, 2>>)>>),
    Flight(Exact, <<Initial(<<Crypto(Exact, 0, 50)>>, <<>>, <<>>),
                    Initial(<<Crypto(Exact, 50, BufferSize)>>, <<>>, <<>>)>>),
    Flight(TooLong, <<Initial(<<Crypto(TooLong, 0, 50)>>, <<>>, <<>>),
                      Initial(<<Crypto(TooLong, 50, BufferSize + 1)>>, <<>>, <<>>)>>) }
  \cup { Halves(cut, overlap) : cut \in {3, 5, 6, 40, 60}, overlap \in {0, 2} }

\* The server's packets: only an Initial has a token field.
Pkt(type, scid, n) == [type |-> type, scid |-> scid, n |-> n]
ServerPacket(p) ==
  IF p.type = "1-RTT" THEN <<64>> \o Fill(p.n, 130)
  ELSE (IF p.type = "Initial" THEN <<192>> ELSE <<224>>) \o <<0, 0, 0, 1>> \o Vec8(<<7>>)
       \o Vec8(p.scid) \o (IF p.type = "Initial" THEN <<0>> ELSE <<>>)
       \o VarInt(p.n) \o Fill(p.n, 130)
MCReplyBytes(r) == Cat([i \in DOMAIN r |-> ServerPacket(r[i])])

MCReplies ==
  { <<Pkt("Initial", <<3>>, 30), Pkt("Handshake", <<3>>, 80)>>,
    <<Pkt("Handshake", DCID, 20), Pkt("Handshake", <<4, 4, 4>>, 70), Pkt("1-RTT", <<>>, 30)>>,
    <<Pkt("Initial", <<1, 2, 2>>, 70)>>,
    <<Pkt("Handshake", <<1, 0>>, 64), Pkt("Initial", <<3>>, 20)>>,
    <<Pkt("Handshake", <<>>, 20)>>,
    <<Pkt("1-RTT", <<>>, 30)>> }

\* A server that changes its connection ID within a datagram.
CoalescedReplies == { <<Pkt("Initial", <<3>>, 30), Pkt("Handshake", <<4, 4, 4>>, 80)>> }

MCDCID == <<1, 2>>
MCOtherDCID == <<1>>
=============================================================================
