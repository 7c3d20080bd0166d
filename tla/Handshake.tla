------------------------------ MODULE Handshake ------------------------------
(***************************************************************************)
(* The handshake of one connection as the relay sees it, at the level of   *)
(* bytes.  The client's Initials, with the ClientHello in CRYPTO frames,   *)
(* are lost, repeated and reordered on their way; the CryptoAssembler      *)
(* (internal/proxy/proxy.go) puts the ClientHello together; the Initial    *)
(* that completes it opens the session and is forwarded, and so are the    *)
(* Initials that follow.  The server's datagrams teach the relay the SCIDs *)
(* by which findSession recognises the client's later packets.             *)
(*                                                                         *)
(* One worker serves the client (module Assemblers has the interleavings   *)
(* of several), so handling a packet is one step.                          *)
(***************************************************************************)
EXTENDS QuicParser, FiniteSets

CONSTANTS
  Flights,      \* what a client may send: [hello, packets]
  DCID,         \* the connection ID the client chose
  OtherDCID,    \* the DCID of another session in the table
  Replies,      \* server datagrams: sequences of packets
  ReplyBytes(_),\* their encoding
  Addr, OtherAddr, \* the addresses of the client and of the other session
  BufferSize,   \* maxCryptoBufferSize
  MaxExpiry, MaxReplies  \* bounds: expired assemblers, datagrams of the server

\* A client chooses a DCID of at least eight bytes (RFC 9000, 7.2).
ASSUME HandshakeAssumption ==
  /\ {DCID, OtherDCID} \subseteq Seq(0..255) \ {<<>>}
  /\ DCID # OtherDCID /\ Addr # OtherAddr
  /\ BufferSize \in Nat /\ BufferSize >= 6 /\ MaxExpiry \in Nat /\ MaxReplies \in Nat

\* A client's packets open under its DCID, and their CRYPTO frames are parts of
\* a ClientHello that the parser reads as it was meant.
ASSUME FlightAssumption ==
  \A fl \in Flights :
    /\ fl.hello.raw \in Seq(0..255) /\ Len(fl.hello.raw) = 4 + BigEndian(fl.hello.raw, 1, 3)
    /\ fl.hello.raw[1] = 1 /\ Len(fl.hello.raw) >= 6
    /\ fl.hello.ok /\ parseTLSClientHello(fl.hello.raw) = fl.hello
    /\ DOMAIN fl.packets # {}
    /\ \A i \in DOMAIN fl.packets :
         LET frames == extractCryptoFrames(fl.packets[i].plain)
         IN /\ ExtractDCID(fl.packets[i].bytes, 0) = DCID
            /\ ExtractCryptoFramesFromPacket(fl.packets[i]) = frames
            /\ frames \in Seq([offset : Nat, data : Seq(0..255)])
            /\ \A k \in DOMAIN frames :
                 LET f == frames[k]
                 IN /\ f.offset + Len(f.data) <= Len(fl.hello.raw)
                    /\ f.data = Slice(fl.hello.raw, f.offset, f.offset + Len(f.data))

\* Packet p of a server in datagram d, from offset o to the offset next (RFC
\* 9000, 17): an Initial has an empty token and a length of two bytes; a packet
\* without a length ends the datagram.
LaidOut(d, o, next, p) ==
  LET scidLen == o + 6 + Byte(d, o + 5)
      end == scidLen + 1 + Byte(d, scidLen)
      length == readVarInt(d, end)
  IN /\ o \in 0..Len(d) /\ next \in (o + 1)..Len(d)
     /\ LongHeader(Byte(d, o)) <=> p.type # "1-RTT"
     /\ IF p.type = "1-RTT" THEN p.scid = <<>> /\ next = Len(d)
        ELSE /\ o + 6 < next /\ scidLen < next /\ end + 1 < next
             /\ Slice(d, scidLen + 1, end) = p.scid
             /\ IF p.type = "Initial" THEN Byte(d, end) = 0 /\ ~LongHeader(Byte(d, end + 1))
                ELSE length.n > 0 /\ next = end + length.n + length.val

\* The server's datagrams are its packets one behind the other.
ASSUME ReplyAssumption ==
  \A r \in Replies :
    LET at(k) == Len(ReplyBytes(SubSeq(r, 1, k)))
    IN /\ r \in Seq([type : {"Initial", "Handshake", "1-RTT"}, scid : Seq(0..255), n : Nat])
       /\ ReplyBytes(r) \in Seq(0..255) \ {<<>>} /\ at(0) = 0
       /\ \A i \in DOMAIN r : LaidOut(ReplyBytes(r), at(i - 1), at(i), r[i])

VARIABLES
  flight,       \* what the client of this behaviour sends
  assembler,    \* of DCID: buffer, written (bitset), maxOffset, expired; or none
  seen,         \* the Initials that went into the assembler
  sessions,     \* the keys of the session table
  hello,        \* the ClientHello handed to the handlers
  forwarded,    \* the Initials that reached the backend
  dcidAliases, dcidLengths, \* SCID -> DCID; lengths to try on a short header
  clientSessions,           \* client address -> DCID
  replies,      \* the server's datagrams so far
  expiries

relay == <<sessions, hello, forwarded, dcidAliases, dcidLengths, clientSessions, replies>>
vars == <<flight, assembler, seen, relay, expiries>>

Packets == DOMAIN flight.packets
Bits == 0..(BufferSize - 1)
NoAssembler == [present |-> FALSE]

\* NewCryptoAssembler.
NewCryptoAssembler ==
  [present |-> TRUE, buffer |-> [i \in 1..BufferSize |-> 0], written |-> {}, maxOffset |-> 0,
   expired |-> FALSE]

Init ==
  /\ flight \in Flights
  /\ assembler = NoAssembler /\ seen = {}
  /\ sessions = {OtherDCID}
  /\ hello = NoHello
  /\ forwarded = {}
  /\ dcidAliases = << >>
  /\ dcidLengths = {Len(OtherDCID)}
  /\ clientSessions = [a \in {OtherAddr} |-> OtherDCID]
  /\ replies = {}
  /\ expiries = 0

-----------------------------------------------------------------------------
(* CryptoAssembler.                                                        *)

\* The bytes from f.offset to end go into the buffer and are marked.
Written(a, f, end) ==
  [a EXCEPT !.buffer = Slice(@, 0, f.offset) \o Slice(f.data, 0, end - f.offset)
                       \o Slice(@, end, BufferSize),
            !.written = @ \cup f.offset..(end - 1),
            !.maxOffset = IF end > @ THEN end ELSE @]

\* Mutant: a frame that reaches the end of the buffer is refused.
AddFrameRefuses(a, f) ==
  IF f.offset + Len(f.data) >= BufferSize THEN a ELSE Written(a, f, f.offset + Len(f.data))

\* AddFrame copies what fits into the buffer.
AddFrame(a, f) ==
  LET end == f.offset + Len(f.data)
  IN IF f.offset >= BufferSize THEN a
     ELSE Written(a, f, IF end > BufferSize THEN BufferSize ELSE end)

\* Mutant: the highest offset counts, gaps below it do not.
TryParseIgnoresGaps(a) ==
  LET needed == 4 + BigEndian(a.buffer, 1, 3)
  IN IF a.maxOffset < 6 \/ a.buffer[1] # 1 \/ a.maxOffset < needed THEN NoHello
     ELSE parseTLSClientHello(Slice(a.buffer, 0, needed))

TryParse(a) ==
  LET length == 4 + BigEndian(a.buffer, 1, 3)
      needed == IF length > BufferSize THEN BufferSize ELSE length
  IN IF \/ a.maxOffset < 6 \/ a.buffer[1] # 1
        \/ a.maxOffset < needed
        \/ ~(0..(needed - 1) \subseteq a.written)
     THEN NoHello ELSE parseTLSClientHello(Slice(a.buffer, 0, needed))

-----------------------------------------------------------------------------
(* findSession.                                                            *)

\* The session a connection ID stands for, directly or as an alias.
Lookup(c) ==
  IF c \in sessions THEN c
  ELSE IF c \in DOMAIN dcidAliases /\ dcidAliases[c] \in sessions THEN dcidAliases[c]
  ELSE NoCID

\* The connection IDs a packet may carry and the tables know.
Matches(p) ==
  {c \in {ExtractDCID(p, n) : n \in IF LongHeader(p[1]) THEN {0} ELSE dcidLengths} :
     c # NoCID /\ Lookup(c) # NoCID}

\* Mutant: the known lengths are tried from the shortest on.
findSessionShortestFirst(p, addr) ==
  IF Matches(p) # {}
  THEN Lookup(CHOOSE c \in Matches(p) : \A e \in Matches(p) : Len(c) <= Len(e))
  ELSE IF addr \in DOMAIN clientSessions /\ clientSessions[addr] \in sessions
       THEN clientSessions[addr] ELSE NoCID

\* The longest length that matches, then the client's address.
findSession(p, addr) ==
  IF Matches(p) # {}
  THEN Lookup(CHOOSE c \in Matches(p) : \A e \in Matches(p) : Len(c) >= Len(e))
  ELSE IF addr \in DOMAIN clientSessions /\ clientSessions[addr] \in sessions
       THEN clientSessions[addr] ELSE NoCID

-----------------------------------------------------------------------------
(* handlePacket for an Initial.                                            *)

SeenWith(i) == (IF assembler.present /\ ~assembler.expired THEN seen ELSE {}) \cup {i}

\* Mutant: every Initial is taken for the start of a connection.
ForwardAssembles(i) ==
  /\ findSession(flight.packets[i].bytes, Addr) # NoCID
  /\ assembler' = NewCryptoAssembler
  /\ seen' = SeenWith(i)
  /\ UNCHANGED <<flight, relay, expiries>>

\* A session: the chain forwards the packet.
ForwardInitial(i) ==
  /\ findSession(flight.packets[i].bytes, Addr) # NoCID
  /\ forwarded' = forwarded \cup {i}
  /\ UNCHANGED <<flight, assembler, seen, sessions, hello, dcidAliases, dcidLengths,
                 clientSessions, replies, expiries>>

\* The assembler of the DCID, a new one if there is none or it has expired,
\* with the packet's frames added.
Assembled(frames) ==
  LET added[k \in 0..Len(frames)] ==
        IF k > 0 THEN AddFrame(added[k - 1], frames[k])
        ELSE IF assembler.present /\ ~assembler.expired THEN assembler ELSE NewCryptoAssembler
  IN added[Len(frames)]

\* The ClientHello is not complete: the packet goes no further.
CollectInitial(i, a) ==
  /\ findSession(flight.packets[i].bytes, Addr) = NoCID
  /\ ~TryParse(a).ok
  /\ assembler' = a
  /\ seen' = SeenWith(i)
  /\ UNCHANGED <<flight, relay, expiries>>

\* The ClientHello is complete: the assembler is deleted, the chain forwards
\* this Initial, the session is stored under the packet's DCID.
OpenSession(i, a) ==
  LET dcid == ExtractDCID(flight.packets[i].bytes, 0)
  IN /\ findSession(flight.packets[i].bytes, Addr) = NoCID
     /\ TryParse(a).ok
     /\ hello' = TryParse(a)
     /\ assembler' = NoAssembler /\ seen' = {}
     /\ sessions' = sessions \cup {dcid}
     /\ dcidLengths' = dcidLengths \cup {Len(dcid)}
     /\ clientSessions' = [c \in DOMAIN clientSessions \cup {Addr} |->
                             IF c = Addr THEN dcid ELSE clientSessions[c]]
     /\ forwarded' = forwarded \cup {i}
     /\ UNCHANGED <<flight, dcidAliases, replies, expiries>>

\* Five seconds pass without a ClientHello.
Expire ==
  /\ assembler.present /\ ~assembler.expired
  /\ expiries < MaxExpiry
  /\ assembler' = [assembler EXCEPT !.expired = TRUE]
  /\ expiries' = expiries + 1
  /\ UNCHANGED <<flight, seen, relay>>

\* The ticker deletes an expired assembler.
Cleanup ==
  /\ assembler.present /\ assembler.expired
  /\ assembler' = NoAssembler /\ seen' = {}
  /\ UNCHANGED <<flight, relay, expiries>>

-----------------------------------------------------------------------------
(* A datagram of the server: NotifyServerPacket and learnServerSCID.       *)

\* The SCIDs that become aliases.
Learnt(d) == ExtractAllSCIDs(d) \ ({DCID} \cup DOMAIN dcidAliases)

\* The server answers once it has the ClientHello.
ServerReplies(r) ==
  LET d == ReplyBytes(r)
      new == IF LongHeader(d[1]) THEN Learnt(d) ELSE {}
  IN /\ forwarded = Packets
     /\ Cardinality(replies) < MaxReplies /\ r \notin replies
     /\ replies' = replies \cup {r}
     /\ dcidAliases' = [c \in DOMAIN dcidAliases \cup new |->
                          IF c \in new THEN DCID ELSE dcidAliases[c]]
     /\ dcidLengths' = dcidLengths \cup {Len(c) : c \in new}
     /\ UNCHANGED <<flight, assembler, seen, sessions, hello, forwarded, clientSessions, expiries>>

-----------------------------------------------------------------------------
Receive(i) ==
  \/ ForwardInitial(i)
  \/ \E frames \in {ExtractCryptoFramesFromPacket(flight.packets[i])} :
       \E a \in {Assembled(frames)} : CollectInitial(i, a) \/ OpenSession(i, a)

Next ==
  \/ \E i \in Packets : Receive(i)
  \/ Expire \/ Cleanup
  \/ \E r \in Replies : ServerReplies(r)

Spec == Init /\ [][Next]_vars

\* What Receive(i) would change something with: ENABLED <<Receive(i)>>_vars, in
\* a form that TLC evaluates without parsing the packet.
Awaited(i) == /\ i \in Packets \ forwarded
              /\ i \in seen => assembler.expired

\* A client repeats an Initial until it is acknowledged, which takes the
\* server to have it, and the network lets one of the copies through: weak
\* fairness of Receive(i).
FairSpec ==
  Spec /\ \A i \in 1..3 : <>[]Awaited(i) => []<><<i \in Packets /\ Receive(i)>>_vars

-----------------------------------------------------------------------------
\* Type invariant of the tables and of the assembler's buffer.
TypeOK ==
  /\ assembler.present => /\ assembler.buffer \in [1..BufferSize -> 0..255]
                          /\ assembler.written \subseteq Bits
                          /\ assembler.maxOffset \in 0..BufferSize
  /\ seen \subseteq Packets /\ forwarded \subseteq Packets
  /\ sessions \subseteq {DCID, OtherDCID}
  /\ \A c \in DOMAIN dcidAliases : dcidAliases[c] \in sessions
  /\ dcidLengths \subseteq Nat

\* The handlers never see a ClientHello with a byte, a name or a protocol the
\* client did not send: gaps, overlaps, repetitions and the order of frames
\* do not matter.
HelloFaithful == hello.ok => hello = flight.hello

\* The bytes of the ClientHello in the Initials of a set.
Covered(S) ==
  UNION {UNION {f.offset..(f.offset + Len(f.data) - 1) :
                  f \in ToSet(extractCryptoFrames(flight.packets[i].plain))} : i \in S}

\* No Initial is waited for that is not needed: as long as there is no
\* session, the Initials in the assembler leave a byte of the ClientHello out,
\* or it does not fit into the buffer.
OpensWhenCovered ==
  DCID \notin sessions /\ Len(flight.hello.raw) <= BufferSize =>
    ~(0..(Len(flight.hello.raw) - 1) \subseteq Covered(seen))

\* The relay keeps only the Initial that completes the ClientHello; the others
\* reach the server when the client repeats them, by way of the session.
ServerGetsHello == Len(flight.hello.raw) <= BufferSize => <>[](forwarded = Packets)

\* The SCIDs of a server's datagram.
SCIDsOf(r) == {r[i].scid : i \in DOMAIN r} \ {<<>>}
UsedSCIDs == UNION {SCIDsOf(r) : r \in replies}

\* The SCIDs up to the first packet with a token field, its own included.
BeforeToken(r) ==
  {r[i].scid : i \in {k \in DOMAIN r : \A j \in 1..(k - 1) : r[j].type # "Initial"}} \ {<<>>}

\* The relay knows these connection IDs of the server, and no others: aliases
\* are not bytes out of a payload.  The tables are those of TypeOK.
AliasesExact ==
  /\ TypeOK
  /\ DOMAIN dcidAliases \subseteq UsedSCIDs
  /\ UNION {BeforeToken(r) : r \in replies} \subseteq {DCID} \cup DOMAIN dcidAliases

\* "ExtractAllSCIDs extracts SCIDs from all coalesced packets in a UDP
\* datagram": an SCID behind an Initial is known as well.
LearnsAllSCIDs == UsedSCIDs \subseteq {DCID} \cup DOMAIN dcidAliases

\* A packet of the client reaches its own session by its connection ID, from
\* any address, unless its bytes also begin with a longer ID of another.
RoutesToOwner ==
  DCID \in sessions =>
    \A c \in {OtherDCID, DCID} \cup DOMAIN dcidAliases, x \in {0, 2}, a \in {Addr, OtherAddr, "new"} :
      LET p == <<64>> \o c \o <<x, x>>
          hidden == \E e \in Matches(p) : Len(e) > Len(c) /\ Lookup(e) # Lookup(c)
      IN hidden \/ findSession(p, a) = Lookup(c)
=============================================================================
