--------------------------- MODULE PendingPackets ---------------------------
(***************************************************************************)
(* Packets that arrive before the session they belong to                   *)
(* (internal/proxy/proxy.go): 0-RTT and Handshake packets are kept in a    *)
(* buffer per DCID, the worker that opens the session flushes the buffer,  *)
(* and cleanupSessions drops buffers older than assemblerTimeout.  The     *)
(* number of buffers is capped with a counter, like that of assemblers.    *)
(*                                                                         *)
(* Each operation on the map, the counter or a buffer's mutex is one step. *)
(* Packets are numbered in the order in which workers take them up.        *)
(***************************************************************************)
EXTENDS Integers, FiniteSets, Sequences

CONSTANTS
  Workers, Janitor,  \* goroutines: packet workers and the cleanup ticker
  Keys,              \* DCIDs
  ServedBy,          \* the workers that get packets of a DCID: more than
                     \* one when they come from several client addresses
  Cap,               \* maxPendingBuffers
  MaxPer,            \* maxPendingPerDCID
  MaxPkts, MaxBuf, MaxConn  \* bounds: packets, buffers, sessions of a DCID

NoBuf == 0
NoKey == "none"
Bufs == 1..MaxBuf
Pkts == 1..MaxPkts
Threads == Workers \cup {Janitor}

ASSUME PendingAssumption ==
  /\ Janitor \notin Workers
  /\ NoKey \notin Keys
  /\ ServedBy \in [Keys -> SUBSET Workers]
  /\ Cap \in Nat /\ MaxPer \in Nat
  /\ MaxPkts \in Nat /\ MaxBuf \in Nat /\ MaxConn \in Nat
  /\ IsFiniteSet(Keys) /\ IsFiniteSet(Threads)

VARIABLES
  pendingPackets,  \* DCID -> buffer, NoBuf when absent
  pendingCount,    \* the atomic counter
  nextBuf, expired,  \* the next buffer; which are older than assemblerTimeout
  packets,         \* buffer -> the packets in it
  known,           \* DCIDs with a session
  opened,          \* DCID -> how often its ClientHello was complete
  nextPkt,         \* the next packet number
  waiting,         \* DCID -> packets accepted into a buffer that the ticker has not
                   \* dropped, and not yet passed on
  out,             \* DCID -> the packets OnPacket got
  pc, key,         \* of every goroutine: label and DCID at hand
  buf, pkt,        \* of a worker: buffer and packet at hand
  batch,           \* of an opening worker: packets to flush
  todo             \* of the ticker: DCIDs left to visit

pmap == <<pendingPackets, pendingCount>>
buffers == <<nextBuf, expired, packets, waiting>>
world == <<known, opened, nextPkt>>
wlocals == <<buf, pkt, batch>>
vars == <<pmap, buffers, world, out, pc, key, wlocals, todo>>

Present == {k \in Keys : pendingPackets[k] # NoBuf}
Contents(b) == {packets[b][i] : i \in 1..Len(packets[b])}
Goto(t, label) == pc' = [pc EXCEPT ![t] = label]

\* Type invariant: the counter never goes negative, and buffers hold packets.
TypeOK ==
  /\ pendingPackets \in [Keys -> Bufs \cup {NoBuf}]
  /\ pendingCount \in Nat
  /\ nextBuf \in 1..(MaxBuf + 1)
  /\ expired \in [Bufs -> BOOLEAN]
  /\ packets \in [Bufs -> Seq(Pkts)]
  /\ \A b \in Bufs : Len(packets[b]) <= MaxPer
  /\ known \in SUBSET Keys
  /\ opened \in [Keys -> Nat]
  /\ nextPkt \in 1..(MaxPkts + 1)
  /\ waiting \in [Keys -> SUBSET Pkts]
  /\ out \in [Keys -> Seq(Pkts)]
  /\ pc \in [Threads -> {"idle", "load", "reserve", "insert", "cancel", "reload", "append",
                         "connect", "flush", "uncountFlush", "take", "forward",
                         "scan", "drop", "uncountDrop"}]
  /\ key \in [Threads -> Keys \cup {NoKey}]
  /\ buf \in [Workers -> Bufs \cup {NoBuf}]
  /\ pkt \in [Workers -> Pkts \cup {0}]
  /\ batch \in [Workers -> Seq(Pkts)]
  /\ todo \in SUBSET Keys

Init ==
  /\ pendingPackets = [k \in Keys |-> NoBuf]
  /\ pendingCount = 0
  /\ nextBuf = 1
  /\ expired = [b \in Bufs |-> FALSE]
  /\ packets = [b \in Bufs |-> <<>>]
  /\ known = {}
  /\ opened = [k \in Keys |-> 0]
  /\ nextPkt = 1
  /\ waiting = [k \in Keys |-> {}]
  /\ out = [k \in Keys |-> <<>>]
  /\ pc = [t \in Threads |-> "idle"]
  /\ key = [t \in Threads |-> NoKey]
  /\ buf = [w \in Workers |-> NoBuf]
  /\ pkt = [w \in Workers |-> 0]
  /\ batch = [w \in Workers |-> <<>>]
  /\ todo = {}

\* handlePacket returns.
Return(w) ==
  /\ Goto(w, "idle")
  /\ key' = [key EXCEPT ![w] = NoKey]
  /\ buf' = [buf EXCEPT ![w] = NoBuf]
  /\ pkt' = [pkt EXCEPT ![w] = 0]
  /\ batch' = [batch EXCEPT ![w] = <<>>]

-----------------------------------------------------------------------------
(* bufferPendingPacket.                                                    *)

\* A 0-RTT or Handshake packet for which findSession finds nothing.
ReceiveEarly(w, k) ==
  /\ pc[w] = "idle"
  /\ w \in ServedBy[k]
  /\ k \notin known
  /\ nextPkt <= MaxPkts
  /\ key' = [key EXCEPT ![w] = k]
  /\ pkt' = [pkt EXCEPT ![w] = nextPkt]
  /\ nextPkt' = nextPkt + 1
  /\ Goto(w, "load")
  /\ UNCHANGED <<pmap, buffers, known, opened, out, buf, batch, todo>>

\* loadOrCreatePendingBuffer: both Loads that find a buffer ...
LoadBuffer(w) ==
  /\ pc[w] \in {"load", "reload"}
  /\ key[w] \in Present
  /\ buf' = [buf EXCEPT ![w] = pendingPackets[key[w]]]
  /\ Goto(w, "append")
  /\ UNCHANGED <<pmap, buffers, world, out, key, pkt, batch, todo>>

\* ... a first Load that does not ...
CreateBuffer(w) ==
  /\ pc[w] = "load"
  /\ key[w] \notin Present
  /\ nextBuf <= MaxBuf
  /\ buf' = [buf EXCEPT ![w] = nextBuf]
  /\ nextBuf' = nextBuf + 1
  /\ Goto(w, "reserve")
  /\ UNCHANGED <<pmap, expired, packets, waiting, world, out, key, pkt, batch, todo>>

\* ... and a second one that does not: the packet is discarded.
NoBuffer(w) ==
  /\ pc[w] = "reload"
  /\ key[w] \notin Present
  /\ Return(w)
  /\ UNCHANGED <<pmap, buffers, world, out, todo>>

\* Mutant: admits one more than the cap.
ReservePastCap(w) ==
  /\ pc[w] = "reserve"
  /\ \/ pendingCount <= Cap /\ pendingCount' = pendingCount + 1 /\ Goto(w, "insert")
     \/ pendingCount > Cap /\ Goto(w, "reload") /\ UNCHANGED pendingCount
  /\ UNCHANGED <<pendingPackets, buffers, world, out, key, wlocals, todo>>

\* storePendingBuffer: the compare-and-swap loop takes a slot or gives up ...
ReserveSlot(w) ==
  /\ pc[w] = "reserve"
  /\ \/ pendingCount < Cap /\ pendingCount' = pendingCount + 1 /\ Goto(w, "insert")
     \/ pendingCount >= Cap /\ Goto(w, "reload") /\ UNCHANGED pendingCount
  /\ UNCHANGED <<pendingPackets, buffers, world, out, key, wlocals, todo>>

\* ... LoadOrStore fills it, or finds the DCID taken ...
StoreBuffer(w) ==
  /\ pc[w] = "insert"
  /\ \/ /\ key[w] \notin Present
        /\ pendingPackets' = [pendingPackets EXCEPT ![key[w]] = buf[w]]
        /\ Goto(w, "append")
     \/ /\ key[w] \in Present
        /\ Goto(w, "cancel")
        /\ UNCHANGED pendingPackets
  /\ UNCHANGED <<pendingCount, buffers, world, out, key, wlocals, todo>>

\* ... and the slot is given back.
CancelSlot(w) ==
  /\ pc[w] = "cancel"
  /\ pendingCount' = pendingCount - 1
  /\ Goto(w, "reload")
  /\ UNCHANGED <<pendingPackets, buffers, world, out, key, wlocals, todo>>

\* Under the buffer's mutex, unless it is full.
AppendPacket(w) ==
  /\ pc[w] = "append"
  /\ \/ /\ Len(packets[buf[w]]) < MaxPer
        /\ packets' = [packets EXCEPT ![buf[w]] = Append(@, pkt[w])]
        /\ waiting' = IF pendingPackets[key[w]] # buf[w] THEN waiting
                      ELSE [waiting EXCEPT ![key[w]] = @ \cup {pkt[w]}]
     \/ /\ Len(packets[buf[w]]) >= MaxPer
        /\ UNCHANGED <<packets, waiting>>
  /\ Return(w)
  /\ UNCHANGED <<pmap, nextBuf, expired, world, out, todo>>

-----------------------------------------------------------------------------
(* The worker that opens the session flushes the buffer.                   *)

\* A complete ClientHello.
ReceiveInitial(w, k) ==
  /\ pc[w] = "idle"
  /\ w \in ServedBy[k]
  /\ k \notin known
  /\ opened[k] < MaxConn
  /\ opened' = [opened EXCEPT ![k] = @ + 1]
  /\ key' = [key EXCEPT ![w] = k]
  /\ Goto(w, "connect")
  /\ UNCHANGED <<pmap, buffers, known, nextPkt, out, buf, pkt, batch, todo>>

\* OnConnect returns Drop.
ConnectDropped(w) ==
  /\ pc[w] = "connect"
  /\ Return(w)
  /\ UNCHANGED <<pmap, buffers, world, out, todo>>

\* storeSession, retainChain and the client address.
StoreSession(w) ==
  /\ pc[w] = "connect"
  /\ known' = known \cup {key[w]}
  /\ Goto(w, "flush")
  /\ UNCHANGED <<pmap, buffers, opened, nextPkt, out, key, wlocals, todo>>

\* flushPendingPackets: LoadAndDelete ...
FlushPending(w) ==
  /\ pc[w] = "flush"
  /\ \/ /\ key[w] \in Present
        /\ buf' = [buf EXCEPT ![w] = pendingPackets[key[w]]]
        /\ pendingPackets' = [pendingPackets EXCEPT ![key[w]] = NoBuf]
        /\ Goto(w, "uncountFlush")
        /\ UNCHANGED <<key, pkt, batch>>
     \/ /\ key[w] \notin Present
        /\ Return(w)
        /\ UNCHANGED pendingPackets
  /\ UNCHANGED <<pendingCount, buffers, world, out, todo>>

UncountFlushed(w) ==
  /\ pc[w] = "uncountFlush"
  /\ pendingCount' = pendingCount - 1
  /\ Goto(w, "take")
  /\ UNCHANGED <<pendingPackets, buffers, world, out, key, wlocals, todo>>

\* ... take the packets under the mutex ...
TakePackets(w) ==
  /\ pc[w] = "take"
  /\ batch' = [batch EXCEPT ![w] = packets[buf[w]]]
  /\ packets' = [packets EXCEPT ![buf[w]] = <<>>]
  /\ Goto(w, "forward")
  /\ UNCHANGED <<pmap, nextBuf, expired, waiting, world, out, key, buf, pkt, todo>>

\* p reaches OnPacket.
Deliver(k, p) ==
  /\ out' = [out EXCEPT ![k] = Append(@, p)]
  /\ waiting' = [waiting EXCEPT ![k] = @ \ {p}]

\* Mutant: the last packet first.
ForwardLast(w) ==
  /\ pc[w] = "forward"
  /\ batch[w] # <<>>
  /\ Deliver(key[w], batch[w][Len(batch[w])])
  /\ batch' = [batch EXCEPT ![w] = SubSeq(@, 1, Len(@) - 1)]
  /\ UNCHANGED <<pmap, nextBuf, expired, packets, world, pc, key, buf, pkt, todo>>

\* Mutant: only the first packet.
ForwardOne(w) ==
  /\ pc[w] = "forward"
  /\ batch[w] # <<>>
  /\ Deliver(key[w], Head(batch[w]))
  /\ batch' = [batch EXCEPT ![w] = <<>>]
  /\ UNCHANGED <<pmap, nextBuf, expired, packets, world, pc, key, buf, pkt, todo>>

\* ... and pass them on one by one.
ForwardNext(w) ==
  /\ pc[w] = "forward"
  /\ batch[w] # <<>>
  /\ Deliver(key[w], Head(batch[w]))
  /\ batch' = [batch EXCEPT ![w] = Tail(@)]
  /\ UNCHANGED <<pmap, nextBuf, expired, packets, world, pc, key, buf, pkt, todo>>

FlushDone(w) ==
  /\ pc[w] = "forward"
  /\ batch[w] = <<>>
  /\ Return(w)
  /\ UNCHANGED <<pmap, buffers, world, out, todo>>

\* A packet of an established session.
ReceiveLate(w, k) ==
  /\ pc[w] = "idle"
  /\ w \in ServedBy[k]
  /\ k \in known
  /\ nextPkt <= MaxPkts
  /\ nextPkt' = nextPkt + 1
  /\ Deliver(k, nextPkt)
  /\ UNCHANGED <<pmap, nextBuf, expired, packets, known, opened, pc, key, wlocals, todo>>

\* deleteSession.
SessionEnds(k) ==
  /\ k \in known
  /\ known' = known \ {k}
  /\ UNCHANGED <<pmap, buffers, opened, nextPkt, out, pc, key, wlocals, todo>>

-----------------------------------------------------------------------------
(* cleanupSessions, the last Range of a tick.                              *)

\* A buffer in the map grows older than assemblerTimeout (the ticker looks at
\* no other).
Expire(b) ==
  /\ \E k \in Keys : pendingPackets[k] = b
  /\ ~expired[b]
  /\ expired' = [expired EXCEPT ![b] = TRUE]
  /\ UNCHANGED <<pmap, nextBuf, packets, waiting, world, out, pc, key, wlocals, todo>>

Tick ==
  /\ pc[Janitor] = "idle"
  /\ todo' = Keys
  /\ Goto(Janitor, "scan")
  /\ UNCHANGED <<pmap, buffers, world, out, key, wlocals>>

ScanNext(k) ==
  LET stale == k \in Present /\ expired[pendingPackets[k]]
  IN  /\ pc[Janitor] = "scan"
      /\ k \in todo
      /\ todo' = todo \ {k}
      /\ key' = [key EXCEPT ![Janitor] = IF stale THEN k ELSE NoKey]
      /\ Goto(Janitor, IF stale THEN "drop" ELSE "scan")
      /\ UNCHANGED <<pmap, buffers, world, out, wlocals>>

ScanDone ==
  /\ pc[Janitor] = "scan"
  /\ todo = {}
  /\ Goto(Janitor, "idle")
  /\ UNCHANGED <<pmap, buffers, world, out, key, wlocals, todo>>

\* Mutant: uncounts a buffer that a flush has taken in the meantime.
DeleteTwice ==
  /\ pc[Janitor] = "drop"
  /\ pendingPackets' = [pendingPackets EXCEPT ![key[Janitor]] = NoBuf]
  /\ key' = [key EXCEPT ![Janitor] = NoKey]
  /\ Goto(Janitor, "uncountDrop")
  /\ UNCHANGED <<pendingCount, buffers, world, out, wlocals, todo>>

\* deletePendingBuffer: LoadAndDelete by DCID, and Add(-1) if it was there.
\* What the buffer holds is given up.
DeleteBuffer ==
  LET k == key[Janitor]
      lost == IF k \in Present THEN Contents(pendingPackets[k]) ELSE {}
  IN  /\ pc[Janitor] = "drop"
      /\ pendingPackets' = [pendingPackets EXCEPT ![k] = NoBuf]
      /\ waiting' = [waiting EXCEPT ![k] = @ \ lost]
      /\ key' = [key EXCEPT ![Janitor] = NoKey]
      /\ Goto(Janitor, IF k \in Present THEN "uncountDrop" ELSE "scan")
      /\ UNCHANGED <<pendingCount, nextBuf, expired, packets, world, out, wlocals, todo>>

UncountBuffer ==
  /\ pc[Janitor] = "uncountDrop"
  /\ pendingCount' = pendingCount - 1
  /\ Goto(Janitor, "scan")
  /\ UNCHANGED <<pendingPackets, buffers, world, out, key, wlocals, todo>>

-----------------------------------------------------------------------------
WorkerStep(w) ==
  \/ LoadBuffer(w) \/ CreateBuffer(w) \/ NoBuffer(w) \/ ReserveSlot(w) \/ StoreBuffer(w)
  \/ CancelSlot(w) \/ AppendPacket(w) \/ ConnectDropped(w) \/ StoreSession(w)
  \/ FlushPending(w) \/ UncountFlushed(w) \/ TakePackets(w) \/ ForwardNext(w) \/ FlushDone(w)

JanitorStep ==
  \/ Tick \/ ScanDone \/ DeleteBuffer \/ UncountBuffer
  \/ \E k \in Keys : ScanNext(k)

Next ==
  \/ \E w \in Workers, k \in Keys : ReceiveEarly(w, k) \/ ReceiveInitial(w, k) \/ ReceiveLate(w, k)
  \/ \E w \in Workers : WorkerStep(w)
  \/ \E k \in Keys : SessionEnds(k)
  \/ \E b \in Bufs : Expire(b)
  \/ JanitorStep

Spec == Init /\ [][Next]_vars

-----------------------------------------------------------------------------
InFlight == {t \in Threads : pc[t] \in {"insert", "cancel", "uncountFlush", "uncountDrop"}}

\* The counter is exactly the buffers in the map plus the slots in flight,
\* also when a flush and the ticker remove the same buffer; no buffer holds
\* more than its limit (TypeOK).
CountExact ==
  /\ TypeOK
  /\ pendingCount = Cardinality(Present) + Cardinality(InFlight)

Bounded == INSTANCE BoundedMap WITH present <- Present, spare <- Cardinality(InFlight)
\* However storePendingBuffer, the flush and the ticker interleave, they
\* implement a map that maxPendingBuffers bounds, slots in flight included.
RefinesBoundedMap == Bounded!BSpec

\* DCIDs whose packets all come from one client address.
SingleAddr == {k \in Keys : Cardinality(ServedBy[k]) = 1}

\* The backend sees the packets of a client in the order in which its worker
\* took them up: buffered ones before those that follow the session's start.
InOrder ==
  \A k \in SingleAddr : \A i, j \in 1..Len(out[k]) : i < j => out[k][i] < out[k][j]

\* When the opening worker is done, no packet accepted for the DCID before is
\* left behind: it was flushed, unless the ticker had dropped its buffer.  (A
\* packet from a second address can be: its worker may store a new buffer
\* behind the flush.)
FlushedAll ==
  [][\A w \in Workers : pc[w] \in {"flush", "forward"} /\ pc'[w] = "idle" /\ key[w] \in SingleAddr =>
       waiting[key[w]] = {}]_vars
=============================================================================
