--------------------------- MODULE PendingProofs ----------------------------
(***************************************************************************)
(* Proofs about PendingPackets, for every number of workers, DCIDs, slots  *)
(* and packets: the counter is exact, the map implements BoundedMap, a     *)
(* client's packets stay in order, and a flush leaves none behind.         *)
(***************************************************************************)
EXTENDS PendingPackets, FiniteSetTheorems, SequenceTheorems, TLAPS

-----------------------------------------------------------------------------
(* The map, the slots and the counter.                                     *)

SlotLabels == {"insert", "cancel", "uncountFlush", "uncountDrop"}
EarlyLabels == {"load", "reserve", "insert", "cancel", "reload", "append"}
BufferLabels == {"reserve", "insert", "append", "uncountFlush", "take", "forward"}

\* What the labels say about a goroutine's locals.
Held ==
  /\ pc[Janitor] \in {"idle", "scan", "drop", "uncountDrop"}
  /\ pc[Janitor] = "drop" => key[Janitor] \in Keys
  /\ \A w \in Workers :
       /\ pc[w] \notin {"scan", "drop", "uncountDrop"}
       /\ pc[w] # "idle" => key[w] \in Keys
       /\ pc[w] = "idle" => key[w] = NoKey
       /\ pc[w] \in BufferLabels => buf[w] \in Bufs
       /\ pc[w] \in EarlyLabels => pkt[w] \in Pkts

\* Types and locals.
Ready == TypeOK /\ Held

Counted == pendingCount = Cardinality(Present) + Cardinality(InFlight)

\* The effects of a step on the map, the slots in flight and the counter:
\* none, a slot is taken, filled, owed for a removed entry, given back.
Same == Present' = Present /\ InFlight' = InFlight /\ pendingCount' = pendingCount
Took(t) == /\ t \notin InFlight /\ InFlight' = InFlight \cup {t}
           /\ pendingCount < Cap /\ pendingCount' = pendingCount + 1
           /\ Present' = Present
Filled(t) == /\ t \in InFlight /\ InFlight' = InFlight \ {t}
             /\ \E k \in Keys \ Present : Present' = Present \cup {k}
             /\ pendingCount' = pendingCount
Emptied(t) == /\ t \notin InFlight /\ InFlight' = InFlight \cup {t}
              /\ \E k \in Present : Present' = Present \ {k}
              /\ pendingCount' = pendingCount
Gave(t) == /\ t \in InFlight /\ InFlight' = InFlight \ {t}
           /\ pendingCount' = pendingCount - 1
           /\ Present' = Present
Effect == Same \/ \E t \in Threads : Took(t) \/ Filled(t) \/ Emptied(t) \/ Gave(t)

\* How InFlight follows the label of the goroutine that moves.
LEMMA Moves ==
  ASSUME Ready, NEW t \in Threads, NEW l, pc' = [pc EXCEPT ![t] = l]
  PROVE  /\ (pc[t] \in SlotLabels <=> l \in SlotLabels) => InFlight' = InFlight
         /\ pc[t] \notin SlotLabels /\ l \in SlotLabels =>
              t \notin InFlight /\ InFlight' = InFlight \cup {t}
         /\ pc[t] \in SlotLabels /\ l \notin SlotLabels =>
              t \in InFlight /\ InFlight' = InFlight \ {t}
<1>1. \A u \in Threads : u \in InFlight <=> pc[u] \in SlotLabels
  BY DEF InFlight, SlotLabels
<1>2. \A u \in Threads : u \in InFlight' <=> IF u = t THEN l \in SlotLabels ELSE pc[u] \in SlotLabels
  BY DEF InFlight, SlotLabels, Ready, TypeOK
<1>3. InFlight \subseteq Threads /\ InFlight' \subseteq Threads
  BY DEF InFlight
<1>4. QED
  BY <1>1, <1>2, <1>3

\* Every step has one of the five effects.
LEMMA EffectOf == Ready /\ [Next]_vars => Effect
<1> SUFFICES ASSUME Ready, [Next]_vars PROVE Effect
  OBVIOUS
<1>w. Workers \subseteq Threads /\ Janitor \in Threads
  BY DEF Threads
<1>1. CASE UNCHANGED <<pmap, pc>>
  BY <1>1 DEF Effect, Same, Present, InFlight, pmap
<1>2. ASSUME NEW t \in Threads, NEW l, Goto(t, l), UNCHANGED pmap, l \notin SlotLabels, pc[t] \notin SlotLabels
      PROVE  Effect
  <2>1. InFlight' = InFlight
    BY <1>2, Moves DEF Goto
  <2>2. QED
    BY <1>2, <2>1 DEF Effect, Same, Present, pmap
<1>3. ASSUME NEW w \in Workers,
             \/ \E k \in Keys : ReceiveEarly(w, k) \/ ReceiveInitial(w, k)
             \/ LoadBuffer(w) \/ CreateBuffer(w) \/ NoBuffer(w) \/ AppendPacket(w)
             \/ ConnectDropped(w) \/ StoreSession(w) \/ TakePackets(w) \/ FlushDone(w)
      PROVE  Effect
  <2>1. pc[w] \in {"idle", "load", "reload", "append", "connect", "take", "forward"} /\ UNCHANGED pmap
    BY <1>3 DEF ReceiveEarly, ReceiveInitial, LoadBuffer, CreateBuffer, NoBuffer, AppendPacket,
                ConnectDropped, StoreSession, TakePackets, FlushDone
  <2>2. \E l \in {"idle", "load", "reserve", "append", "connect", "flush", "forward"} : Goto(w, l)
    BY <1>3 DEF ReceiveEarly, ReceiveInitial, LoadBuffer, CreateBuffer, NoBuffer, AppendPacket,
                ConnectDropped, StoreSession, TakePackets, FlushDone, Return
  <2>3. QED
    BY <1>2, <1>w, <2>1, <2>2 DEF SlotLabels
<1>4. ASSUME NEW w \in Workers, ReserveSlot(w) PROVE Effect
  <2>1. CASE pendingCount < Cap
    <3>1. w \notin InFlight /\ InFlight' = InFlight \cup {w} /\ pendingCount' = pendingCount + 1
      <4>1. pc[w] = "reserve" /\ Goto(w, "insert") /\ pendingCount' = pendingCount + 1
        BY <1>4, <2>1, PendingAssumption DEF ReserveSlot, Ready, TypeOK
      <4>2. QED
        BY <4>1, <1>w, Moves DEF Goto, SlotLabels
    <3>2. Took(w)
      BY <1>4, <2>1, <3>1 DEF Took, ReserveSlot, Present
    <3>3. QED
      BY <3>2, <1>w DEF Effect
  <2>2. CASE ~(pendingCount < Cap)
    <3>1. pc[w] = "reserve" /\ Goto(w, "reload") /\ UNCHANGED pmap
      BY <1>4, <2>2 DEF ReserveSlot, pmap
    <3>2. QED
      BY <3>1, <1>2, <1>w DEF SlotLabels
  <2>3. QED
    BY <2>1, <2>2
<1>5. ASSUME NEW w \in Workers, StoreBuffer(w) PROVE Effect
  <2>1. pc[w] = "insert" /\ pendingCount' = pendingCount
    BY <1>5 DEF StoreBuffer
  <2>2. CASE key[w] \notin Present
    <3>1. Goto(w, "append") /\ pendingPackets' = [pendingPackets EXCEPT ![key[w]] = buf[w]]
      BY <1>5, <2>2 DEF StoreBuffer
    <3>2. w \in InFlight /\ InFlight' = InFlight \ {w}
      BY <2>1, <3>1, <1>w, Moves DEF Goto, SlotLabels
    <3>3. key[w] \in Keys \ Present /\ buf[w] # NoBuf
      BY <2>1, <2>2 DEF Ready, Held, BufferLabels, Bufs, NoBuf
    <3>4. Present' = Present \cup {key[w]}
      BY <3>1, <3>3 DEF Present, Ready, TypeOK
    <3>5. Filled(w)
      BY <2>1, <3>2, <3>3, <3>4 DEF Filled
    <3>6. QED
      BY <3>5, <1>w DEF Effect
  <2>3. CASE key[w] \in Present
    <3>1. Goto(w, "cancel") /\ pendingPackets' = pendingPackets
      BY <1>5, <2>3 DEF StoreBuffer
    <3>2. InFlight' = InFlight
      BY <2>1, <3>1, <1>w, Moves DEF Goto, SlotLabels
    <3>3. QED
      BY <2>1, <3>1, <3>2 DEF Effect, Same, Present
  <2>4. QED
    BY <2>2, <2>3
<1>6. ASSUME NEW t \in Threads, NEW l, Goto(t, l), pc[t] \in SlotLabels, l \notin SlotLabels,
             pendingPackets' = pendingPackets, pendingCount' = pendingCount - 1
      PROVE  Effect
  <2>1. t \in InFlight /\ InFlight' = InFlight \ {t}
    BY <1>6, Moves DEF Goto
  <2>2. Gave(t)
    BY <1>6, <2>1 DEF Gave, Present
  <2>3. QED
    BY <2>2 DEF Effect
<1>7. ASSUME NEW w \in Workers, CancelSlot(w) \/ UncountFlushed(w) PROVE Effect
  BY <1>6, <1>7, <1>w DEF CancelSlot, UncountFlushed, SlotLabels
<1>8. ASSUME NEW t \in Threads, NEW l, Goto(t, l), pc[t] \notin SlotLabels, l \in SlotLabels,
             key[t] \in Present, pendingPackets' = [pendingPackets EXCEPT ![key[t]] = NoBuf],
             pendingCount' = pendingCount
      PROVE  Effect
  <2>1. t \notin InFlight /\ InFlight' = InFlight \cup {t}
    BY <1>8, Moves DEF Goto
  <2>2. Present' = Present \ {key[t]}
    BY <1>8 DEF Present, Ready, TypeOK
  <2>3. Emptied(t)
    BY <1>8, <2>1, <2>2 DEF Emptied
  <2>4. QED
    BY <2>3 DEF Effect
<1>9. ASSUME NEW w \in Workers, FlushPending(w) PROVE Effect
  <2>1. pc[w] = "flush" /\ pendingCount' = pendingCount
    BY <1>9 DEF FlushPending
  <2>2. CASE key[w] \in Present
    BY <1>8, <1>9, <1>w, <2>1, <2>2 DEF FlushPending, SlotLabels
  <2>3. CASE key[w] \notin Present
    BY <1>2, <1>9, <1>w, <2>1, <2>3 DEF FlushPending, Return, SlotLabels, pmap
  <2>4. QED
    BY <2>2, <2>3
<1>10. ASSUME NEW w \in Workers, ForwardNext(w) PROVE Effect
  BY <1>1, <1>10 DEF ForwardNext
<1>11. ASSUME NEW w \in Workers, NEW k \in Keys, ReceiveLate(w, k) PROVE Effect
  BY <1>1, <1>11 DEF ReceiveLate
<1>12. ASSUME NEW k \in Keys, SessionEnds(k) PROVE Effect
  BY <1>1, <1>12 DEF SessionEnds
<1>13. ASSUME NEW b \in Bufs, Expire(b) PROVE Effect
  BY <1>1, <1>13 DEF Expire
<1>14. CASE Tick \/ ScanDone \/ \E k \in Keys : ScanNext(k)
  <2>1. /\ pc[Janitor] \in {"idle", "scan"} /\ UNCHANGED pmap
        /\ \E l \in {"idle", "scan", "drop"} : Goto(Janitor, l)
    BY <1>14 DEF Tick, ScanDone, ScanNext
  <2>2. QED
    BY <1>2, <1>w, <2>1 DEF SlotLabels
<1>15. CASE DeleteBuffer
  <2>1. /\ pc[Janitor] = "drop" /\ pendingCount' = pendingCount /\ key[Janitor] \in Keys
        /\ pendingPackets' = [pendingPackets EXCEPT ![key[Janitor]] = NoBuf]
    BY <1>15 DEF DeleteBuffer, Ready, Held
  <2>2. CASE key[Janitor] \in Present
    <3>1. Goto(Janitor, "uncountDrop")
      BY <1>15, <2>2 DEF DeleteBuffer
    <3>2. QED
      BY <1>8, <1>w, <2>1, <2>2, <3>1 DEF SlotLabels
  <2>3. CASE key[Janitor] \notin Present
    <3>1. Goto(Janitor, "scan")
      BY <1>15, <2>3 DEF DeleteBuffer
    <3>2. pendingPackets[key[Janitor]] = NoBuf
      BY <2>1, <2>3 DEF Present
    <3>3. pendingPackets' = pendingPackets
      BY <2>1, <3>2 DEF Ready, TypeOK
    <3>4. QED
      BY <1>2, <1>w, <2>1, <3>1, <3>3 DEF SlotLabels, pmap
  <2>4. QED
    BY <2>2, <2>3
<1>16. CASE UncountBuffer
  BY <1>6, <1>16, <1>w DEF UncountBuffer, SlotLabels
<1>17. CASE UNCHANGED vars
  BY <1>1, <1>17 DEF vars
<1>18. QED
  BY <1>3, <1>4, <1>5, <1>7, <1>9, <1>10, <1>11, <1>12, <1>13, <1>14, <1>15, <1>16, <1>17
     DEF Next, WorkerStep, JanitorStep

\* Present and InFlight are finite.
LEMMA Sizes ==
  /\ IsFiniteSet(Present) /\ Cardinality(Present) \in Nat
  /\ IsFiniteSet(InFlight) /\ Cardinality(InFlight) \in Nat
<1>1. Present \subseteq Keys /\ InFlight \subseteq Threads
  BY DEF Present, InFlight
<1>2. QED
  BY <1>1, PendingAssumption, FS_Subset, FS_CardinalityType

\* BoundedMap's Cardinality is the same operator.
LEMMA SameSize == Bounded!Cardinality(Present) = Cardinality(Present)
  BY Zenon DEF Bounded!Cardinality, Bounded!IsFiniteSet, Cardinality, IsFiniteSet

\* An effect keeps the counter exact, and is a step of BoundedMap or a stutter.
LEMMA EffectRefines ==
  ASSUME Effect, Counted
  PROVE  Counted' /\ pendingCount' \in Nat /\ [Bounded!BNext]_(Bounded!bvars)
<1>p. Present \subseteq Keys
  BY DEF Present
<1>s. /\ IsFiniteSet(Present') /\ Cardinality(Present') \in Nat
      /\ IsFiniteSet(InFlight') /\ Cardinality(InFlight') \in Nat
  <2>1. Present' \subseteq Keys /\ InFlight' \subseteq Threads
    BY DEF Present, InFlight
  <2>2. QED
    BY <2>1, PendingAssumption, FS_Subset, FS_CardinalityType
<1>1. ASSUME Same PROVE Counted' /\ [Bounded!BNext]_(Bounded!bvars)
  BY <1>1 DEF Same, Counted, Bounded!bvars
<1>2. ASSUME NEW t \in Threads, Took(t) PROVE Counted' /\ Bounded!Reserve
  <2>1. Cardinality(InFlight') = Cardinality(InFlight) + 1
    BY <1>2, Sizes, FS_AddElement DEF Took
  <2>2. Counted'
    BY <1>2, <2>1, Sizes DEF Took, Counted
  <2>3. Bounded!Reserve
    BY <1>2, <2>1, SameSize DEF Took, Counted, Bounded!Reserve
  <2>4. QED
    BY <2>2, <2>3
<1>3. ASSUME NEW t \in Threads, Filled(t) PROVE Counted' /\ \E k \in Keys : Bounded!Insert(k)
  <2>1. Cardinality(InFlight') = Cardinality(InFlight) - 1
    BY <1>3, Sizes, FS_RemoveElement DEF Filled
  <2>2. Cardinality(InFlight) > 0
    BY <1>3, Sizes, FS_EmptySet DEF Filled
  <2>3. PICK k \in Keys \ Present : Present' = Present \cup {k}
    BY <1>3 DEF Filled
  <2>4. Cardinality(Present') = Cardinality(Present) + 1
    BY <2>3, Sizes, FS_AddElement
  <2>5. Counted'
    BY <1>3, <2>1, <2>4, Sizes DEF Filled, Counted
  <2>6. Bounded!Insert(k)
    BY <2>1, <2>2, <2>3 DEF Bounded!Insert
  <2>7. QED
    BY <2>5, <2>6
<1>4. ASSUME NEW t \in Threads, Emptied(t) PROVE Counted' /\ \E k \in Keys : Bounded!Remove(k)
  <2>1. Cardinality(InFlight') = Cardinality(InFlight) + 1
    BY <1>4, Sizes, FS_AddElement DEF Emptied
  <2>2. PICK k \in Present : Present' = Present \ {k}
    BY <1>4 DEF Emptied
  <2>3. Cardinality(Present') = Cardinality(Present) - 1
    BY <2>2, Sizes, FS_RemoveElement
  <2>4. Counted'
    BY <1>4, <2>1, <2>3, Sizes DEF Emptied, Counted
  <2>5. Bounded!Remove(k)
    BY <2>1, <2>2 DEF Bounded!Remove
  <2>6. QED
    BY <1>p, <2>4, <2>5
<1>5. ASSUME NEW t \in Threads, Gave(t) PROVE Counted' /\ Bounded!GiveBack
  <2>1. Cardinality(InFlight') = Cardinality(InFlight) - 1
    BY <1>5, Sizes, FS_RemoveElement DEF Gave
  <2>2. Cardinality(InFlight) > 0
    BY <1>5, Sizes, FS_EmptySet DEF Gave
  <2>3. QED
    BY <1>5, <2>1, <2>2, Sizes DEF Gave, Counted, Bounded!GiveBack
<1>6. Counted' /\ [Bounded!BNext]_(Bounded!bvars)
  BY <1>1, <1>2, <1>3, <1>4, <1>5 DEF Effect, Bounded!BNext
<1>7. QED
  BY <1>6, <1>s DEF Counted

\* A worker that returns leaves clean locals behind.
LEMMA ReturnHeld ==
  ASSUME Ready, NEW w \in Workers, Return(w)
  PROVE  /\ pc' = [pc EXCEPT ![w] = "idle"] /\ key' \in [Threads -> Keys \cup {NoKey}]
         /\ buf' \in [Workers -> Bufs \cup {NoBuf}] /\ pkt' \in [Workers -> Pkts \cup {0}]
         /\ batch' \in [Workers -> Seq(Pkts)]
         /\ Held'
<1>1. w # Janitor /\ Workers \subseteq Threads /\ Janitor \in Threads
  BY PendingAssumption DEF Threads
<1>2. <<>> \in Seq(Pkts)
  BY EmptySeq
<1>3. QED
  BY <1>1, <1>2 DEF Return, Goto, Ready, TypeOK, Held, BufferLabels, EarlyLabels

\* Types and locals stay in place, once the counter does.
LEMMA ReadyStep == ASSUME Ready, [Next]_vars, pendingCount' \in Nat PROVE Ready'
<1>w. Workers \subseteq Threads /\ Janitor \in Threads /\ \A w \in Workers : w # Janitor
  BY PendingAssumption DEF Threads
<1>n. nextPkt \in Nat /\ nextBuf \in Nat /\ MaxPkts \in Nat /\ MaxBuf \in Nat /\ MaxPer \in Nat
  BY PendingAssumption DEF Ready, TypeOK
<1>1. ASSUME NEW w \in Workers, NEW k \in Keys, ReceiveEarly(w, k) PROVE Ready'
  <2>1. nextPkt \in Pkts /\ nextPkt' \in 1..(MaxPkts + 1)
    BY <1>1, <1>n DEF ReceiveEarly, Ready, TypeOK, Pkts
  <2>2. TypeOK'
    BY <1>1, <1>w, <2>1 DEF ReceiveEarly, Ready, TypeOK, Goto, pmap, buffers
  <2>3. Held'
    BY <1>1, <1>w, <2>1 DEF ReceiveEarly, Ready, TypeOK, Held, Goto, EarlyLabels, BufferLabels
  <2>4. QED
    BY <2>2, <2>3 DEF Ready
<1>2. ASSUME NEW w \in Workers, NEW k \in Keys, ReceiveInitial(w, k) PROVE Ready'
  <2>1. TypeOK'
    BY <1>2, <1>w DEF ReceiveInitial, Ready, TypeOK, Goto, pmap, buffers
  <2>2. Held'
    BY <1>2, <1>w DEF ReceiveInitial, Ready, TypeOK, Held, Goto, EarlyLabels, BufferLabels
  <2>3. QED
    BY <2>1, <2>2 DEF Ready
<1>3. ASSUME NEW w \in Workers, NEW k \in Keys, ReceiveLate(w, k) PROVE Ready'
  <2>1. nextPkt \in Pkts /\ nextPkt' \in 1..(MaxPkts + 1)
    BY <1>3, <1>n DEF ReceiveLate, Ready, TypeOK, Pkts
  <2>2. Append(out[k], nextPkt) \in Seq(Pkts)
    BY <2>1, AppendProperties DEF Ready, TypeOK
  <2>3. out' \in [Keys -> Seq(Pkts)] /\ waiting' \in [Keys -> SUBSET Pkts]
    BY <1>3, <2>2 DEF ReceiveLate, Deliver, Ready, TypeOK
  <2>4. TypeOK'
    BY <1>3, <2>1, <2>3 DEF ReceiveLate, Ready, TypeOK, pmap, wlocals
  <2>5. Held'
    BY <1>3 DEF ReceiveLate, Ready, Held, wlocals
  <2>6. QED
    BY <2>4, <2>5 DEF Ready
<1>4. ASSUME NEW w \in Workers, LoadBuffer(w) PROVE Ready'
  <2>1. pendingPackets[key[w]] \in Bufs /\ key[w] \in Keys
    BY <1>4 DEF LoadBuffer, Present, Ready, TypeOK, NoBuf
  <2>2. TypeOK'
    BY <1>4, <1>w, <2>1 DEF LoadBuffer, Ready, TypeOK, Goto, pmap, buffers, world
  <2>3. Held'
    BY <1>4, <1>w, <2>1 DEF LoadBuffer, Ready, TypeOK, Held, Goto, EarlyLabels, BufferLabels
  <2>4. QED
    BY <2>2, <2>3 DEF Ready
<1>5. ASSUME NEW w \in Workers, CreateBuffer(w) PROVE Ready'
  <2>1. nextBuf \in Bufs /\ nextBuf' \in 1..(MaxBuf + 1)
    BY <1>5, <1>n DEF CreateBuffer, Ready, TypeOK, Bufs
  <2>2. TypeOK'
    BY <1>5, <1>w, <2>1 DEF CreateBuffer, Ready, TypeOK, Goto, pmap, world
  <2>3. Held'
    BY <1>5, <1>w, <2>1 DEF CreateBuffer, Ready, TypeOK, Held, Goto, EarlyLabels, BufferLabels
  <2>4. QED
    BY <2>2, <2>3 DEF Ready
<1>6. ASSUME NEW w \in Workers, NoBuffer(w) \/ ConnectDropped(w) \/ FlushDone(w) PROVE Ready'
  <2>1. Return(w) /\ UNCHANGED <<pmap, buffers, world, out, todo>>
    BY <1>6 DEF NoBuffer, ConnectDropped, FlushDone
  <2>2. TypeOK'
    BY <2>1, <1>w, ReturnHeld DEF Ready, TypeOK, pmap, buffers, world
  <2>3. QED
    BY <2>1, <2>2, ReturnHeld DEF Ready
<1>7. ASSUME NEW w \in Workers, ReserveSlot(w) \/ CancelSlot(w) \/ UncountFlushed(w) PROVE Ready'
  <2>1. /\ UNCHANGED <<pendingPackets, buffers, world, out, key, wlocals, todo>>
        /\ \/ pc[w] = "reserve" /\ Goto(w, "insert")
           \/ pc[w] \in {"reserve", "cancel"} /\ Goto(w, "reload")
           \/ pc[w] = "uncountFlush" /\ Goto(w, "take")
    BY <1>7 DEF ReserveSlot, CancelSlot, UncountFlushed
  <2>2. TypeOK'
    BY <2>1, <1>w DEF Ready, TypeOK, Goto, buffers, world, wlocals
  <2>3. Held'
    BY <2>1, <1>w, SMTT(30) DEF Ready, TypeOK, Held, Goto, EarlyLabels, BufferLabels, wlocals
  <2>4. QED
    BY <2>2, <2>3 DEF Ready
<1>8. ASSUME NEW w \in Workers, StoreBuffer(w) PROVE Ready'
  <2>1. pc[w] = "insert" /\ buf[w] \in Bufs /\ key[w] \in Keys /\ pkt[w] \in Pkts
    BY <1>8 DEF StoreBuffer, Ready, Held, EarlyLabels, BufferLabels
  <2>2. pendingPackets' \in [Keys -> Bufs \cup {NoBuf}]
    BY <1>8, <2>1 DEF StoreBuffer, Ready, TypeOK
  <2>3. \/ Goto(w, "append") \/ Goto(w, "cancel")
    BY <1>8 DEF StoreBuffer
  <2>4. TypeOK'
    BY <1>8, <1>w, <2>2, <2>3 DEF StoreBuffer, Ready, TypeOK, Goto, buffers, world, wlocals
  <2>5. Held'
    BY <1>8, <1>w, <2>1, <2>3 DEF StoreBuffer, Ready, TypeOK, Held, Goto, EarlyLabels, BufferLabels, wlocals
  <2>6. QED
    BY <2>4, <2>5 DEF Ready
<1>9. ASSUME NEW w \in Workers, AppendPacket(w) PROVE Ready'
  <2>1. buf[w] \in Bufs /\ key[w] \in Keys /\ pkt[w] \in Pkts /\ Return(w)
    BY <1>9 DEF AppendPacket, Ready, Held, EarlyLabels, BufferLabels
  <2>2. /\ Append(packets[buf[w]], pkt[w]) \in Seq(Pkts)
        /\ Len(Append(packets[buf[w]], pkt[w])) = Len(packets[buf[w]]) + 1
        /\ Len(packets[buf[w]]) \in Nat
    BY <2>1, AppendProperties, LenProperties DEF Ready, TypeOK
  <2>3. packets' \in [Bufs -> Seq(Pkts)]
    BY <1>9, <2>1, <2>2 DEF AppendPacket, Ready, TypeOK
  <2>4. \A b \in Bufs : Len(packets'[b]) <= MaxPer
    <3>1. CASE packets' = packets
      BY <3>1 DEF Ready, TypeOK
    <3>2. CASE Len(packets[buf[w]]) < MaxPer /\ packets' = [packets EXCEPT ![buf[w]] = Append(@, pkt[w])]
      <4>1. Len(packets'[buf[w]]) <= MaxPer
        BY <1>n, <2>1, <2>2, <3>2 DEF Ready, TypeOK
      <4>2. \A b \in Bufs : b # buf[w] => packets'[b] = packets[b]
        BY <2>1, <3>2 DEF Ready, TypeOK
      <4>3. QED
        BY <4>1, <4>2 DEF Ready, TypeOK
    <3>3. QED
      BY <1>9, <3>1, <3>2 DEF AppendPacket
  <2>5. waiting' \in [Keys -> SUBSET Pkts]
    <3>1. waiting' = waiting \/ waiting' = [waiting EXCEPT ![key[w]] = @ \cup {pkt[w]}]
      BY <1>9 DEF AppendPacket
    <3>2. waiting \in [Keys -> SUBSET Pkts] /\ waiting[key[w]] \cup {pkt[w]} \in SUBSET Pkts
      BY <2>1 DEF Ready, TypeOK
    <3>3. QED
      BY <2>1, <3>1, <3>2
  <2>6. TypeOK'
    BY <1>9, <1>w, <2>1, <2>3, <2>4, <2>5, ReturnHeld DEF AppendPacket, Ready, TypeOK, pmap, world
  <2>7. QED
    BY <2>1, <2>6, ReturnHeld DEF Ready
<1>10. ASSUME NEW w \in Workers, StoreSession(w) PROVE Ready'
  <2>1. TypeOK'
    BY <1>10, <1>w DEF StoreSession, Ready, TypeOK, Held, Goto, pmap, buffers, wlocals
  <2>2. Held'
    BY <1>10, <1>w DEF StoreSession, Ready, TypeOK, Held, Goto, EarlyLabels, BufferLabels, wlocals
  <2>3. QED
    BY <2>1, <2>2 DEF Ready
<1>11. ASSUME NEW w \in Workers, FlushPending(w) PROVE Ready'
  <2>1. CASE key[w] \in Present
    <3>1. key[w] \in Keys /\ pendingPackets[key[w]] \in Bufs
      BY <2>1 DEF Present, Ready, TypeOK, NoBuf
    <3>2. TypeOK'
      BY <1>11, <1>w, <2>1, <3>1 DEF FlushPending, Ready, TypeOK, Goto, buffers, world
    <3>3. Held'
      BY <1>11, <1>w, <2>1, <3>1 DEF FlushPending, Ready, TypeOK, Held, Goto, EarlyLabels, BufferLabels
    <3>4. QED
      BY <3>2, <3>3 DEF Ready
  <2>2. CASE key[w] \notin Present
    <3>1. Return(w) /\ UNCHANGED <<pmap, buffers, world, out, todo>>
      BY <1>11, <2>2 DEF FlushPending, pmap
    <3>2. TypeOK'
      BY <3>1, <1>w, ReturnHeld DEF Ready, TypeOK, pmap, buffers, world
    <3>3. QED
      BY <3>1, <3>2, ReturnHeld DEF Ready
  <2>3. QED
    BY <2>1, <2>2
<1>12. ASSUME NEW w \in Workers, TakePackets(w) PROVE Ready'
  <2>1. buf[w] \in Bufs /\ key[w] \in Keys
    BY <1>12 DEF TakePackets, Ready, Held, BufferLabels
  <2>2. <<>> \in Seq(Pkts) /\ Len(<<>>) = 0
    BY EmptySeq
  <2>3. /\ packets' \in [Bufs -> Seq(Pkts)] /\ batch' \in [Workers -> Seq(Pkts)]
        /\ \A b \in Bufs : Len(packets'[b]) <= MaxPer
    BY <1>12, <1>n, <2>1, <2>2 DEF TakePackets, Ready, TypeOK
  <2>4. TypeOK'
    BY <1>12, <1>w, <2>3 DEF TakePackets, Ready, TypeOK, Goto, pmap, world
  <2>5. Held'
    BY <1>12, <1>w, <2>1 DEF TakePackets, Ready, TypeOK, Held, Goto, EarlyLabels, BufferLabels
  <2>6. QED
    BY <2>4, <2>5 DEF Ready
<1>13. ASSUME NEW w \in Workers, ForwardNext(w) PROVE Ready'
  <2>1. key[w] \in Keys /\ batch[w] \in Seq(Pkts) /\ batch[w] # <<>> /\ out[key[w]] \in Seq(Pkts)
    BY <1>13 DEF ForwardNext, Ready, TypeOK, Held
  <2>2. Head(batch[w]) \in Pkts /\ Tail(batch[w]) \in Seq(Pkts)
    BY <2>1, HeadTailProperties
  <2>3. Append(out[key[w]], Head(batch[w])) \in Seq(Pkts)
    BY <2>1, <2>2, AppendProperties
  <2>4. /\ out' \in [Keys -> Seq(Pkts)] /\ waiting' \in [Keys -> SUBSET Pkts]
        /\ batch' \in [Workers -> Seq(Pkts)]
    BY <1>13, <2>1, <2>2, <2>3 DEF ForwardNext, Deliver, Ready, TypeOK
  <2>5. TypeOK'
    BY <1>13, <2>4 DEF ForwardNext, Ready, TypeOK, pmap, world
  <2>6. Held'
    BY <1>13 DEF ForwardNext, Ready, Held
  <2>7. QED
    BY <2>5, <2>6 DEF Ready
<1>14. ASSUME NEW k \in Keys, SessionEnds(k) PROVE Ready'
  BY <1>14 DEF SessionEnds, Ready, TypeOK, Held, pmap, buffers, wlocals
<1>15. ASSUME NEW b \in Bufs, Expire(b) PROVE Ready'
  BY <1>15 DEF Expire, Ready, TypeOK, Held, pmap, world, wlocals
<1>16. CASE Tick \/ ScanDone \/ UncountBuffer
  <2>1. /\ UNCHANGED <<pendingPackets, buffers, world, out, key, wlocals>>
        /\ todo' \in SUBSET Keys /\ \E l \in {"idle", "scan"} : Goto(Janitor, l)
    BY <1>16 DEF Tick, ScanDone, UncountBuffer, Ready, TypeOK, pmap
  <2>2. TypeOK'
    BY <2>1, <1>w DEF Ready, TypeOK, Goto, buffers, world, wlocals
  <2>3. Held'
    BY <2>1, <1>w DEF Ready, TypeOK, Held, Goto, wlocals
  <2>4. QED
    BY <2>2, <2>3 DEF Ready
<1>17. ASSUME NEW k \in Keys, ScanNext(k) PROVE Ready'
  <2>1. /\ UNCHANGED <<pmap, buffers, world, out, wlocals>> /\ todo' \in SUBSET Keys
        /\ \/ Goto(Janitor, "scan") /\ key' = [key EXCEPT ![Janitor] = NoKey]
           \/ Goto(Janitor, "drop") /\ key' = [key EXCEPT ![Janitor] = k]
    BY <1>17 DEF ScanNext, Ready, TypeOK
  <2>2. TypeOK'
    BY <2>1, <1>w, ZenonT(60) DEF Ready, TypeOK, Goto, pmap, buffers, world, wlocals
  <2>3. Held'
    BY <2>1, <1>w, ZenonT(60) DEF Ready, TypeOK, Held, Goto, wlocals
  <2>4. QED
    BY <2>2, <2>3 DEF Ready
<1>18. CASE DeleteBuffer
  <2>1. /\ key[Janitor] \in Keys /\ key' = [key EXCEPT ![Janitor] = NoKey]
        /\ UNCHANGED <<nextBuf, expired, packets, world, out, wlocals, todo>>
        /\ \E l \in {"uncountDrop", "scan"} : Goto(Janitor, l)
    BY <1>18 DEF DeleteBuffer, Ready, Held
  <2>2. pendingPackets' \in [Keys -> Bufs \cup {NoBuf}] /\ waiting' \in [Keys -> SUBSET Pkts]
    BY <1>18, <2>1 DEF DeleteBuffer, Ready, TypeOK
  <2>3. TypeOK'
    BY <2>1, <2>2, <1>w DEF Ready, TypeOK, Goto, world, wlocals
  <2>4. Held'
    BY <2>1, <1>w DEF Ready, TypeOK, Held, Goto, wlocals
  <2>5. QED
    BY <2>3, <2>4 DEF Ready
<1>19. CASE UNCHANGED vars
  BY <1>19 DEF vars, Ready, TypeOK, Held, pmap, buffers, world, wlocals
<1>20. QED
  BY <1>1, <1>2, <1>3, <1>4, <1>5, <1>6, <1>7, <1>8, <1>9, <1>10, <1>11, <1>12, <1>13, <1>14,
     <1>15, <1>16, <1>17, <1>18, <1>19 DEF Next, WorkerStep, JanitorStep

\* At the start the map is empty and every goroutine idle.
LEMMA PendingInit == Init => Ready /\ Counted /\ Present = {} /\ InFlight = {}
<1> SUFFICES ASSUME Init PROVE Ready /\ Counted /\ Present = {} /\ InFlight = {}
  OBVIOUS
<1>1. Present = {} /\ InFlight = {} /\ pendingCount = 0
  BY DEF Init, Present, InFlight
<1>2. Counted
  BY <1>1, FS_EmptySet DEF Counted
<1>3. <<>> \in Seq(Pkts) /\ Len(<<>>) = 0
  BY EmptySeq
<1>4. nextPkt \in 1..(MaxPkts + 1) /\ nextBuf \in 1..(MaxBuf + 1)
  BY PendingAssumption DEF Init
<1>5. TypeOK
  BY <1>3, <1>4, PendingAssumption DEF Init, TypeOK
<1>6. Held
  BY PendingAssumption DEF Init, Held, Threads, BufferLabels, EarlyLabels
<1>7. QED
  BY <1>1, <1>2, <1>5, <1>6 DEF Ready

\* Types, locals and the count hold together.
LEMMA AlwaysCounted == Spec => [](Ready /\ Counted)
<1>1. Ready /\ Counted /\ [Next]_vars => Ready' /\ Counted'
  BY EffectOf, EffectRefines, ReadyStep
<1>2. QED
  BY <1>1, PendingInit, PTL DEF Spec

\* pendingCount is exact: whatever storePendingBuffer, the flush and the
\* ticker do to each other, it is the number of buffers in the map plus the
\* slots some goroutine still owes or holds, and no buffer outgrows its limit.
THEOREM PendingCount == Spec => []CountExact
<1>1. Ready /\ Counted => CountExact
  BY DEF Ready, Counted, CountExact
<1>2. QED
  BY <1>1, AlwaysCounted, PTL

\* The map of pending buffers with its counter implements the bounded map.
THEOREM PendingRefine == Spec => RefinesBoundedMap
<1>1. Init => Bounded!BInit
  <2> SUFFICES ASSUME Init PROVE Bounded!BInit
    OBVIOUS
  <2>1. Present = {} /\ Cardinality(InFlight) = 0 /\ Cardinality(Present) = 0
    BY PendingInit, FS_EmptySet
  <2>2. QED
    BY <2>1, SameSize, PendingAssumption DEF Bounded!BInit
<1>2. Ready /\ Counted /\ [Next]_vars => [Bounded!BNext]_(Bounded!bvars)
  BY EffectOf, EffectRefines
<1>3. QED
  BY <1>1, <1>2, AlwaysCounted, PTL DEF Spec, RefinesBoundedMap, Bounded!BSpec

-----------------------------------------------------------------------------
(* Who has which buffer.                                                   *)

\* A buffer belongs to one DCID: two DCIDs, or goroutines working for two,
\* never share one.  A buffer that is created but not stored is empty and in
\* one worker's hands.
BuffersApart ==
  /\ \A k \in Present : pendingPackets[k] < nextBuf
  /\ \A w \in Workers : buf[w] < nextBuf
  /\ \A j, k \in Present : pendingPackets[j] = pendingPackets[k] => j = k
  /\ \A w \in Workers, k \in Present : buf[w] = pendingPackets[k] => key[w] = k
  /\ \A v, w \in Workers : buf[v] = buf[w] /\ buf[v] # NoBuf => key[v] = key[w]
  /\ \A w \in Workers : pc[w] \in {"reserve", "insert"} =>
       /\ packets[buf[w]] = <<>>
       /\ \A k \in Keys : pendingPackets[k] # buf[w]
       /\ \A v \in Workers : buf[v] = buf[w] => v = w
  /\ \A b \in Bufs : b >= nextBuf => packets[b] = <<>>
  /\ \A w \in Workers : pc[w] \in {"idle", "load", "connect", "flush"} => buf[w] = NoBuf

\* What BuffersApart is about.
bufferState == <<pendingPackets, nextBuf, packets, buf>>

\* Where only the label and the DCID at hand of a worker without a buffer, or
\* nothing but a label moves.
LEMMA ApartMove ==
  ASSUME Ready, BuffersApart, UNCHANGED bufferState,
         NEW w \in Workers,
         \A v \in Workers : v # w => pc'[v] = pc[v] /\ key'[v] = key[v],
         key'[w] = key[w] \/ buf[w] = NoBuf,
         pc'[w] \in {"reserve", "insert"} => pc[w] \in {"reserve", "insert"},
         pc'[w] \in {"idle", "load", "connect", "flush"} => pc[w] \in {"idle", "load", "connect", "flush"}
  PROVE  BuffersApart'
<1>1. Present' = Present /\ \A k \in Present : pendingPackets[k] # NoBuf
  BY DEF Present, bufferState
<1>2. QED
  BY <1>1 DEF BuffersApart, bufferState

\* ... or a worker drops its buffer.
LEMMA ApartReturn ==
  ASSUME Ready, BuffersApart, NEW w \in Workers, Return(w), UNCHANGED <<pendingPackets, nextBuf>>,
         \/ packets' = packets
         \/ /\ buf[w] \in Bufs /\ pc[w] \notin {"reserve", "insert"}
            /\ \A b \in Bufs \ {buf[w]} : packets'[b] = packets[b]
  PROVE  BuffersApart'
<1>1. Present' = Present /\ (\A k \in Present : pendingPackets[k] # NoBuf) /\ Workers \subseteq Threads
  BY DEF Present, Threads
<1>2. /\ buf'[w] = NoBuf /\ pc'[w] = "idle" /\ nextBuf \in Nat \ {0}
      /\ \A v \in Workers : v # w => buf'[v] = buf[v] /\ key'[v] = key[v] /\ pc'[v] = pc[v]
  BY <1>1 DEF Return, Goto, Ready, TypeOK
<1>3. \A b \in Bufs : packets'[b] = packets[b] \/ (b = buf[w] /\ pc[w] \notin {"reserve", "insert"})
  OBVIOUS
<1>4. \A b \in Bufs : b >= nextBuf => packets'[b] = <<>>
  <2>1. ASSUME NEW b \in Bufs, b >= nextBuf PROVE b # buf[w]
    BY <2>1, <1>2 DEF BuffersApart, Ready, TypeOK, Bufs, NoBuf
  <2>2. QED
    BY <2>1, <1>3 DEF BuffersApart
<1>5. ASSUME NEW v \in Workers, pc'[v] \in {"reserve", "insert"}
      PROVE  /\ packets'[buf'[v]] = <<>>
             /\ \A k \in Keys : pendingPackets'[k] # buf'[v]
             /\ \A u \in Workers : buf'[u] = buf'[v] => u = v
  <2>1. v # w /\ pc[v] \in {"reserve", "insert"} /\ buf'[v] = buf[v] /\ buf[v] \in Bufs
    BY <1>2, <1>5 DEF Ready, Held, BufferLabels
  <2>2. buf[v] # buf[w] /\ buf[v] # NoBuf
    BY <2>1 DEF BuffersApart, Bufs, NoBuf
  <2>3. QED
    BY <1>2, <1>3, <2>1, <2>2 DEF BuffersApart
<1>6. QED
  BY <1>1, <1>2, <1>4, <1>5 DEF BuffersApart, NoBuf

\* Buffers stay apart.
LEMMA ApartStep == ASSUME Ready, BuffersApart, [Next]_vars PROVE BuffersApart'
<1>w. Workers \subseteq Threads /\ Janitor \in Threads /\ \A w \in Workers : w # Janitor
  BY PendingAssumption DEF Threads
<1>p. \A k \in Keys : k \in Present <=> pendingPackets[k] # NoBuf
  BY DEF Present
<1>q. \A k \in Keys : k \in Present' <=> pendingPackets'[k] # NoBuf
  BY DEF Present
<1>s. Present \subseteq Keys /\ Present' \subseteq Keys
  BY DEF Present
<1>t. /\ \A w \in Workers : buf[w] \in Bufs \cup {NoBuf}
      /\ \A k \in Keys : pendingPackets[k] \in Bufs \cup {NoBuf}
      /\ nextBuf \in Nat \ {0} /\ Bufs \subseteq Nat \ {0} /\ NoBuf = 0
      /\ \A w \in Workers : buf[w] \in Nat
      /\ \A k \in Keys : pendingPackets[k] \in Nat
  BY PendingAssumption DEF Ready, TypeOK, Bufs, NoBuf
<1>1. ASSUME NEW w \in Workers, NEW k \in Keys, ReceiveEarly(w, k) \/ ReceiveInitial(w, k)
      PROVE  BuffersApart'
  <2>1. /\ pc[w] = "idle" /\ pc'[w] \in {"load", "connect"} /\ UNCHANGED bufferState
        /\ \A v \in Workers : v # w => pc'[v] = pc[v] /\ key'[v] = key[v]
    BY <1>1, <1>w DEF ReceiveEarly, ReceiveInitial, Goto, Ready, TypeOK, bufferState, pmap, buffers
  <2>2. buf[w] = NoBuf
    BY <2>1 DEF BuffersApart
  <2>3. QED
    BY <2>1, <2>2, ApartMove
<1>2. ASSUME NEW w \in Workers,
             ReserveSlot(w) \/ CancelSlot(w) \/ StoreSession(w) \/ UncountFlushed(w)
      PROVE  BuffersApart'
  <2>1. /\ UNCHANGED bufferState /\ key' = key
        /\ \/ pc[w] = "reserve" /\ Goto(w, "insert")
           \/ Goto(w, "reload") \/ Goto(w, "take")
           \/ pc[w] = "connect" /\ Goto(w, "flush")
    BY <1>2 DEF ReserveSlot, CancelSlot, StoreSession, UncountFlushed, bufferState, pmap, buffers, wlocals
  <2>2. /\ \A v \in Workers : v # w => pc'[v] = pc[v]
        /\ pc'[w] \in {"reserve", "insert"} => pc[w] \in {"reserve", "insert"}
        /\ pc'[w] \in {"idle", "load", "connect", "flush"} => pc[w] \in {"idle", "load", "connect", "flush"}
    BY <2>1, <1>w DEF Goto, Ready, TypeOK
  <2>3. QED
    BY <2>1, <2>2, ApartMove
<1>3. ASSUME UNCHANGED <<bufferState, pc>>, \A v \in Workers : key'[v] = key[v] PROVE BuffersApart'
  BY <1>3 DEF BuffersApart, bufferState, Present
<1>4. ASSUME NEW w \in Workers, LoadBuffer(w) PROVE BuffersApart'
  <2>1. /\ key[w] \in Present /\ buf'[w] = pendingPackets[key[w]] /\ pc'[w] = "append"
        /\ UNCHANGED <<pendingPackets, nextBuf, packets, key>> /\ Present' = Present
        /\ \A v \in Workers : v # w => buf'[v] = buf[v] /\ pc'[v] = pc[v]
    BY <1>4, <1>w DEF LoadBuffer, Goto, Ready, TypeOK, pmap, buffers, Present
  <2>2. QED
    BY <2>1, <1>p, <1>s, <1>t DEF BuffersApart
<1>5. ASSUME NEW w \in Workers, CreateBuffer(w) PROVE BuffersApart'
  <2>1. /\ key[w] \notin Present /\ buf'[w] = nextBuf /\ pc'[w] = "reserve"
        /\ nextBuf' = nextBuf + 1 /\ nextBuf \in Bufs
        /\ UNCHANGED <<pendingPackets, packets, key>> /\ Present' = Present
        /\ \A v \in Workers : v # w => buf'[v] = buf[v] /\ pc'[v] = pc[v]
    BY <1>5, <1>w, <1>t DEF CreateBuffer, Goto, Ready, TypeOK, pmap, Bufs, Present
  <2>2. (\A v \in Workers : buf[v] # nextBuf) /\ (\A k \in Keys : pendingPackets[k] # nextBuf)
    BY <1>t, <1>p DEF BuffersApart
  <2>3. /\ \A k \in Present' : pendingPackets'[k] < nextBuf'
        /\ \A v \in Workers : buf'[v] < nextBuf'
    <3>1. \A k \in Present : pendingPackets[k] \in Nat /\ pendingPackets[k] < nextBuf
      BY <1>t, <1>s DEF BuffersApart
    <3>2. \A v \in Workers : buf[v] \in Nat /\ buf[v] < nextBuf
      BY <1>t DEF BuffersApart
    <3>3. QED
      BY <2>1, <1>t, <3>1, <3>2
  <2>4. /\ packets[nextBuf] = <<>>
        /\ \A b \in Bufs : b >= nextBuf' => packets'[b] = <<>>
    BY <2>1, <1>t DEF BuffersApart
  <2>5. QED
    BY <2>1, <2>2, <2>3, <2>4, <1>s DEF BuffersApart
<1>6. ASSUME NEW w \in Workers, NoBuffer(w) \/ ConnectDropped(w) \/ FlushDone(w) PROVE BuffersApart'
  BY <1>6, ApartReturn DEF NoBuffer, ConnectDropped, FlushDone, pmap, buffers
<1>7. ASSUME NEW w \in Workers, StoreBuffer(w) PROVE BuffersApart'
  <2>1. /\ pc[w] = "insert" /\ key[w] \in Keys /\ buf[w] \in Bufs
        /\ UNCHANGED <<nextBuf, packets, key, buf>>
    BY <1>7 DEF StoreBuffer, Ready, Held, BufferLabels, buffers, wlocals
  <2>2. CASE key[w] \in Present
    <3>1. UNCHANGED bufferState /\ Goto(w, "cancel")
      BY <1>7, <2>1, <2>2 DEF StoreBuffer, bufferState
    <3>2. pc'[w] = "cancel" /\ \A v \in Workers : v # w => pc'[v] = pc[v]
      BY <3>1, <1>w DEF Goto, Ready, TypeOK
    <3>3. QED
      BY <2>1, <3>1, <3>2, ApartMove
  <2>3. CASE key[w] \notin Present
    <3>1. /\ pendingPackets'[key[w]] = buf[w] /\ pc'[w] = "append"
          /\ \A k \in Keys : k # key[w] => pendingPackets'[k] = pendingPackets[k]
          /\ \A v \in Workers : v # w => pc'[v] = pc[v]
      BY <1>7, <1>w, <2>1, <2>3 DEF StoreBuffer, Goto, Ready, TypeOK
    <3>2. \A k \in Present' : k = key[w] \/ k \in Present
      BY <3>1, <1>p, <1>q, <1>s
    <3>3. QED
      BY <2>1, <3>1, <3>2, <1>p, <1>s, <1>t DEF BuffersApart
  <2>4. QED
    BY <2>2, <2>3
<1>8. ASSUME NEW w \in Workers, AppendPacket(w) PROVE BuffersApart'
  <2>1. buf[w] \in Bufs /\ pc[w] = "append"
    BY <1>8 DEF AppendPacket, Ready, Held, BufferLabels
  <2>2. packets' = packets \/ \A b \in Bufs \ {buf[w]} : packets'[b] = packets[b]
    BY <1>8 DEF AppendPacket, Ready, TypeOK
  <2>3. QED
    BY <1>8, <2>1, <2>2, ApartReturn DEF AppendPacket, pmap
<1>9. ASSUME NEW w \in Workers, FlushPending(w) PROVE BuffersApart'
  <2>1. CASE key[w] \in Present
    <3>1. /\ buf'[w] = pendingPackets[key[w]] /\ pendingPackets'[key[w]] = NoBuf
          /\ pc'[w] = "uncountFlush" /\ UNCHANGED <<nextBuf, packets, key>> /\ key[w] \in Keys
          /\ \A k \in Keys : k # key[w] => pendingPackets'[k] = pendingPackets[k]
          /\ \A v \in Workers : v # w => buf'[v] = buf[v] /\ pc'[v] = pc[v]
      BY <1>9, <1>w, <1>s, <2>1 DEF FlushPending, Goto, Ready, TypeOK, buffers
    <3>2. \A k \in Present' : k # key[w] /\ k \in Present
      BY <3>1, <1>p, <1>q, <1>s
    <3>3. \A v \in Workers : pc[v] \in {"reserve", "insert"} => buf[v] \in Bufs
      BY DEF Ready, Held, BufferLabels
    <3>4. QED
      BY <2>1, <3>1, <3>2, <3>3, <1>p, <1>s, <1>t DEF BuffersApart
  <2>2. CASE key[w] \notin Present
    BY <1>9, <2>2, ApartReturn DEF FlushPending, buffers
  <2>3. QED
    BY <2>1, <2>2
<1>10. ASSUME NEW w \in Workers, TakePackets(w) PROVE BuffersApart'
  <2>1. /\ pc[w] = "take" /\ buf[w] \in Bufs /\ pc'[w] = "forward" /\ UNCHANGED <<pendingPackets, nextBuf, key, buf>>
        /\ Present' = Present
        /\ \A b \in Bufs : packets'[b] = packets[b] \/ packets'[b] = <<>>
        /\ \A v \in Workers : v # w => pc'[v] = pc[v]
    BY <1>10, <1>w DEF TakePackets, Goto, Ready, TypeOK, Held, BufferLabels, pmap, Present
  <2>2. \A v \in Workers : pc[v] \in {"reserve", "insert"} => buf[v] \in Bufs
    BY DEF Ready, Held, BufferLabels
  <2>3. QED
    BY <2>1, <2>2 DEF BuffersApart
<1>11. ASSUME NEW w \in Workers, ForwardNext(w) PROVE BuffersApart'
  BY <1>3, <1>11 DEF ForwardNext, bufferState, pmap
<1>12. ASSUME NEW w \in Workers, NEW k \in Keys, ReceiveLate(w, k) PROVE BuffersApart'
  BY <1>3, <1>12 DEF ReceiveLate, bufferState, pmap, wlocals
<1>13. ASSUME NEW k \in Keys, SessionEnds(k) PROVE BuffersApart'
  BY <1>3, <1>13 DEF SessionEnds, bufferState, pmap, wlocals, buffers
<1>14. ASSUME NEW b \in Bufs, Expire(b) PROVE BuffersApart'
  BY <1>3, <1>14 DEF Expire, bufferState, pmap, wlocals
<1>15. ASSUME JanitorStep PROVE BuffersApart'
  <2>1. /\ UNCHANGED <<nextBuf, packets, buf>>
        /\ \A v \in Workers : pc'[v] = pc[v] /\ key'[v] = key[v]
    BY <1>15, <1>w DEF JanitorStep, Tick, ScanDone, ScanNext, DeleteBuffer, UncountBuffer, Goto,
                       Ready, TypeOK, pmap, buffers, wlocals
  <2>2. \A k \in Keys : pendingPackets'[k] = pendingPackets[k] \/ pendingPackets'[k] = NoBuf
    BY <1>15 DEF JanitorStep, Tick, ScanDone, ScanNext, DeleteBuffer, UncountBuffer, Ready, TypeOK, pmap
  <2>3. \A k \in Present' : k \in Present /\ pendingPackets'[k] = pendingPackets[k]
    BY <2>2, <1>p, <1>q, <1>s
  <2>4. \A v \in Workers : pc[v] \in {"reserve", "insert"} => buf[v] # NoBuf
    BY DEF Ready, Held, BufferLabels, Bufs, NoBuf
  <2>5. QED
    BY <2>1, <2>2, <2>3, <2>4 DEF BuffersApart
<1>16. CASE UNCHANGED vars
  BY <1>3, <1>16 DEF vars, bufferState, pmap, buffers, wlocals
<1>17. QED
  BY <1>1, <1>2, <1>4, <1>5, <1>6, <1>7, <1>8, <1>9, <1>10, <1>11, <1>12, <1>13, <1>14,
     <1>15, <1>16 DEF Next, WorkerStep

-----------------------------------------------------------------------------
(* A DCID with one client address.                                         *)

Increasing(s) == \A i, j \in 1..Len(s) : i < j => s[i] < s[j]
\* Everything in s comes before everything in t.
Before(s, t) == \A i \in 1..Len(s), j \in 1..Len(t) : s[i] < t[j]
Below(s, n) == \A i \in 1..Len(s) : s[i] < n

\* Appending a number above all others.
LEMMA GrowSeq ==
  ASSUME NEW s \in Seq(Pkts), NEW p \in Pkts, Below(s, p)
  PROVE  /\ Append(s, p) \in Seq(Pkts)
         /\ Increasing(s) => Increasing(Append(s, p))
         /\ \A n \in Nat : p < n => Below(Append(s, p), n)
         /\ \A r \in Seq(Pkts) : Before(r, s) /\ Below(r, p) => Before(r, Append(s, p))
<1>1. Pkts \subseteq Nat
  BY PendingAssumption DEF Pkts
<1>2. /\ Append(s, p) \in Seq(Pkts) /\ Len(Append(s, p)) = Len(s) + 1 /\ Len(s) \in Nat
      /\ \A i \in 1..Len(s) : Append(s, p)[i] = s[i]
      /\ Append(s, p)[Len(s) + 1] = p
  BY AppendProperties, LenProperties
<1>3. \A i \in 1..Len(s) : s[i] \in Nat
  BY <1>1, ElementOfSeq
<1>4. \A i \in 1..(Len(s) + 1) : i \in 1..Len(s) \/ i = Len(s) + 1
  BY <1>2
<1>5. Increasing(s) => Increasing(Append(s, p))
  <2> SUFFICES ASSUME Increasing(s), NEW i \in 1..(Len(s) + 1), NEW j \in 1..(Len(s) + 1), i < j
               PROVE  Append(s, p)[i] < Append(s, p)[j]
    BY <1>2 DEF Increasing
  <2>1. i \in 1..Len(s) /\ Append(s, p)[i] = s[i]
    BY <1>2
  <2>2. CASE j \in 1..Len(s)
    BY <1>2, <2>1, <2>2 DEF Increasing
  <2>3. CASE j = Len(s) + 1
    BY <1>2, <2>1, <2>3 DEF Below
  <2>4. QED
    BY <1>4, <2>2, <2>3
<1>6. ASSUME NEW n \in Nat, p < n PROVE Below(Append(s, p), n)
  <2> SUFFICES ASSUME NEW i \in 1..(Len(s) + 1) PROVE Append(s, p)[i] < n
    BY <1>2 DEF Below
  <2>1. CASE i \in 1..Len(s)
    BY <1>1, <1>2, <1>3, <1>6, <2>1 DEF Below
  <2>2. CASE i = Len(s) + 1
    BY <1>2, <1>6, <2>2
  <2>3. QED
    BY <1>4, <2>1, <2>2
<1>7. ASSUME NEW r \in Seq(Pkts), Before(r, s), Below(r, p) PROVE Before(r, Append(s, p))
  <2> SUFFICES ASSUME NEW i \in 1..Len(r), NEW j \in 1..(Len(s) + 1) PROVE r[i] < Append(s, p)[j]
    BY <1>2 DEF Before
  <2>1. CASE j \in 1..Len(s)
    BY <1>2, <1>7, <2>1 DEF Before
  <2>2. CASE j = Len(s) + 1
    BY <1>2, <1>7, <2>2 DEF Below
  <2>3. QED
    BY <1>4, <2>1, <2>2
<1>8. QED
  BY <1>2, <1>5, <1>6, <1>7

\* What is below n is below any greater number.
LEMMA RaiseBound ==
  ASSUME NEW s \in Seq(Pkts), NEW n \in Nat, NEW m \in Nat, n <= m, Below(s, n)
  PROVE  Below(s, m)
<1>1. Pkts \subseteq Nat
  BY PendingAssumption DEF Pkts
<1>2. \A i \in 1..Len(s) : s[i] \in Nat
  BY <1>1, ElementOfSeq
<1>3. QED
  BY <1>2 DEF Below

\* Moving the head of t to the end of s.
LEMMA PassHead ==
  ASSUME NEW s \in Seq(Pkts), NEW t \in Seq(Pkts), t # <<>>, NEW n \in Nat,
         Increasing(s), Increasing(t), Before(s, t), Below(t, n)
  PROVE  /\ Increasing(Append(s, Head(t))) /\ Below(Append(s, Head(t)), n)
         /\ Increasing(Tail(t)) /\ Below(Tail(t), n)
         /\ Before(Append(s, Head(t)), Tail(t))
<1>1. /\ Head(t) \in Pkts /\ Tail(t) \in Seq(Pkts) /\ Len(Tail(t)) = Len(t) - 1
      /\ \A i \in 1..Len(Tail(t)) : Tail(t)[i] = t[i + 1]
  BY HeadTailProperties
<1>2. Len(t) \in Nat /\ Len(t) > 0 /\ Head(t) = t[1] /\ Len(s) \in Nat
  BY LenProperties, EmptySeq
<1>3. \A i \in 1..Len(Tail(t)) : i + 1 \in 1..Len(t) /\ 1 < i + 1
  BY <1>1, <1>2
<1>4. 1 \in 1..Len(t)
  BY <1>2
<1>5. Below(s, Head(t)) /\ Head(t) < n
  BY <1>2, <1>4 DEF Before, Below
<1>6. Increasing(Append(s, Head(t))) /\ Below(Append(s, Head(t)), n)
  BY <1>1, <1>5, GrowSeq
<1>7. Increasing(Tail(t))
  <2> SUFFICES ASSUME NEW i \in 1..Len(Tail(t)), NEW j \in 1..Len(Tail(t)), i < j
               PROVE  Tail(t)[i] < Tail(t)[j]
    BY DEF Increasing
  <2>1. i + 1 < j + 1 /\ i + 1 \in 1..Len(t) /\ j + 1 \in 1..Len(t)
    BY <1>3
  <2>2. QED
    BY <1>1, <2>1 DEF Increasing
<1>8. Below(Tail(t), n)
  BY <1>1, <1>3 DEF Below
<1>9. Before(Append(s, Head(t)), Tail(t))
  <2> SUFFICES ASSUME NEW i \in 1..Len(Append(s, Head(t))), NEW j \in 1..Len(Tail(t))
               PROVE  Append(s, Head(t))[i] < t[j + 1]
    BY <1>1 DEF Before
  <2>1. /\ Len(Append(s, Head(t))) = Len(s) + 1
        /\ \A x \in 1..Len(s) : Append(s, Head(t))[x] = s[x]
        /\ Append(s, Head(t))[Len(s) + 1] = Head(t)
    BY <1>1, AppendProperties
  <2>2. i \in 1..Len(s) \/ i = Len(s) + 1
    BY <1>2, <2>1
  <2>3. CASE i \in 1..Len(s)
    BY <1>3, <2>1, <2>3 DEF Before
  <2>4. CASE i = Len(s) + 1
    BY <1>2, <1>3, <1>4, <2>1, <2>4 DEF Increasing
  <2>5. QED
    BY <2>2, <2>3, <2>4
<1>10. QED
  BY <1>6, <1>7, <1>8, <1>9

\* Goroutines work on a DCID only if they serve it.
Serving == \A w \in Workers : key[w] \in Keys => w \in ServedBy[key[w]]

\* Where the session of such a DCID is, seen from its buffer: once there is a
\* session, only the worker that is about to flush may find one in the map.
SessionFirst ==
  \A k \in SingleAddr :
    /\ k \in known /\ k \in Present => \E w \in Workers : key[w] = k /\ pc[w] = "flush"
    /\ \A w \in Workers : key[w] = k =>
         /\ pc[w] \in EarlyLabels => k \notin known
         /\ pc[w] \in {"uncountFlush", "take", "forward"} => k \notin Present

\* Packet numbers grow from what OnPacket got, through what is about to be
\* passed on and what the buffer holds, to the packet at hand.
OrderedFor(k) ==
  /\ Increasing(out[k]) /\ Below(out[k], nextPkt)
  /\ k \in Present => /\ Increasing(packets[pendingPackets[k]])
                      /\ Before(out[k], packets[pendingPackets[k]])
                      /\ Below(packets[pendingPackets[k]], nextPkt)
  /\ \A w \in Workers : key[w] = k =>
       /\ pc[w] \in {"uncountFlush", "take"} => /\ Increasing(packets[buf[w]])
                                               /\ Before(out[k], packets[buf[w]])
                                               /\ Below(packets[buf[w]], nextPkt)
       /\ pc[w] = "forward" => /\ Increasing(batch[w])
                               /\ Before(out[k], batch[w])
                               /\ Below(batch[w], nextPkt)
       /\ pc[w] \in EarlyLabels =>
            /\ pkt[w] < nextPkt
            /\ Below(out[k], pkt[w])
            /\ k \in Present => Below(packets[pendingPackets[k]], pkt[w])
Ordered == \A k \in SingleAddr : OrderedFor(k)

\* Two workers that work on such a DCID are one.
LEMMA OneServer ==
  ASSUME Serving, NEW k \in SingleAddr
  PROVE  /\ k \in Keys
         /\ \A v, w \in Workers : v \in ServedBy[k] /\ w \in ServedBy[k] => v = w
         /\ \A v, w \in Workers : key[v] = k /\ key[w] = k => v = w
         /\ \A v, w \in Workers : key[v] = k /\ w \in ServedBy[k] => v = w
<1>1. k \in Keys /\ Cardinality(ServedBy[k]) = 1 /\ ServedBy[k] \subseteq Workers
  BY PendingAssumption DEF SingleAddr
<1>2. IsFiniteSet(ServedBy[k])
  <2>1. ServedBy[k] \subseteq Threads
    BY <1>1 DEF Threads
  <2>2. QED
    BY <2>1, PendingAssumption, FS_Subset
<1>3. \E x : ServedBy[k] = {x}
  BY <1>1, <1>2, FS_Singleton
<1>4. QED
  BY <1>1, <1>3 DEF Serving

\* A worker takes up only the DCIDs it serves.
LEMMA ServingStep == ASSUME Ready, Serving, [Next]_vars PROVE Serving'
<1>w. Workers \subseteq Threads /\ NoKey \notin Keys /\ \A w \in Workers : w # Janitor
  BY PendingAssumption DEF Threads
<1>1. ASSUME NEW w \in Workers, NEW k \in Keys, ReceiveEarly(w, k) \/ ReceiveInitial(w, k)
      PROVE  Serving'
  BY <1>1, <1>w DEF ReceiveEarly, ReceiveInitial, Serving, Ready, TypeOK
<1>2. ASSUME NEW w \in Workers, key' = key \/ Return(w) PROVE Serving'
  BY <1>2, <1>w DEF Return, Serving, Ready, TypeOK
<1>3. ASSUME NEW w \in Workers, WorkerStep(w) PROVE Serving'
  BY <1>2, <1>3 DEF WorkerStep, LoadBuffer, CreateBuffer, NoBuffer, ReserveSlot, StoreBuffer, CancelSlot,
     AppendPacket, ConnectDropped, StoreSession, FlushPending, UncountFlushed, TakePackets, ForwardNext, FlushDone
<1>4. ASSUME \A w \in Workers : key'[w] = key[w] PROVE Serving'
  BY <1>4 DEF Serving
<1>5. CASE JanitorStep
  <2>1. \A w \in Workers : key'[w] = key[w]
    BY <1>5, <1>w DEF JanitorStep, Tick, ScanDone, ScanNext, DeleteBuffer, UncountBuffer, Ready, TypeOK
  <2>2. QED
    BY <2>1, <1>4
<1>6. CASE key' = key
  BY <1>6, <1>4
<1>7. QED
  BY <1>1, <1>3, <1>5, <1>6 DEF Next, ReceiveLate, SessionEnds, Expire, vars

\* A worker's label after a step of its own.
Moved(w, l) == \A v \in Workers : pc'[v] = IF v = w THEN l ELSE pc[v]

LEMMA MovedBy ==
  ASSUME Ready, NEW w \in Workers, NEW l, Goto(w, l) PROVE Moved(w, l)
<1>1. Workers \subseteq Threads
  BY DEF Threads
<1>2. QED
  BY <1>1 DEF Moved, Goto, Ready, TypeOK

\* Once there is a session, no buffer is stored behind the flush.
LEMMA SessionFirstStep ==
  ASSUME Ready, Serving, SessionFirst, [Next]_vars
  PROVE  SessionFirst'
<1>w. Workers \subseteq Threads /\ Janitor \in Threads /\ NoKey \notin Keys /\ \A w \in Workers : w # Janitor
  BY PendingAssumption DEF Threads
<1>p. /\ \A k \in Keys : k \in Present <=> pendingPackets[k] # NoBuf
      /\ \A k \in Keys : k \in Present' <=> pendingPackets'[k] # NoBuf
  BY DEF Present
<1>a. SingleAddr \subseteq Keys /\ SingleAddr' = SingleAddr
  BY DEF SingleAddr
<1>f. ASSUME known' \subseteq known, \A k \in SingleAddr : k \in Present' => k \in Present,
             \A w \in Workers :
               /\ pc'[w] \in EarlyLabels => pc[w] \in EarlyLabels /\ key'[w] = key[w]
               /\ pc'[w] \in {"uncountFlush", "take", "forward"} =>
                    pc[w] \in {"uncountFlush", "take", "forward"} /\ key'[w] = key[w]
               /\ pc[w] = "flush" => pc'[w] = "flush" /\ key'[w] = key[w]
      PROVE  SessionFirst'
  BY <1>f, <1>a DEF SessionFirst
<1>1. ASSUME NEW w \in Workers, NEW k \in Keys, ReceiveEarly(w, k) PROVE SessionFirst'
  <2>1. /\ pc[w] = "idle" /\ k \notin known /\ known' = known /\ pendingPackets' = pendingPackets
        /\ Moved(w, "load") /\ key'[w] = k /\ \A v \in Workers : v # w => key'[v] = key[v]
    BY <1>1, <1>w, MovedBy DEF ReceiveEarly, Ready, TypeOK, pmap
  <2>2. QED
    BY <2>1, <1>a, <1>p DEF SessionFirst, Moved
<1>2. ASSUME NEW w \in Workers, NEW k \in Keys, ReceiveInitial(w, k) PROVE SessionFirst'
  <2>1. /\ pc[w] = "idle" /\ known' = known /\ pendingPackets' = pendingPackets
        /\ Moved(w, "connect") /\ key'[w] = k /\ \A v \in Workers : v # w => key'[v] = key[v]
    BY <1>2, <1>w, MovedBy DEF ReceiveInitial, Ready, TypeOK, pmap
  <2>2. QED
    BY <2>1, <1>f, <1>p, <1>a DEF Moved, EarlyLabels
<1>3. ASSUME NEW w \in Workers, LoadBuffer(w) \/ CreateBuffer(w) \/ ReserveSlot(w) \/ CancelSlot(w)
      PROVE  SessionFirst'
  <2>1. /\ pc[w] \in EarlyLabels /\ known' = known /\ pendingPackets' = pendingPackets /\ key' = key
        /\ \E l \in EarlyLabels : Goto(w, l)
    BY <1>3 DEF LoadBuffer, CreateBuffer, ReserveSlot, CancelSlot, EarlyLabels, pmap, world
  <2>2. \E l \in EarlyLabels : Moved(w, l)
    BY <2>1, MovedBy
  <2>3. QED
    BY <2>1, <2>2, <1>f, <1>p, <1>a DEF Moved, EarlyLabels
<1>4. ASSUME NEW w \in Workers, Return(w), known' = known, pendingPackets' = pendingPackets,
             pc[w] = "flush" => key[w] \notin Present
      PROVE  SessionFirst'
  <2>1. Moved(w, "idle") /\ \A v \in Workers : v # w => key'[v] = key[v]
    BY <1>4, <1>w, MovedBy DEF Return, Ready, TypeOK
  <2>2. QED
    BY <1>4, <2>1, <1>a, <1>p DEF SessionFirst, Moved, EarlyLabels
<1>5. ASSUME NEW w \in Workers, NoBuffer(w) \/ AppendPacket(w) \/ ConnectDropped(w) \/ FlushDone(w)
      PROVE  SessionFirst'
  BY <1>4, <1>5 DEF NoBuffer, AppendPacket, ConnectDropped, FlushDone, pmap, world
<1>6. ASSUME NEW w \in Workers, StoreBuffer(w) PROVE SessionFirst'
  <2>1. /\ pc[w] = "insert" /\ key[w] \in Keys /\ known' = known /\ key' = key
        /\ \A k \in Keys : k # key[w] => pendingPackets'[k] = pendingPackets[k]
        /\ \E l \in {"append", "cancel"} : Goto(w, l)
    BY <1>6 DEF StoreBuffer, Ready, Held, TypeOK, world
  <2>2. \E l \in {"append", "cancel"} : Moved(w, l)
    BY <2>1, MovedBy
  <2>3. ASSUME NEW k \in SingleAddr
        PROVE  /\ k \in known /\ k \in Present' => \E v \in Workers : key[v] = k /\ pc'[v] = "flush"
               /\ \A v \in Workers : key[v] = k =>
                    /\ pc'[v] \in EarlyLabels => k \notin known
                    /\ pc'[v] \in {"uncountFlush", "take", "forward"} => k \notin Present'
    <3>1. CASE k = key[w]
      <4>1. k \notin known
        BY <2>1, <3>1 DEF SessionFirst, EarlyLabels
      <4>2. \A v \in Workers : key[v] = k => v = w
        BY <3>1, OneServer
      <4>3. QED
        BY <4>1, <4>2, <2>2 DEF Moved
    <3>2. CASE k # key[w]
      BY <2>1, <2>2, <3>2, <1>p, <1>a DEF SessionFirst, Moved, EarlyLabels
    <3>3. QED
      BY <3>1, <3>2
  <2>4. QED
    BY <2>1, <2>3, <1>a DEF SessionFirst
<1>7. ASSUME NEW w \in Workers, StoreSession(w) PROVE SessionFirst'
  <2>1. /\ pc[w] = "connect" /\ known' = known \cup {key[w]} /\ pendingPackets' = pendingPackets
        /\ key' = key /\ Moved(w, "flush")
    BY <1>7, MovedBy DEF StoreSession, pmap
  <2>2. \A k \in SingleAddr, v \in Workers : key[v] = k /\ key[w] = k => v = w
    BY OneServer
  <2>3. QED
    BY <2>1, <2>2, <1>a, <1>p DEF SessionFirst, Moved, EarlyLabels
<1>8. ASSUME NEW w \in Workers, FlushPending(w) PROVE SessionFirst'
  <2>1. CASE key[w] \in Present
    <3>1. /\ pc[w] = "flush" /\ known' = known /\ key' = key /\ Moved(w, "uncountFlush") /\ key[w] \in Keys
          /\ pendingPackets'[key[w]] = NoBuf
          /\ \A k \in Keys : k # key[w] => pendingPackets'[k] = pendingPackets[k]
      BY <1>8, <2>1, MovedBy DEF FlushPending, Ready, TypeOK, world, Present
    <3>2. QED
      BY <3>1, <1>a, <1>p DEF SessionFirst, Moved, EarlyLabels
  <2>2. CASE key[w] \notin Present
    BY <1>4, <1>8, <2>2 DEF FlushPending, world
  <2>3. QED
    BY <2>1, <2>2
<1>9. ASSUME NEW w \in Workers, UncountFlushed(w) \/ TakePackets(w) PROVE SessionFirst'
  <2>1. /\ pc[w] \in {"uncountFlush", "take"} /\ known' = known /\ pendingPackets' = pendingPackets /\ key' = key
        /\ \E l \in {"take", "forward"} : Goto(w, l)
    BY <1>9 DEF UncountFlushed, TakePackets, pmap, world
  <2>2. \E l \in {"take", "forward"} : Moved(w, l)
    BY <2>1, MovedBy
  <2>3. QED
    BY <2>1, <2>2, <1>f, <1>p, <1>a DEF Moved, EarlyLabels
<1>10. ASSUME UNCHANGED <<pendingPackets, pc, key>>, known' \subseteq known PROVE SessionFirst'
  BY <1>10, <1>f DEF Present
<1>11. ASSUME NEW w \in Workers, ForwardNext(w) PROVE SessionFirst'
  BY <1>10, <1>11 DEF ForwardNext, pmap, world
<1>12. ASSUME NEW w \in Workers, NEW k \in Keys, ReceiveLate(w, k) PROVE SessionFirst'
  BY <1>10, <1>12 DEF ReceiveLate, pmap
<1>13. ASSUME NEW k \in Keys, SessionEnds(k) PROVE SessionFirst'
  BY <1>10, <1>13 DEF SessionEnds, pmap
<1>14. ASSUME NEW b \in Bufs, Expire(b) PROVE SessionFirst'
  BY <1>10, <1>14 DEF Expire, pmap, world
<1>15. CASE JanitorStep
  <2>1. known' = known /\ \A w \in Workers : pc'[w] = pc[w] /\ key'[w] = key[w]
    BY <1>15, <1>w DEF JanitorStep, Tick, ScanDone, ScanNext, DeleteBuffer, UncountBuffer, Goto, Ready, TypeOK, world
  <2>2. \A k \in Keys : pendingPackets'[k] = pendingPackets[k] \/ pendingPackets'[k] = NoBuf
    BY <1>15 DEF JanitorStep, Tick, ScanDone, ScanNext, DeleteBuffer, UncountBuffer, Ready, TypeOK, pmap
  <2>3. QED
    BY <2>1, <2>2, <1>f, <1>p, <1>a
<1>16. CASE UNCHANGED vars
  BY <1>10, <1>16 DEF vars, pmap, world
<1>17. QED
  BY <1>1, <1>2, <1>3, <1>5, <1>6, <1>7, <1>8, <1>9, <1>11, <1>12, <1>13, <1>14,
     <1>15, <1>16 DEF Next, WorkerStep

\* A step that leaves the packets of k where they are.
LEMMA OrderedFrame ==
  ASSUME Ready, NEW k \in Keys, OrderedFor(k), Ready', out'[k] = out[k], nextPkt' >= nextPkt,
         k \in Present' => /\ k \in Present
                           /\ packets'[pendingPackets'[k]] = packets[pendingPackets[k]],
         \A w \in Workers : key'[w] = k =>
           /\ pc'[w] \in {"uncountFlush", "take"} =>
                key[w] = k /\ pc[w] \in {"uncountFlush", "take"} /\ packets'[buf'[w]] = packets[buf[w]]
           /\ pc'[w] = "forward" => key[w] = k /\ pc[w] = "forward" /\ batch'[w] = batch[w]
           /\ pc'[w] \in EarlyLabels => key[w] = k /\ pc[w] \in EarlyLabels /\ pkt'[w] = pkt[w]
  PROVE  OrderedFor(k)'
<1>1. nextPkt \in Nat /\ nextPkt' \in Nat /\ nextPkt <= nextPkt' /\ Pkts \subseteq Nat
  BY PendingAssumption DEF Ready, TypeOK, Pkts
<1>2. \A s \in Seq(Pkts) : Below(s, nextPkt) => Below(s, nextPkt')
  BY <1>1, RaiseBound
<1>3. Below(out'[k], nextPkt') /\ Increasing(out'[k])
  BY <1>2 DEF OrderedFor, Ready, TypeOK
<1>4. ASSUME k \in Present'
      PROVE  /\ Increasing(packets'[pendingPackets'[k]])
             /\ Before(out'[k], packets'[pendingPackets'[k]])
             /\ Below(packets'[pendingPackets'[k]], nextPkt')
  <2>1. packets[pendingPackets[k]] \in Seq(Pkts)
    BY <1>4 DEF Present, Ready, TypeOK, NoBuf
  <2>2. QED
    BY <1>2, <1>4, <2>1 DEF OrderedFor
<1>5. ASSUME NEW w \in Workers, key'[w] = k, pc'[w] \in {"uncountFlush", "take"}
      PROVE  /\ Increasing(packets'[buf'[w]])
             /\ Before(out'[k], packets'[buf'[w]])
             /\ Below(packets'[buf'[w]], nextPkt')
  <2>1. packets[buf[w]] \in Seq(Pkts)
    BY <1>5 DEF Ready, TypeOK, Held, BufferLabels
  <2>2. QED
    BY <1>2, <1>5, <2>1 DEF OrderedFor
<1>6. ASSUME NEW w \in Workers, key'[w] = k, pc'[w] = "forward"
      PROVE  /\ Increasing(batch'[w]) /\ Before(out'[k], batch'[w]) /\ Below(batch'[w], nextPkt')
  <2>1. batch[w] \in Seq(Pkts)
    BY DEF Ready, TypeOK
  <2>2. QED
    BY <1>2, <1>6, <2>1 DEF OrderedFor
<1>7. ASSUME NEW w \in Workers, key'[w] = k, pc'[w] \in EarlyLabels
      PROVE  /\ pkt'[w] < nextPkt' /\ Below(out'[k], pkt'[w])
             /\ k \in Present' => Below(packets'[pendingPackets'[k]], pkt'[w])
  <2>1. pkt[w] \in Nat
    BY <1>1, <1>7 DEF Ready, Held
  <2>2. pkt[w] < nextPkt /\ Below(out[k], pkt[w]) /\ (k \in Present => Below(packets[pendingPackets[k]], pkt[w]))
    BY <1>7 DEF OrderedFor
  <2>3. QED
    BY <1>1, <1>7, <2>1, <2>2
<1>8. QED
  BY <1>3, <1>4, <1>5, <1>6, <1>7 DEF OrderedFor

\* The packets of k move only when a worker on k moves them.
LEMMA OrderedApart ==
  ASSUME Ready, BuffersApart, NEW k \in Keys, OrderedFor(k), Ready', NEW w \in Workers,
         key[w] # k, key'[w] # k, UNCHANGED nextPkt,
         out'[k] = out[k], pendingPackets'[k] = pendingPackets[k],
         \A b \in Bufs : b # buf[w] => packets'[b] = packets[b],
         \A v \in Workers : v # w => /\ pc'[v] = pc[v] /\ key'[v] = key[v] /\ buf'[v] = buf[v]
                                     /\ pkt'[v] = pkt[v] /\ batch'[v] = batch[v]
  PROVE  OrderedFor(k)'
<1>1. k \in Present' <=> k \in Present
  BY DEF Present
<1>2. k \in Present => packets'[pendingPackets'[k]] = packets[pendingPackets[k]]
  <2> SUFFICES ASSUME k \in Present PROVE packets'[pendingPackets[k]] = packets[pendingPackets[k]]
    OBVIOUS
  <2>1. pendingPackets[k] \in Bufs /\ buf[w] # pendingPackets[k]
    BY DEF Present, Ready, TypeOK, BuffersApart, NoBuf
  <2>2. QED
    BY <2>1
<1>3. ASSUME NEW v \in Workers, key'[v] = k, pc'[v] \in {"uncountFlush", "take"}
      PROVE  packets'[buf'[v]] = packets[buf[v]]
  <2>1. v # w /\ buf'[v] = buf[v] /\ key[v] = k /\ buf[v] \in Bufs /\ buf[v] # NoBuf
    BY <1>3 DEF Ready, Held, BufferLabels, Bufs, NoBuf
  <2>2. buf[v] # buf[w]
    BY <2>1 DEF BuffersApart
  <2>3. QED
    BY <2>1, <2>2
<1>4. nextPkt' >= nextPkt
  BY DEF Ready, TypeOK
<1>5. QED
  BY <1>1, <1>2, <1>3, <1>4, OrderedFrame

\* Packet numbers stay in order.
LEMMA OrderedStep ==
  ASSUME Ready, BuffersApart, Serving, SessionFirst, Ordered, [Next]_vars, Ready'
  PROVE  Ordered'
<1> SUFFICES ASSUME NEW k \in SingleAddr PROVE OrderedFor(k)'
  BY DEF Ordered, SingleAddr
<1>w. Workers \subseteq Threads /\ Janitor \in Threads /\ NoKey \notin Keys /\ \A w \in Workers : w # Janitor
  BY PendingAssumption DEF Threads
<1>k. k \in Keys /\ OrderedFor(k) /\ k # NoKey
  BY <1>w DEF SingleAddr, Ordered
<1>n. nextPkt \in Nat /\ Pkts \subseteq Nat
  BY PendingAssumption DEF Ready, TypeOK, Pkts
<1>o. out[k] \in Seq(Pkts) /\ (k \in Present => packets[pendingPackets[k]] \in Seq(Pkts))
  BY <1>k DEF Ready, TypeOK, Present, NoBuf
<1>f. ASSUME UNCHANGED <<packets, buf, batch, pkt, nextPkt>>, out'[k] = out[k],
             k \in Present' => k \in Present /\ pendingPackets'[k] = pendingPackets[k],
             \A w \in Workers :
               /\ pc'[w] \in {"uncountFlush", "take"} => key'[w] = key[w] /\ pc[w] \in {"uncountFlush", "take"}
               /\ pc'[w] = "forward" => key'[w] = key[w] /\ pc[w] = "forward"
               /\ pc'[w] \in EarlyLabels => key'[w] = key[w] /\ pc[w] \in EarlyLabels
      PROVE  OrderedFor(k)'
  BY <1>f, <1>k, <1>n, OrderedFrame
<1>g. ASSUME NEW w \in Workers, UNCHANGED <<packets, batch, pkt, out, pendingPackets, nextPkt, key>>,
             \A v \in Workers : v # w => buf'[v] = buf[v],
             pc[w] \in EarlyLabels, \E l \in EarlyLabels : Moved(w, l)
      PROVE  OrderedFor(k)'
  <2>1. /\ k \in Present' => k \in Present
        /\ nextPkt' >= nextPkt
    BY <1>g, <1>n DEF Present
  <2>2. pc'[w] \notin {"uncountFlush", "take", "forward"} /\ \A v \in Workers : v # w => pc'[v] = pc[v]
    BY <1>g DEF Moved, EarlyLabels
  <2>3. QED
    BY <1>g, <1>k, <2>1, <2>2, OrderedFrame
<1>1. ASSUME NEW w \in Workers, NEW j \in Keys, ReceiveEarly(w, j) PROVE OrderedFor(k)'
  <2>1. /\ pc[w] = "idle" /\ nextPkt' = nextPkt + 1 /\ UNCHANGED <<packets, buf, batch, out, pendingPackets>>
        /\ Moved(w, "load") /\ key'[w] = j /\ pkt'[w] = nextPkt
        /\ \A v \in Workers : v # w => key'[v] = key[v] /\ pkt'[v] = pkt[v]
        /\ Present' = Present
    BY <1>1, <1>w, MovedBy DEF ReceiveEarly, Ready, TypeOK, pmap, buffers, Present
  <2>2. nextPkt' >= nextPkt /\ nextPkt <= nextPkt'
    BY <2>1, <1>n
  <2>3. \A s \in Seq(Pkts) : Below(s, nextPkt) => Below(s, nextPkt')
    BY <2>1, <2>2, <1>n, RaiseBound
  <2>4. CASE k = j
    <3>1. \A v \in Workers : key[v] # k
      <4>1. w \in ServedBy[k] /\ key[w] = NoKey
        BY <1>1, <2>1, <2>4 DEF ReceiveEarly, Ready, Held
      <4>2. QED
        BY <4>1, <1>k, OneServer
    <3>2. \A v \in Workers : key'[v] = k => v = w /\ pc'[v] = "load" /\ pkt'[v] = nextPkt
      BY <2>1, <3>1 DEF Moved
    <3>3. Below(out[k], nextPkt) /\ (k \in Present => Below(packets[pendingPackets[k]], nextPkt))
      BY <1>k DEF OrderedFor
    <3>4. nextPkt < nextPkt'
      BY <2>1, <1>n
    <3>5. QED
      BY <2>1, <2>3, <3>2, <3>3, <3>4, <1>o, <1>k DEF OrderedFor, EarlyLabels
  <2>5. CASE k # j
    BY <2>1, <2>2, <2>5, <1>k, OrderedFrame DEF Moved, EarlyLabels
  <2>6. QED
    BY <2>4, <2>5
<1>2. ASSUME NEW w \in Workers, NEW j \in Keys, ReceiveInitial(w, j) PROVE OrderedFor(k)'
  <2>1. /\ UNCHANGED <<packets, buf, batch, pkt, out, nextPkt, pendingPackets>> /\ Present' = Present
        /\ Moved(w, "connect") /\ \A v \in Workers : v # w => key'[v] = key[v]
    BY <1>2, <1>w, MovedBy DEF ReceiveInitial, Ready, TypeOK, pmap, buffers, Present
  <2>2. QED
    BY <2>1, <1>f DEF Moved, EarlyLabels
<1>3. ASSUME NEW w \in Workers, NEW j \in Keys, ReceiveLate(w, j) PROVE OrderedFor(k)'
  <2>1. /\ pc[w] = "idle" /\ nextPkt' = nextPkt + 1 /\ nextPkt \in Pkts
        /\ UNCHANGED <<packets, buf, batch, pkt, pendingPackets, pc, key>>
        /\ out' = [out EXCEPT ![j] = Append(@, nextPkt)] /\ Present' = Present
    BY <1>3, <1>n DEF ReceiveLate, Deliver, Ready, TypeOK, pmap, wlocals, Pkts, Present
  <2>2. CASE k = j
    <3>1. w \in ServedBy[k] /\ k \in known /\ key[w] = NoKey
      BY <1>3, <2>2 DEF ReceiveLate, Ready, Held
    <3>2. \A v \in Workers : key[v] # k
      BY <3>1, <1>k, OneServer
    <3>3. k \notin Present
      BY <3>1, <3>2 DEF SessionFirst
    <3>4. Below(out[k], nextPkt) /\ Increasing(out[k]) /\ nextPkt < nextPkt' /\ nextPkt' \in Nat
      BY <2>1, <1>k, <1>n DEF OrderedFor
    <3>5. Increasing(Append(out[k], nextPkt)) /\ Below(Append(out[k], nextPkt), nextPkt')
      BY <2>1, <3>4, <1>o, GrowSeq
    <3>6. out'[k] = Append(out[k], nextPkt)
      BY <2>1, <2>2 DEF Ready, TypeOK
    <3>7. QED
      BY <2>1, <3>2, <3>3, <3>5, <3>6 DEF OrderedFor
  <2>3. CASE k # j
    <3>1. out'[k] = out[k] /\ nextPkt' >= nextPkt
      BY <2>1, <2>3, <1>k, <1>n DEF Ready, TypeOK
    <3>2. QED
      BY <2>1, <3>1, <1>k, OrderedFrame
  <2>4. QED
    BY <2>2, <2>3
<1>4. ASSUME NEW w \in Workers, LoadBuffer(w) \/ CreateBuffer(w) \/ ReserveSlot(w) \/ CancelSlot(w)
      PROVE  OrderedFor(k)'
  <2>1. /\ pc[w] \in EarlyLabels /\ UNCHANGED <<packets, batch, pkt, out, nextPkt, pendingPackets, key>>
        /\ \E l \in EarlyLabels : Goto(w, l)
    BY <1>4 DEF LoadBuffer, CreateBuffer, ReserveSlot, CancelSlot, EarlyLabels, pmap, world, buffers, wlocals
  <2>2. \E l \in EarlyLabels : Moved(w, l)
    BY <2>1, MovedBy
  <2>3. \A v \in Workers : v # w => buf'[v] = buf[v]
    BY <1>4 DEF LoadBuffer, CreateBuffer, ReserveSlot, CancelSlot, wlocals, Ready, TypeOK
  <2>4. QED
    BY <2>1, <2>2, <2>3, <1>g
<1>5. ASSUME NEW w \in Workers, Return(w), UNCHANGED <<packets, out, nextPkt, pendingPackets>>
      PROVE  OrderedFor(k)'
  <2>1. /\ Moved(w, "idle")
        /\ \A v \in Workers : v # w => /\ key'[v] = key[v] /\ buf'[v] = buf[v]
                                       /\ pkt'[v] = pkt[v] /\ batch'[v] = batch[v]
    BY <1>5, <1>w, MovedBy DEF Return, Ready, TypeOK
  <2>2. Present' = Present /\ nextPkt' >= nextPkt
    BY <1>5, <1>n DEF Present
  <2>3. QED
    BY <1>5, <2>1, <2>2, <1>k, OrderedFrame DEF Moved, EarlyLabels
<1>6. ASSUME NEW w \in Workers, NoBuffer(w) \/ ConnectDropped(w) \/ FlushDone(w) PROVE OrderedFor(k)'
  BY <1>5, <1>6 DEF NoBuffer, ConnectDropped, FlushDone, pmap, world, buffers
<1>7. ASSUME NEW w \in Workers, StoreBuffer(w) PROVE OrderedFor(k)'
  <2>1. /\ pc[w] = "insert" /\ UNCHANGED <<packets, buf, batch, pkt, out, nextPkt, key>>
        /\ \E l \in EarlyLabels : Goto(w, l)
        /\ key[w] \in Keys
    BY <1>7 DEF StoreBuffer, EarlyLabels, world, buffers, wlocals, Ready, Held
  <2>2. PICK l \in EarlyLabels : Moved(w, l)
    BY <2>1, MovedBy
  <2>3. CASE k = key[w] /\ k \notin Present
    <3>1. pendingPackets'[k] = buf[w] /\ packets[buf[w]] = <<>>
      BY <1>7, <2>1, <2>3 DEF StoreBuffer, BuffersApart, Ready, TypeOK
    <3>2. \A v \in Workers : key[v] = k => v = w
      BY <2>3, OneServer
    <3>3. Len(<<>>) = 0 /\ 1..0 = {}
      BY EmptySeq
    <3>4. Increasing(<<>>) /\ Before(out[k], <<>>) /\ Below(<<>>, nextPkt) /\ Below(<<>>, pkt[w])
      BY <3>3 DEF Increasing, Before, Below
    <3>5. pkt[w] < nextPkt /\ Below(out[k], pkt[w])
      BY <2>1, <2>3, <1>k DEF OrderedFor, EarlyLabels
    <3>6. Increasing(out[k]) /\ Below(out[k], nextPkt)
      BY <1>k DEF OrderedFor
    <3>7. pc'[w] \notin {"uncountFlush", "take", "forward"}
      BY <2>2 DEF Moved, EarlyLabels
    <3>8. QED
      BY <2>1, <3>1, <3>2, <3>4, <3>5, <3>6, <3>7 DEF OrderedFor
  <2>4. CASE k # key[w] \/ k \in Present
    <3>1. pendingPackets'[k] = pendingPackets[k]
      BY <1>7, <2>1, <2>4, <1>k DEF StoreBuffer, Ready, TypeOK
    <3>2. k \in Present' => k \in Present
      BY <3>1 DEF Present
    <3>3. QED
      BY <2>1, <2>2, <3>1, <3>2, <1>f DEF Moved, EarlyLabels
  <2>5. QED
    BY <2>3, <2>4
<1>8. ASSUME NEW w \in Workers, AppendPacket(w) PROVE OrderedFor(k)'
  <2>1. /\ pc[w] = "append" /\ Return(w) /\ UNCHANGED <<out, nextPkt, pendingPackets>>
        /\ buf[w] \in Bufs /\ pkt[w] \in Pkts /\ key[w] \in Keys /\ Present' = Present
    BY <1>8 DEF AppendPacket, pmap, world, Ready, Held, EarlyLabels, BufferLabels, Present
  <2>2. CASE packets' = packets
    BY <2>1, <2>2, <1>5
  <2>3. CASE packets' = [packets EXCEPT ![buf[w]] = Append(@, pkt[w])]
    <3>0. /\ Moved(w, "idle") /\ key'[w] = NoKey
          /\ \A v \in Workers : v # w => /\ key'[v] = key[v] /\ buf'[v] = buf[v]
                                         /\ pkt'[v] = pkt[v] /\ batch'[v] = batch[v]
      BY <2>1, <1>w, MovedBy DEF Return, Ready, TypeOK
    <3>1. /\ packets'[buf[w]] = Append(packets[buf[w]], pkt[w])
          /\ \A b \in Bufs : b # buf[w] => packets'[b] = packets[b]
      BY <2>1, <2>3 DEF Ready, TypeOK
    <3>2. CASE k # key[w]
      BY <2>1, <3>0, <3>1, <3>2, <1>k, OrderedApart DEF Moved
    <3>3. CASE k = key[w]
      <4>1. \A v \in Workers : key'[v] # k
        BY <3>0, <3>3, <1>k, OneServer
      <4>2. /\ pkt[w] < nextPkt /\ Below(out[k], pkt[w])
            /\ k \in Present => Below(packets[pendingPackets[k]], pkt[w])
        BY <2>1, <3>3, <1>k DEF OrderedFor, EarlyLabels
      <4>3. ASSUME k \in Present
            PROVE  /\ Increasing(packets'[pendingPackets[k]])
                   /\ Before(out[k], packets'[pendingPackets[k]])
                   /\ Below(packets'[pendingPackets[k]], nextPkt)
        <5>1. /\ Increasing(packets[pendingPackets[k]])
              /\ Before(out[k], packets[pendingPackets[k]])
              /\ Below(packets[pendingPackets[k]], nextPkt)
          BY <4>3, <1>k DEF OrderedFor
        <5>2. CASE pendingPackets[k] = buf[w]
          BY <2>1, <3>1, <4>2, <4>3, <5>1, <5>2, <1>n, <1>o, GrowSeq
        <5>3. CASE pendingPackets[k] # buf[w]
          <6>1. pendingPackets[k] \in Bufs
            BY <4>3 DEF Present, Ready, TypeOK, NoBuf
          <6>2. QED
            BY <3>1, <5>1, <5>3, <6>1
        <5>4. QED
          BY <5>2, <5>3
      <4>4. Increasing(out[k]) /\ Below(out[k], nextPkt)
        BY <1>k DEF OrderedFor
      <4>5. QED
        BY <2>1, <4>1, <4>3, <4>4 DEF OrderedFor
    <3>4. QED
      BY <3>2, <3>3
  <2>4. QED
    BY <1>8, <2>2, <2>3 DEF AppendPacket
<1>9. ASSUME NEW w \in Workers, StoreSession(w) PROVE OrderedFor(k)'
  <2>1. /\ UNCHANGED <<packets, buf, batch, pkt, out, nextPkt, pendingPackets, key>> /\ Present' = Present
        /\ Moved(w, "flush")
    BY <1>9, MovedBy DEF StoreSession, pmap, buffers, wlocals, Present
  <2>2. QED
    BY <2>1, <1>f DEF Moved, EarlyLabels
<1>10. ASSUME NEW w \in Workers, FlushPending(w) PROVE OrderedFor(k)'
  <2>1. CASE key[w] \in Present
    <3>1. /\ pc[w] = "flush" /\ UNCHANGED <<packets, batch, pkt, out, nextPkt, key>> /\ key[w] \in Keys
          /\ Moved(w, "uncountFlush") /\ buf'[w] = pendingPackets[key[w]]
          /\ pendingPackets'[key[w]] = NoBuf
          /\ \A j \in Keys : j # key[w] => pendingPackets'[j] = pendingPackets[j]
          /\ \A v \in Workers : v # w => buf'[v] = buf[v]
      BY <1>10, <2>1, MovedBy DEF FlushPending, Ready, TypeOK, world, buffers, Present
    <3>2. CASE k = key[w]
      <4>1. k \notin Present' /\ \A v \in Workers : key[v] = k => v = w
        BY <3>1, <3>2, OneServer DEF Present
      <4>2. /\ Increasing(packets[pendingPackets[k]])
            /\ Before(out[k], packets[pendingPackets[k]])
            /\ Below(packets[pendingPackets[k]], nextPkt)
            /\ Increasing(out[k]) /\ Below(out[k], nextPkt)
        BY <2>1, <3>2, <1>k DEF OrderedFor
      <4>3. pc'[w] = "uncountFlush" /\ pc'[w] \notin EarlyLabels
        BY <3>1 DEF Moved, EarlyLabels
      <4>4. QED
        BY <3>1, <3>2, <4>1, <4>2, <4>3 DEF OrderedFor
    <3>3. CASE k # key[w]
      BY <3>1, <3>3, <1>k, OrderedApart DEF Moved
    <3>4. QED
      BY <3>2, <3>3
  <2>2. CASE key[w] \notin Present
    BY <1>5, <1>10, <2>2 DEF FlushPending, world, buffers
  <2>3. QED
    BY <2>1, <2>2
<1>11. ASSUME NEW w \in Workers, UncountFlushed(w) PROVE OrderedFor(k)'
  <2>1. /\ pc[w] = "uncountFlush" /\ UNCHANGED <<packets, buf, batch, pkt, out, nextPkt, pendingPackets, key>>
        /\ Present' = Present /\ Moved(w, "take")
    BY <1>11, MovedBy DEF UncountFlushed, buffers, world, wlocals, Present
  <2>2. QED
    BY <2>1, <1>f DEF Moved, EarlyLabels
<1>12. ASSUME NEW w \in Workers, TakePackets(w) PROVE OrderedFor(k)'
  <2>1. /\ pc[w] = "take" /\ UNCHANGED <<buf, pkt, out, nextPkt, pendingPackets, key>>
        /\ Moved(w, "forward") /\ buf[w] \in Bufs /\ batch'[w] = packets[buf[w]]
        /\ \A b \in Bufs : b # buf[w] => packets'[b] = packets[b]
        /\ \A v \in Workers : v # w => batch'[v] = batch[v]
    BY <1>12, MovedBy DEF TakePackets, Ready, TypeOK, Held, BufferLabels, pmap, world
  <2>2. CASE k = key[w]
    <3>1. k \notin Present' /\ \A v \in Workers : key[v] = k => v = w
      <4>1. k \notin Present
        BY <2>1, <2>2 DEF SessionFirst
      <4>2. QED
        BY <2>1, <2>2, <4>1, OneServer DEF Present
    <3>2. /\ Increasing(packets[buf[w]]) /\ Before(out[k], packets[buf[w]])
          /\ Below(packets[buf[w]], nextPkt)
          /\ Increasing(out[k]) /\ Below(out[k], nextPkt)
      BY <2>1, <2>2, <1>k DEF OrderedFor
    <3>3. pc'[w] = "forward" /\ pc'[w] \notin EarlyLabels
      BY <2>1 DEF Moved, EarlyLabels
    <3>4. QED
      BY <2>1, <2>2, <3>1, <3>2, <3>3 DEF OrderedFor
  <2>3. CASE k # key[w]
    BY <2>1, <2>3, <1>k, OrderedApart DEF Moved
  <2>4. QED
    BY <2>2, <2>3
<1>13. ASSUME NEW w \in Workers, ForwardNext(w) PROVE OrderedFor(k)'
  <2>1. /\ pc[w] = "forward" /\ UNCHANGED <<packets, buf, pkt, nextPkt, pendingPackets, pc, key>>
        /\ batch[w] # <<>> /\ batch[w] \in Seq(Pkts) /\ batch'[w] = Tail(batch[w]) /\ key[w] \in Keys
        /\ out'[key[w]] = Append(out[key[w]], Head(batch[w]))
        /\ \A j \in Keys : j # key[w] => out'[j] = out[j]
        /\ \A v \in Workers : v # w => batch'[v] = batch[v]
        /\ Present' = Present
    BY <1>13 DEF ForwardNext, Deliver, Ready, TypeOK, Held, pmap, world, Present
  <2>2. CASE k = key[w]
    <3>1. k \notin Present /\ \A v \in Workers : key[v] = k => v = w
      BY <2>1, <2>2, OneServer DEF SessionFirst
    <3>2. /\ Increasing(batch[w]) /\ Before(out[k], batch[w]) /\ Below(batch[w], nextPkt)
          /\ Increasing(out[k])
      BY <2>1, <2>2, <1>k DEF OrderedFor
    <3>3. /\ Increasing(out'[k]) /\ Below(out'[k], nextPkt)
          /\ Increasing(batch'[w]) /\ Below(batch'[w], nextPkt)
          /\ Before(out'[k], batch'[w])
      BY <2>1, <2>2, <3>2, <1>n, <1>o, PassHead
    <3>4. QED
      BY <2>1, <3>1, <3>3 DEF OrderedFor, EarlyLabels
  <2>3. CASE k # key[w]
    BY <2>1, <2>3, <1>k, OrderedApart
  <2>4. QED
    BY <2>2, <2>3
<1>14. ASSUME UNCHANGED <<pendingPackets, packets, buf, batch, pkt, out, nextPkt, pc, key>> PROVE OrderedFor(k)'
  BY <1>14, <1>f DEF Present
<1>15. ASSUME NEW j \in Keys, SessionEnds(j) PROVE OrderedFor(k)'
  BY <1>14, <1>15 DEF SessionEnds, pmap, buffers, wlocals
<1>16. ASSUME NEW b \in Bufs, Expire(b) PROVE OrderedFor(k)'
  BY <1>14, <1>16 DEF Expire, pmap, world, wlocals
<1>17. CASE JanitorStep
  <2>1. /\ UNCHANGED <<packets, buf, batch, pkt, out, nextPkt>>
        /\ \A w \in Workers : pc'[w] = pc[w] /\ key'[w] = key[w]
    BY <1>17, <1>w DEF JanitorStep, Tick, ScanDone, ScanNext, DeleteBuffer, UncountBuffer, Goto,
                       Ready, TypeOK, world, buffers, wlocals
  <2>2. pendingPackets'[k] = pendingPackets[k] \/ pendingPackets'[k] = NoBuf
    BY <1>17, <1>k DEF JanitorStep, Tick, ScanDone, ScanNext, DeleteBuffer, UncountBuffer, Ready, TypeOK, pmap
  <2>3. k \in Present' => k \in Present /\ pendingPackets'[k] = pendingPackets[k]
    BY <2>2 DEF Present
  <2>4. QED
    BY <2>1, <2>3, <1>f
<1>18. CASE UNCHANGED vars
  BY <1>14, <1>18 DEF vars, pmap, buffers, world, wlocals
<1>19. QED
  BY <1>1, <1>2, <1>3, <1>4, <1>6, <1>7, <1>8, <1>9, <1>10, <1>11, <1>12, <1>13, <1>15, <1>16,
     <1>17, <1>18 DEF Next, WorkerStep

\* Where a packet p of k waits.
InMap(k, p) == k \in Present /\ p \in Contents(pendingPackets[k])
WithWorker(k, p) ==
  \E w \in Workers : key[w] = k /\
    \/ pc[w] \in {"uncountFlush", "take"} /\ p \in Contents(buf[w])
    \/ pc[w] = "forward" /\ \E i \in 1..Len(batch[w]) : p = batch[w][i]

\* A packet that waits is in the buffer in the map or with the worker that
\* flushes it.
WaitingKept == \A k \in SingleAddr : \A p \in waiting[k] : InMap(k, p) \/ WithWorker(k, p)

\* A packet that waits is kept until it is passed on or its buffer dropped.
LEMMA WaitingStep ==
  ASSUME Ready, BuffersApart, Serving, SessionFirst, WaitingKept, [Next]_vars
  PROVE  WaitingKept'
<1> SUFFICES ASSUME NEW k \in SingleAddr, NEW p \in waiting'[k] PROVE InMap(k, p)' \/ WithWorker(k, p)'
  BY DEF WaitingKept, SingleAddr
<1>w. Workers \subseteq Threads /\ Janitor \in Threads /\ NoKey \notin Keys /\ \A w \in Workers : w # Janitor
  BY PendingAssumption DEF Threads
<1>k. k \in Keys /\ k # NoKey
  BY <1>w DEF SingleAddr
<1>l. p \in waiting[k] => InMap(k, p) \/ WithWorker(k, p)
  BY DEF WaitingKept
<1>f. ASSUME p \in waiting[k], UNCHANGED <<packets, pendingPackets>>,
             \A v \in Workers : pc[v] \in {"uncountFlush", "take", "forward"} =>
               /\ key'[v] = key[v] /\ buf'[v] = buf[v] /\ batch'[v] = batch[v]
               /\ pc[v] = "forward" => pc'[v] = "forward"
               /\ pc[v] # "forward" => pc'[v] \in {"uncountFlush", "take"}
      PROVE  InMap(k, p)' \/ WithWorker(k, p)'
  BY <1>f, <1>k, <1>l DEF InMap, WithWorker, Contents, Present
<1>1. ASSUME NEW w \in Workers, NEW j \in Keys, ReceiveEarly(w, j) \/ ReceiveInitial(w, j)
      PROVE  InMap(k, p)' \/ WithWorker(k, p)'
  <2>1. /\ UNCHANGED <<packets, buf, batch, pendingPackets, waiting>> /\ pc[w] = "idle"
        /\ \A v \in Workers : v # w => key'[v] = key[v]
        /\ \E l \in {"load", "connect"} : Goto(w, l)
    BY <1>1, <1>w DEF ReceiveEarly, ReceiveInitial, Ready, TypeOK, pmap, buffers
  <2>2. \E l \in {"load", "connect"} : Moved(w, l)
    BY <2>1, MovedBy
  <2>3. QED
    BY <2>1, <2>2, <1>f DEF Moved
<1>2. ASSUME NEW w \in Workers, NEW j \in Keys, ReceiveLate(w, j) PROVE InMap(k, p)' \/ WithWorker(k, p)'
  <2>1. UNCHANGED <<packets, buf, batch, pendingPackets, pc, key>> /\ p \in waiting[k]
    BY <1>2, <1>k DEF ReceiveLate, Deliver, Ready, TypeOK, pmap, wlocals
  <2>2. QED
    BY <2>1, <1>f
<1>3. ASSUME NEW w \in Workers, NEW l, Goto(w, l), UNCHANGED <<packets, pendingPackets, waiting, key, batch>>,
             pc[w] \notin {"uncountFlush", "take", "forward"}, \A v \in Workers : v # w => buf'[v] = buf[v]
      PROVE  InMap(k, p)' \/ WithWorker(k, p)'
  BY <1>3, <1>f, MovedBy DEF Moved
<1>4. ASSUME NEW w \in Workers, LoadBuffer(w) \/ CreateBuffer(w) \/ ReserveSlot(w) \/ CancelSlot(w) \/ StoreSession(w)
      PROVE  InMap(k, p)' \/ WithWorker(k, p)'
  <2>1. /\ pc[w] \in {"load", "reload", "reserve", "cancel", "connect"}
        /\ UNCHANGED <<packets, batch, pendingPackets, waiting, key>>
        /\ \E l : Goto(w, l)
    BY <1>4 DEF LoadBuffer, CreateBuffer, ReserveSlot, CancelSlot, StoreSession, pmap, buffers, wlocals
  <2>2. \A v \in Workers : v # w => buf'[v] = buf[v]
    BY <1>4 DEF LoadBuffer, CreateBuffer, ReserveSlot, CancelSlot, StoreSession, wlocals, Ready, TypeOK
  <2>3. QED
    BY <2>1, <2>2, <1>3
<1>5. ASSUME NEW w \in Workers, Return(w), UNCHANGED <<packets, pendingPackets, waiting>>,
             pc[w] \in {"reload", "append", "connect", "flush"} \/ (batch[w] = <<>> /\ pc[w] = "forward")
      PROVE  InMap(k, p)' \/ WithWorker(k, p)'
  <2>1. /\ Moved(w, "idle")
        /\ \A v \in Workers : v # w => key'[v] = key[v] /\ buf'[v] = buf[v] /\ batch'[v] = batch[v]
    BY <1>5, <1>w, MovedBy DEF Return, Ready, TypeOK
  <2>2. InMap(k, p) => InMap(k, p)'
    BY <1>5 DEF InMap, Contents, Present
  <2>3. WithWorker(k, p) => WithWorker(k, p)'
    <3> SUFFICES ASSUME NEW v \in Workers, key[v] = k,
                        \/ pc[v] \in {"uncountFlush", "take"} /\ p \in Contents(buf[v])
                        \/ pc[v] = "forward" /\ \E i \in 1..Len(batch[v]) : p = batch[v][i]
                 PROVE  WithWorker(k, p)'
      BY DEF WithWorker
    <3>1. Len(<<>>) = 0 /\ 1..0 = {}
      BY EmptySeq
    <3>2. v # w
      BY <1>5, <3>1
    <3>3. QED
      BY <1>5, <2>1, <3>2 DEF WithWorker, Moved, Contents
  <2>4. QED
    BY <1>5, <1>l, <2>2, <2>3
<1>6. ASSUME NEW w \in Workers, NoBuffer(w) \/ ConnectDropped(w) \/ FlushDone(w)
      PROVE  InMap(k, p)' \/ WithWorker(k, p)'
  BY <1>5, <1>6 DEF NoBuffer, ConnectDropped, FlushDone, pmap, buffers
<1>7. ASSUME NEW w \in Workers, StoreBuffer(w) PROVE InMap(k, p)' \/ WithWorker(k, p)'
  <2>1. /\ pc[w] = "insert" /\ UNCHANGED <<packets, buf, batch, waiting, key>> /\ key[w] \in Keys
        /\ \E l \in {"append", "cancel"} : Goto(w, l)
        /\ \A j \in Present : pendingPackets'[j] = pendingPackets[j]
    BY <1>7 DEF StoreBuffer, buffers, wlocals, Ready, Held, TypeOK, Present
  <2>2. \E l \in {"append", "cancel"} : Moved(w, l)
    BY <2>1, MovedBy
  <2>3. QED
    BY <2>1, <2>2, <1>k, <1>l DEF InMap, WithWorker, Contents, Present, Moved
<1>8. ASSUME NEW w \in Workers, AppendPacket(w) PROVE InMap(k, p)' \/ WithWorker(k, p)'
  <2>1. /\ pc[w] = "append" /\ Return(w) /\ pendingPackets' = pendingPackets
        /\ buf[w] \in Bufs /\ pkt[w] \in Pkts /\ key[w] \in Keys
    BY <1>8 DEF AppendPacket, pmap, Ready, Held, EarlyLabels, BufferLabels
  <2>2. CASE UNCHANGED <<packets, waiting>>
    BY <2>1, <2>2, <1>5
  <2>3. CASE /\ packets' = [packets EXCEPT ![buf[w]] = Append(@, pkt[w])]
             /\ waiting' = IF pendingPackets[key[w]] # buf[w] THEN waiting
                           ELSE [waiting EXCEPT ![key[w]] = @ \cup {pkt[w]}]
    <3>1. /\ Moved(w, "idle")
          /\ \A v \in Workers : v # w => key'[v] = key[v] /\ buf'[v] = buf[v] /\ batch'[v] = batch[v]
      BY <2>1, <1>w, MovedBy DEF Return, Ready, TypeOK
    <3>2. /\ packets[buf[w]] \in Seq(Pkts) /\ packets'[buf[w]] = Append(packets[buf[w]], pkt[w])
          /\ \A b \in Bufs : b # buf[w] => packets'[b] = packets[b]
      BY <2>1, <2>3 DEF Ready, TypeOK
    <3>3. /\ Len(packets'[buf[w]]) = Len(packets[buf[w]]) + 1 /\ Len(packets[buf[w]]) \in Nat
          /\ \A i \in 1..Len(packets[buf[w]]) : packets'[buf[w]][i] = packets[buf[w]][i]
          /\ packets'[buf[w]][Len(packets[buf[w]]) + 1] = pkt[w]
      BY <2>1, <3>2, AppendProperties, LenProperties
    <3>4. /\ \A i \in 1..Len(packets[buf[w]]) : i \in 1..Len(packets'[buf[w]])
          /\ Len(packets[buf[w]]) + 1 \in 1..Len(packets'[buf[w]])
      BY <3>3
    <3>5. ASSUME NEW b \in Bufs, NEW i \in 1..Len(packets[b]) PROVE \E x \in 1..Len(packets'[b]) : packets[b][i] = packets'[b][x]
      <4>1. CASE b = buf[w]
        BY <3>3, <3>4, <4>1
      <4>2. CASE b # buf[w]
        BY <3>2, <4>2
      <4>3. QED
        BY <4>1, <4>2
    <3>6. CASE p \in waiting[k]
      <4>1. InMap(k, p) => InMap(k, p)'
        <5>1. k \in Present => pendingPackets[k] \in Bufs
          BY DEF Present, Ready, TypeOK, NoBuf
        <5>2. QED
          BY <2>1, <3>5, <5>1, SMTT(30) DEF InMap, Contents, Present
      <4>2. WithWorker(k, p) => WithWorker(k, p)'
        <5> SUFFICES ASSUME NEW v \in Workers, key[v] = k,
                            \/ pc[v] \in {"uncountFlush", "take"} /\ p \in Contents(buf[v])
                            \/ pc[v] = "forward" /\ \E i \in 1..Len(batch[v]) : p = batch[v][i]
                     PROVE  WithWorker(k, p)'
          BY DEF WithWorker
        <5>1. v # w /\ buf[v] \in Bufs
          BY <2>1 DEF Ready, Held, BufferLabels
        <5>2. QED
          BY <3>1, <3>5, <5>1, SMTT(30) DEF WithWorker, Moved, Contents
      <4>3. QED
        BY <3>6, <4>1, <4>2, <1>l
    <3>7. CASE p \notin waiting[k]
      <4>1. k = key[w] /\ p = pkt[w] /\ pendingPackets[k] = buf[w]
        BY <2>1, <2>3, <3>7, <1>k DEF Ready, TypeOK
      <4>2. p \in Contents(pendingPackets[k])'
        BY <2>1, <3>3, <3>4, <4>1 DEF Contents
      <4>3. k \in Present'
        BY <2>1, <4>1, <1>k DEF Present, Bufs, NoBuf
      <4>4. QED
        BY <4>2, <4>3 DEF InMap
    <3>8. QED
      BY <3>6, <3>7
  <2>4. QED
    BY <1>8, <2>2, <2>3 DEF AppendPacket
<1>9. ASSUME NEW w \in Workers, FlushPending(w) PROVE InMap(k, p)' \/ WithWorker(k, p)'
  <2>1. CASE key[w] \in Present
    <3>1. /\ pc[w] = "flush" /\ UNCHANGED <<packets, batch, waiting, key>> /\ key[w] \in Keys
          /\ Moved(w, "uncountFlush") /\ buf'[w] = pendingPackets[key[w]]
          /\ \A j \in Keys : j # key[w] => pendingPackets'[j] = pendingPackets[j]
          /\ \A v \in Workers : v # w => buf'[v] = buf[v]
      BY <1>9, <2>1, MovedBy DEF FlushPending, Ready, TypeOK, buffers, Present
    <3>2. InMap(k, p) => InMap(k, p)' \/ WithWorker(k, p)'
      BY <3>1, <1>k DEF InMap, WithWorker, Moved, Contents, Present
    <3>3. WithWorker(k, p) => WithWorker(k, p)'
      BY <3>1 DEF WithWorker, Moved, Contents
    <3>4. QED
      BY <3>1, <3>2, <3>3, <1>l
  <2>2. CASE key[w] \notin Present
    BY <1>5, <1>9, <2>2 DEF FlushPending, buffers
  <2>3. QED
    BY <2>1, <2>2
<1>10. ASSUME NEW w \in Workers, UncountFlushed(w) PROVE InMap(k, p)' \/ WithWorker(k, p)'
  <2>1. /\ pc[w] = "uncountFlush" /\ UNCHANGED <<packets, buf, batch, pendingPackets, waiting, key>> /\ Moved(w, "take")
    BY <1>10, MovedBy DEF UncountFlushed, buffers, wlocals
  <2>2. QED
    BY <2>1, <1>f DEF Moved
<1>11. ASSUME NEW w \in Workers, TakePackets(w) PROVE InMap(k, p)' \/ WithWorker(k, p)'
  <2>1. /\ pc[w] = "take" /\ UNCHANGED <<buf, waiting, pendingPackets, key>>
        /\ Moved(w, "forward") /\ buf[w] \in Bufs /\ batch'[w] = packets[buf[w]]
        /\ \A b \in Bufs : b # buf[w] => packets'[b] = packets[b]
        /\ \A v \in Workers : v # w => batch'[v] = batch[v]
    BY <1>11, MovedBy DEF TakePackets, Ready, TypeOK, Held, BufferLabels, pmap
  <2>2. InMap(k, p) => InMap(k, p)'
    <3> SUFFICES ASSUME InMap(k, p) PROVE InMap(k, p)'
      OBVIOUS
    <3>1. k \in Present /\ pendingPackets[k] \in Bufs
      BY DEF InMap, Present, Ready, TypeOK, NoBuf
    <3>2. pendingPackets[k] # buf[w]
      BY <2>1, <3>1 DEF SessionFirst, BuffersApart
    <3>3. packets'[pendingPackets'[k]] = packets[pendingPackets[k]] /\ k \in Present'
      BY <2>1, <3>1, <3>2 DEF Present
    <3>4. QED
      BY <3>3 DEF InMap, Contents
  <2>3. WithWorker(k, p) => WithWorker(k, p)'
    <3> SUFFICES ASSUME NEW v \in Workers, key[v] = k,
                        \/ pc[v] \in {"uncountFlush", "take"} /\ p \in Contents(buf[v])
                        \/ pc[v] = "forward" /\ \E i \in 1..Len(batch[v]) : p = batch[v][i]
                 PROVE  WithWorker(k, p)'
      BY DEF WithWorker
    <3>1. CASE v = w
      <4>1. \E i \in 1..Len(batch'[v]) : p = batch'[v][i]
        BY <2>1, <3>1 DEF Contents
      <4>2. QED
        BY <2>1, <3>1, <4>1 DEF WithWorker, Moved
    <3>2. CASE v # w
      <4>1. buf[v] \in Bufs /\ buf[v] # NoBuf
        BY DEF Ready, Held, BufferLabels, Bufs, NoBuf
      <4>2. buf[v] # buf[w]
        BY <3>2, <4>1, OneServer DEF BuffersApart
      <4>3. packets'[buf'[v]] = packets[buf[v]] /\ batch'[v] = batch[v] /\ pc'[v] = pc[v] /\ key'[v] = k
        BY <2>1, <3>2, <4>1, <4>2 DEF Moved
      <4>4. QED
        BY <4>3 DEF WithWorker, Contents
    <3>3. QED
      BY <3>1, <3>2
  <2>4. QED
    BY <2>1, <2>2, <2>3, <1>l
<1>12. ASSUME NEW w \in Workers, ForwardNext(w) PROVE InMap(k, p)' \/ WithWorker(k, p)'
  <2>1. /\ pc[w] = "forward" /\ UNCHANGED <<packets, buf, pendingPackets, pc, key>> /\ key[w] \in Keys
        /\ batch[w] # <<>> /\ batch[w] \in Seq(Pkts) /\ batch'[w] = Tail(batch[w])
        /\ waiting' = [waiting EXCEPT ![key[w]] = @ \ {Head(batch[w])}]
        /\ \A v \in Workers : v # w => batch'[v] = batch[v]
    BY <1>12 DEF ForwardNext, Deliver, Ready, TypeOK, Held, pmap
  <2>2. p \in waiting[k] /\ (k = key[w] => p # Head(batch[w]))
    BY <2>1, <1>k DEF Ready, TypeOK
  <2>3. InMap(k, p) => InMap(k, p)'
    BY <2>1 DEF InMap, Contents, Present
  <2>4. WithWorker(k, p) => WithWorker(k, p)'
    <3> SUFFICES ASSUME NEW v \in Workers, key[v] = k,
                        \/ pc[v] \in {"uncountFlush", "take"} /\ p \in Contents(buf[v])
                        \/ pc[v] = "forward" /\ \E i \in 1..Len(batch[v]) : p = batch[v][i]
                 PROVE  WithWorker(k, p)'
      BY DEF WithWorker
    <3>1. CASE v = w
      <4>1. PICK i \in 1..Len(batch[w]) : p = batch[w][i]
        BY <2>1, <3>1
      <4>2. /\ Len(Tail(batch[w])) = Len(batch[w]) - 1 /\ Len(batch[w]) \in Nat
            /\ \A x \in 1..Len(Tail(batch[w])) : Tail(batch[w])[x] = batch[w][x + 1]
        BY <2>1, HeadTailProperties, LenProperties
      <4>3. i # 1
        BY <2>1, <2>2, <3>1, <4>1
      <4>4. i - 1 \in 1..Len(Tail(batch[w])) /\ (i - 1) + 1 = i
        BY <4>2, <4>3
      <4>5. batch'[w][i - 1] = p
        BY <2>1, <4>1, <4>2, <4>4
      <4>6. QED
        BY <2>1, <3>1, <4>4, <4>5 DEF WithWorker
    <3>2. CASE v # w
      BY <2>1, <3>2 DEF WithWorker, Contents
    <3>3. QED
      BY <3>1, <3>2
  <2>5. QED
    BY <2>2, <2>3, <2>4, <1>l
<1>13. ASSUME NEW j \in Keys, SessionEnds(j) PROVE InMap(k, p)' \/ WithWorker(k, p)'
  BY <1>f, <1>13 DEF SessionEnds, pmap, buffers, wlocals
<1>14. ASSUME NEW b \in Bufs, Expire(b) PROVE InMap(k, p)' \/ WithWorker(k, p)'
  BY <1>f, <1>14 DEF Expire, pmap, wlocals
<1>15. CASE JanitorStep
  <2>1. /\ UNCHANGED <<packets, buf, batch>>
        /\ \A w \in Workers : pc'[w] = pc[w] /\ key'[w] = key[w]
    BY <1>15, <1>w DEF JanitorStep, Tick, ScanDone, ScanNext, DeleteBuffer, UncountBuffer, Goto,
                       Ready, TypeOK, buffers, wlocals
  <2>2. WithWorker(k, p) => WithWorker(k, p)'
    BY <2>1, SMTT(30) DEF WithWorker, Contents
  <2>3. CASE UNCHANGED <<pendingPackets, waiting>>
    BY <2>1, <2>2, <2>3, <1>l DEF InMap, Contents, Present
  <2>4. CASE DeleteBuffer
    <3>1. /\ key[Janitor] \in Keys /\ pendingPackets' = [pendingPackets EXCEPT ![key[Janitor]] = NoBuf]
          /\ waiting' = [waiting EXCEPT ![key[Janitor]] = @ \
               (IF key[Janitor] \in Present THEN Contents(pendingPackets[key[Janitor]]) ELSE {})]
      BY <2>4 DEF DeleteBuffer, Ready, Held
    <3>2. CASE k = key[Janitor]
      <4>1. p \in waiting[k] /\ ~InMap(k, p)
        BY <3>1, <3>2, <1>k DEF InMap, Ready, TypeOK
      <4>2. QED
        BY <4>1, <2>2, <1>l
    <3>3. CASE k # key[Janitor]
      <4>1. p \in waiting[k] /\ pendingPackets'[k] = pendingPackets[k]
        BY <3>1, <3>3, <1>k DEF Ready, TypeOK
      <4>2. QED
        BY <4>1, <2>1, <2>2, <1>l, <1>k DEF InMap, Contents, Present
    <3>4. QED
      BY <3>2, <3>3
  <2>5. QED
    BY <1>15, <2>3, <2>4 DEF JanitorStep, Tick, ScanDone, ScanNext, UncountBuffer, pmap, buffers
<1>16. CASE UNCHANGED vars
  BY <1>f, <1>16 DEF vars, pmap, buffers, wlocals
<1>17. QED
  BY <1>1, <1>2, <1>4, <1>6, <1>7, <1>8, <1>9, <1>10, <1>11, <1>12, <1>13, <1>14,
     <1>15, <1>16 DEF Next, WorkerStep

\* When a flush ends nothing is left to wait.
LEMMA FlushEnds ==
  ASSUME Ready, Serving, SessionFirst, WaitingKept, [Next]_vars,
         NEW w \in Workers, pc[w] \in {"flush", "forward"}, pc'[w] = "idle", key[w] \in SingleAddr
  PROVE  waiting[key[w]] = {}
<1>w. Workers \subseteq Threads /\ \A v \in Workers : v # Janitor
  BY PendingAssumption DEF Threads
<1>1. \/ pc[w] = "flush" /\ key[w] \notin Present
      \/ pc[w] = "forward" /\ batch[w] = <<>>
  <2>1. CASE WorkerStep(w)
    <3>1. \/ StoreSession(w) \/ FlushPending(w) \/ ForwardNext(w) \/ FlushDone(w)
      BY <2>1 DEF WorkerStep, LoadBuffer, CreateBuffer, NoBuffer, ReserveSlot, StoreBuffer, CancelSlot,
                  AppendPacket, ConnectDropped, UncountFlushed, TakePackets
    <3>2. CASE FlushPending(w)
      BY <3>2, <1>w DEF FlushPending, Goto, Ready, TypeOK
    <3>3. CASE FlushDone(w)
      BY <3>3 DEF FlushDone
    <3>4. QED
      BY <3>1, <3>2, <3>3 DEF StoreSession, ForwardNext
  <2>2. CASE ~WorkerStep(w)
    <3>1. pc'[w] = pc[w]
      <4>1. ASSUME NEW t \in Threads, t # w, NEW l, Goto(t, l) PROVE pc'[w] = pc[w]
        BY <4>1, <1>w DEF Goto, Ready, TypeOK
      <4>2. ASSUME NEW v \in Workers, v # w, WorkerStep(v) PROVE pc'[w] = pc[w]
        BY <4>1, <4>2, <1>w DEF WorkerStep, LoadBuffer, CreateBuffer, NoBuffer, ReserveSlot, StoreBuffer, CancelSlot,
           AppendPacket, ConnectDropped, StoreSession, FlushPending, UncountFlushed, TakePackets, ForwardNext, FlushDone, Return
      <4>3. ASSUME NEW v \in Workers, NEW k \in Keys, ReceiveEarly(v, k) \/ ReceiveInitial(v, k) PROVE pc'[w] = pc[w]
        <5>1. v # w
          BY <4>3 DEF ReceiveEarly, ReceiveInitial
        <5>2. QED
          BY <4>1, <4>3, <5>1, <1>w DEF ReceiveEarly, ReceiveInitial
      <4>4. CASE JanitorStep
        <5>1. Janitor # w /\ Janitor \in Threads
          BY <1>w DEF Threads
        <5>2. QED
          BY <4>1, <4>4, <5>1 DEF JanitorStep, Tick, ScanDone, ScanNext, DeleteBuffer, UncountBuffer
      <4>5. CASE pc' = pc
        BY <4>5
      <4>6. QED
        BY <2>2, <4>2, <4>3, <4>4, <4>5 DEF Next, ReceiveLate, SessionEnds, Expire, vars
    <3>2. QED
      BY <3>1
  <2>3. QED
    BY <2>1, <2>2
<1>2. \A v \in Workers : key[v] = key[w] => v = w
  BY OneServer
<1>3. key[w] \notin Present
  BY <1>1 DEF SessionFirst
<1>4. Len(<<>>) = 0 /\ 1..0 = {}
  BY EmptySeq
<1>5. ASSUME NEW p \in waiting[key[w]] PROVE FALSE
  <2>1. WithWorker(key[w], p)
    BY <1>3 DEF WaitingKept, InMap
  <2>2. QED
    BY <1>1, <1>2, <1>4, <2>1 DEF WithWorker
<1>6. QED
  BY <1>5

\* All that the order and the flush rest on holds at the start ...
LEMMA FlowInit == Init => BuffersApart /\ Serving /\ SessionFirst /\ Ordered /\ WaitingKept
<1> SUFFICES ASSUME Init PROVE BuffersApart /\ Serving /\ SessionFirst /\ Ordered /\ WaitingKept
  OBVIOUS
<1>1. Present = {} /\ Ready
  BY PendingInit
<1>w. Workers \subseteq Threads /\ NoKey \notin Keys
  BY PendingAssumption DEF Threads
<1>2. \A w \in Workers : key[w] = NoKey /\ pc[w] = "idle" /\ buf[w] = NoBuf
  BY <1>w DEF Init
<1>3. BuffersApart
  BY <1>1, <1>2 DEF Init, BuffersApart, NoBuf
<1>4. Len(<<>>) = 0 /\ 1..0 = {}
  BY EmptySeq
<1>5. SingleAddr \subseteq Keys
  BY DEF SingleAddr
<1>6. Increasing(<<>>) /\ Below(<<>>, nextPkt)
  BY <1>4 DEF Increasing, Below
<1>7. Ordered
  BY <1>1, <1>2, <1>5, <1>6, <1>w DEF Init, Ordered, OrderedFor
<1>8. SessionFirst /\ Serving /\ WaitingKept
  BY <1>1, <1>2, <1>5, <1>w DEF Init, SessionFirst, Serving, WaitingKept
<1>9. QED
  BY <1>3, <1>7, <1>8

\* ... and is kept together.
LEMMA AlwaysFlows == Spec => [](Ready /\ BuffersApart /\ Serving /\ SessionFirst /\ Ordered /\ WaitingKept)
<1>1. /\ Ready /\ Ready' /\ [Next]_vars
      /\ BuffersApart /\ Serving /\ SessionFirst /\ Ordered /\ WaitingKept
      => BuffersApart' /\ Serving' /\ SessionFirst' /\ Ordered' /\ WaitingKept'
  BY ApartStep, ServingStep, SessionFirstStep, OrderedStep, WaitingStep
<1>2. QED
  BY <1>1, FlowInit, AlwaysCounted, PTL DEF Spec

\* However workers, flushes and the ticker interleave, OnPacket gets the
\* packets of a client in the order in which its worker took them up.
THEOREM OrderSafe == Spec => []InOrder
<1>1. Ordered => InOrder
  BY DEF Ordered, OrderedFor, Increasing, InOrder
<1>2. QED
  BY <1>1, AlwaysFlows, PTL

\* A flush leaves no packet of a client behind: what was accepted before is
\* passed on when the opening worker is done, unless the ticker dropped it.
THEOREM FlushSafe == Spec => FlushedAll
<1>1. /\ Ready /\ Serving /\ SessionFirst /\ WaitingKept /\ [Next]_vars
      => [\A w \in Workers : pc[w] \in {"flush", "forward"} /\ pc'[w] = "idle" /\ key[w] \in SingleAddr =>
            waiting[key[w]] = {}]_vars
  BY FlushEnds
<1>2. QED
  BY <1>1, AlwaysFlows, PTL DEF Spec, FlushedAll
=============================================================================
