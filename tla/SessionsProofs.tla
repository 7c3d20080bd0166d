--------------------------- MODULE SessionsProofs ---------------------------
(***************************************************************************)
(* Proofs about Sessions that hold for any number of workers, addresses,   *)
(* connection IDs, chains and limits:                                      *)
(*   TypeCorrect   every variable keeps its type;                          *)
(*   SlotsSafe     sessionCount covers every session and every slot;       *)
(*   LimitSafe     the global connection limit is never exceeded;          *)
(*   ChainsSafe    no chain is shut down twice or while it is current, and *)
(*                 no retired chain is left without references;            *)
(*   StopSafe      when Stop has returned, no session is left and every    *)
(*                 installed chain has been shut down.                     *)
(*                                                                         *)
(* TypeOK alone is not inductive: a worker's context and a deleter's key   *)
(* are only used at some labels, and LocalsOK says at which.  The counter  *)
(* needs ReserveOK besides: two workers in OnConnect never share a         *)
(* context, so a reservation cannot be released by somebody else.          *)
(***************************************************************************)
EXTENDS Sessions, FiniteSetTheorems, TLAPS

\* Labels at which a worker handles a packet of an existing session.
Binding == {"bind", "rebind", "unbindOld", "bindNew"}
\* Labels of a worker inside OnConnect, up to the counter in storeSession.
Reserving == {"onConnect", "dial", "store"}
\* Labels of a worker that has created a context.
Creating == Reserving \cup {"collect", "evict", "put", "retain", "bindClient", "publish"}
            \cup Deleting

\* What the locals hold at the labels that use them.
LocalsOK ==
  /\ \A w \in Workers :
       /\ pc[w] \in Binding \cup Creating => cx[w] \in Ctxs
       /\ pc[w] \in Creating => cx[w] < nextCtx
       /\ pc[w] \in {"connect"} \cup Creating => pktCid[w] \in DCIDs
  /\ \A t \in Threads : pc[t] \in Deleting => delKey[t] \in DCIDs /\ delCtx[t] \in Ctxs
  /\ \A c \in Ctxs : rd[c] \in {"check", "store", "track"} => rdScid[c] \in SCIDs
  /\ \A c \in Ctxs : c < nextCtx => dcidOf[c] \in DCIDs
  /\ \A c \in droppable : c < nextCtx

TypeInv == TypeOK /\ LocalsOK

\* Updating one entry of a table of naturals.
LEMMA UpdateNat ==
  ASSUME NEW S, NEW f \in [S -> Nat], NEW x, NEW v \in Nat, NEW g,
         g = f \/ g = [f EXCEPT ![x] = v]
  PROVE  g \in [S -> Nat]
<1>1. CASE g = f
  BY <1>1
<1>2. CASE g = [f EXCEPT ![x] = v]
  BY <1>2
<1> QED BY <1>1, <1>2

\* Counting one more event for one entry.
LEMMA IncrementNat ==
  ASSUME NEW S, NEW f \in [S -> Nat], NEW x \in S, NEW g,
         g = f \/ g = [f EXCEPT ![x] = @ + 1]
  PROVE  g \in [S -> Nat]
<1>1. f[x] + 1 \in Nat
  OBVIOUS
<1> QED BY <1>1, UpdateNat

\* The type invariant and LocalsOK hold initially.
LEMMA TypeInit == Init => TypeInv
  BY ThreadAssumption, ConstAssumption, SMTT(30)
  DEF Init, TypeInv, TypeOK, LocalsOK, NoCtx, Ctxs, Threads, Labels, Deleting, Stopping, Binding,
      Reserving, Creating

\* Every step of every goroutine keeps them.
LEMMA TypeStep == TypeInv /\ [Next]_vars => TypeInv'
<1> SUFFICES ASSUME TypeInv, [Next]_vars PROVE TypeInv'
  OBVIOUS
<1> USE ThreadAssumption, ConstAssumption
    DEF TypeInv, TypeOK, LocalsOK, table, aliases, chains, created, contexts, packet, locals,
        deletion, readers, NoCtx, Ctxs, Threads, Goto, Labels, Deleting, Stopping, Binding,
        Reserving, Creating
<1>1. ASSUME NEW w \in Workers, NEW a \in Addrs, NEW k \in DCIDs \cup SCIDs \cup {NoKey}, ReceivePacket(w, a, k) PROVE TypeInv'
  <2>1. FindSession(k, a) \in Ctxs
    BY <1>1 DEF ReceivePacket, FindSession
  <2>2. /\ cx' = [cx EXCEPT ![w] = FindSession(k, a)] /\ pc' = [pc EXCEPT ![w] = "bind"]
        /\ pktCid' = [pktCid EXCEPT ![w] = k]
        /\ UNCHANGED <<nextCtx, dcidOf, delKey, delCtx, rd, rdScid, droppable>>
    BY <1>1 DEF ReceivePacket
  <2>3. TypeOK'
    BY <1>1, <2>1 DEF ReceivePacket
  <2>4. \A v \in Workers : v # w => cx'[v] = cx[v] /\ pktCid'[v] = pktCid[v] /\ pc'[v] = pc[v]
    BY <2>2
  <2>5. cx'[w] \in Ctxs /\ pc'[w] = "bind"
    BY <2>1, <2>2
  <2>6. LocalsOK'
    BY <2>2, <2>4, <2>5, ZenonT(60)
  <2> QED BY <2>3, <2>6
<1>2. ASSUME NEW w \in Workers, NEW a \in Addrs, NEW d \in DCIDs, ReceiveInitial(w, a, d) PROVE TypeInv'
  BY <1>2, ZenonT(60) DEF ReceiveInitial
<1>3. ASSUME NEW w \in Workers, CheckAddr(w) PROVE TypeInv'
  BY <1>3, ZenonT(60) DEF CheckAddr, Finish
<1>4. ASSUME NEW w \in Workers, BeginMigration(w) PROVE TypeInv'
  BY <1>4 DEF BeginMigration
<1>5. ASSUME NEW w \in Workers, SetClientAddr(w) PROVE TypeInv'
  BY <1>5 DEF SetClientAddr
<1>6. ASSUME NEW w \in Workers, DeleteOldAddr(w) PROVE TypeInv'
  BY <1>6 DEF DeleteOldAddr
<1>7. ASSUME NEW w \in Workers, StoreNewAddr(w) PROVE TypeInv'
  BY <1>7, ZenonT(60) DEF StoreNewAddr, Finish
<1>8. ASSUME NEW w \in Workers, NewContext(w) PROVE TypeInv'
  <2>1. nextCtx \in Ctxs /\ nextCtx' = nextCtx + 1 /\ nextCtx' \in 1..(MaxCtx + 1)
    BY <1>8 DEF NewContext
  <2>2. pktCid[w] \in DCIDs
    BY <1>8 DEF NewContext
  <2>3. /\ dcidOf' \in [Ctxs -> DCIDs \cup {NoKey}] /\ chainOf' \in [Ctxs -> Chains]
        /\ addrOf' \in [Ctxs -> Addrs \cup {NoKey}] /\ cx' \in [Workers -> Ctxs \cup {NoCtx}]
        /\ pc' \in [Threads -> Labels]
    BY <1>8, <2>1 DEF NewContext
  <2>4. TypeOK'
    BY <1>8, <2>1, <2>3 DEF NewContext
  <2>5. /\ \A v \in Workers : v # w => cx'[v] = cx[v] /\ pktCid'[v] = pktCid[v] /\ pc'[v] = pc[v]
        /\ cx'[w] = nextCtx /\ pktCid'[w] = pktCid[w] /\ pc'[w] = "onConnect"
    BY <1>8 DEF NewContext
  <2>6. \A v \in Workers : /\ (pc[v] \in Binding \cup Creating => cx[v] \in Ctxs)'
                           /\ (pc[v] \in Creating => cx[v] < nextCtx)'
                           /\ (pc[v] \in {"connect"} \cup Creating => pktCid[v] \in DCIDs)'
    <3> TAKE v \in Workers
    <3>1. CASE v = w
      BY <2>1, <2>2, <2>5, <3>1, SMTT(30)
    <3>2. CASE v # w
      <4>1. cx'[v] = cx[v] /\ pktCid'[v] = pktCid[v] /\ pc'[v] = pc[v]
        BY <2>5, <3>2
      <4>2. cx[v] \in Int /\ nextCtx \in Int
        OBVIOUS
      <4>3. cx[v] < nextCtx => cx[v] < nextCtx'
        BY <2>1, <4>2
      <4> QED BY <4>1, <4>3
    <3> QED BY <3>1, <3>2
  <2>7. \A c \in Ctxs : (c < nextCtx => dcidOf[c] \in DCIDs)'
    BY <1>8, <2>1, <2>2 DEF NewContext
  <2>8. \A c \in droppable' : c < nextCtx'
    BY <1>8, <2>1 DEF NewContext
  <2>9. LocalsOK'
    BY <1>8, <2>6, <2>7, <2>8 DEF NewContext
  <2> QED BY <2>4, <2>9
<1>9. ASSUME NEW w \in Workers, TryReserveSessionSlot(w) PROVE TypeInv'
  <2>1. sessionCount' \in Int
    BY <1>9 DEF TryReserveSessionSlot
  <2>2. reserved' \in [Ctxs -> BOOLEAN] /\ pc' \in [Threads -> Labels]
    BY <1>9 DEF TryReserveSessionSlot
  <2>3. TypeOK'
    BY <1>9, <2>1, <2>2 DEF TryReserveSessionSlot
  <2>4. LocalsOK'
    BY <1>9 DEF TryReserveSessionSlot
  <2> QED BY <2>3, <2>4
<1>10. ASSUME NEW w \in Workers, LimitReached(w) PROVE TypeInv'
  BY <1>10, ZenonT(60) DEF LimitReached, Finish
<1>11. ASSUME NEW w \in Workers, NoLimiter(w) PROVE TypeInv'
  BY <1>11 DEF NoLimiter
<1>12. ASSUME NEW w \in Workers, Dial(w) PROVE TypeInv'
  BY <1>12, ZenonT(60) DEF Dial
<1>13. ASSUME NEW w \in Workers, ReleaseReservedSessionSlot(w) PROVE TypeInv'
  <2>1. sessionCount' \in Int
    BY <1>13 DEF ReleaseReservedSessionSlot
  <2>2. reserved' \in [Ctxs -> BOOLEAN] /\ pc' \in [Threads -> Labels]
    BY <1>13 DEF ReleaseReservedSessionSlot, Finish
  <2>3. /\ cx' \in [Workers -> Ctxs \cup {NoCtx}] /\ pktAddr' \in [Workers -> Addrs \cup {NoKey}]
        /\ pktCid' \in [Workers -> DCIDs \cup SCIDs \cup {NoKey}]
        /\ old' \in [Workers -> Addrs \cup {NoKey}]
    BY <1>13 DEF ReleaseReservedSessionSlot, Finish
  <2>4. TypeOK'
    BY <1>13, <2>1, <2>2, <2>3 DEF ReleaseReservedSessionSlot, Finish
  <2>5. LocalsOK'
    BY <1>13, ZenonT(60) DEF ReleaseReservedSessionSlot, Finish
  <2> QED BY <2>4, <2>5
<1>14. ASSUME NEW w \in Workers, StoreSession(w) PROVE TypeInv'
  <2>1. sessionCount' \in Int
    BY <1>14 DEF StoreSession
  <2>2. quota' \in [Workers -> Nat]
    <3> DEFINE count == IF reserved[cx[w]] THEN sessionCount ELSE sessionCount + 1
    <3>1. count \div EvictDiv \in Int
      BY ConstAssumption
    <3>2. quota' = quota \/ (count \div EvictDiv > 0 /\ quota' = [quota EXCEPT ![w] = count \div EvictDiv])
      BY <1>14 DEF StoreSession
    <3> DEFINE n == count \div EvictDiv
    <3>3. n > 0 => n \in Nat
      BY <3>1
    <3> HIDE DEF n
    <3>4. quota \in [Workers -> Nat]
      OBVIOUS
    <3>5. quota' = quota \/ (n \in Nat /\ quota' = [quota EXCEPT ![w] = n])
      BY <3>2, <3>3 DEF n
    <3> QED BY <3>4, <3>5, ZenonT(60)
  <2>3. pc' \in [Threads -> Labels]
    BY <1>14, ZenonT(60) DEF StoreSession
  <2>4. TypeOK'
    BY <1>14, <2>1, <2>2, <2>3 DEF StoreSession
  <2>5. LocalsOK'
    BY <1>14, ZenonT(60) DEF StoreSession
  <2> QED BY <2>4, <2>5
<1>15. ASSUME NEW w \in Workers, CollectOldest(w) PROVE TypeInv'
  <2>1. PICK S \in SUBSET Settled : victims' = [victims EXCEPT ![w] = S]
    BY <1>15 DEF CollectOldest, Settled
  <2>2. S \subseteq DCIDs
    BY DEF Settled, Stored
  <2>3. victims' \in [Workers -> SUBSET DCIDs]
    BY <2>1, <2>2
  <2>4. quota' \in [Workers -> Nat] /\ pc' \in [Threads -> Labels]
    BY <1>15 DEF CollectOldest, Settled
  <2>5. TypeOK'
    BY <1>15, <2>3, <2>4 DEF CollectOldest
  <2>6. LocalsOK'
    BY <1>15 DEF CollectOldest, Settled
  <2> QED BY <2>5, <2>6
<1>16. ASSUME NEW w \in Workers, EvictNext(w) PROVE TypeInv'
  <2>1. PICK d \in victims[w] :
          /\ victims' = [victims EXCEPT ![w] = @ \ {d}]
          /\ \/ /\ sessions[d] # NoCtx
                /\ delKey' = [delKey EXCEPT ![w] = d]
                /\ delCtx' = [delCtx EXCEPT ![w] = sessions[d]]
                /\ Goto(w, "disconnect")
             \/ UNCHANGED <<deletion, pc>>
    BY <1>16 DEF EvictNext
  <2>2. d \in DCIDs /\ w \in Threads
    OBVIOUS
  <2>3. victims[w] \ {d} \in SUBSET DCIDs
    OBVIOUS
  <2>4. victims' \in [Workers -> SUBSET DCIDs]
    BY <2>1, <2>3
  <2>5. CASE sessions[d] # NoCtx /\ delKey' = [delKey EXCEPT ![w] = d]
             /\ delCtx' = [delCtx EXCEPT ![w] = sessions[d]] /\ Goto(w, "disconnect")
    <3>1. sessions[d] \in Ctxs
      BY <2>2, <2>5
    <3>2. /\ delKey' \in [Threads -> DCIDs \cup {NoKey}] /\ delCtx' \in [Threads -> Ctxs \cup {NoCtx}]
          /\ pc' \in [Threads -> Labels]
      BY <2>2, <2>5, <3>1
    <3>3. TypeOK'
      BY <1>16, <2>4, <3>2 DEF EvictNext
    <3>4. LocalsOK'
      BY <1>16, <2>2, <2>5, <3>1 DEF EvictNext
    <3> QED BY <3>3, <3>4
  <2>6. CASE UNCHANGED <<deletion, pc>>
    BY <1>16, <2>4, <2>6 DEF EvictNext
  <2> QED BY <2>1, <2>5, <2>6
<1>17. ASSUME NEW w \in Workers, EvictDone(w) PROVE TypeInv'
  BY <1>17 DEF EvictDone
<1>18. ASSUME NEW w \in Workers, PutSession(w) PROVE TypeInv'
  BY <1>18 DEF PutSession
<1>19. ASSUME NEW w \in Workers, RetainChain(w) PROVE TypeInv'
  <2>1. chainOf[cx[w]] \in Chains
    BY <1>19 DEF RetainChain
  <2>2. /\ chainRefs' = [chainRefs EXCEPT ![chainOf[cx[w]]] = @ + 1]
        /\ tracked' = tracked \cup {chainOf[cx[w]]}
    BY <1>19 DEF RetainChain
  <2>3. chainRefs' \in [Chains -> Nat] /\ tracked' \in SUBSET Chains
    <3> DEFINE c == chainOf[cx[w]]
    <3> HIDE DEF c
    <3>1. c \in Chains /\ chainRefs' = [chainRefs EXCEPT ![c] = @ + 1] /\ tracked' = tracked \cup {c}
      BY <2>1, <2>2 DEF c
    <3>2. chainRefs' \in [Chains -> Nat]
      BY <3>1, SMTT(30)
    <3>3. tracked' \in SUBSET Chains
      BY <3>1
    <3> QED BY <3>2, <3>3
  <2>4. pc' \in [Threads -> Labels]
    BY <1>19 DEF RetainChain
  <2>5. TypeOK'
    BY <1>19, <2>3, <2>4 DEF RetainChain
  <2>6. LocalsOK'
    BY <1>19 DEF RetainChain
  <2> QED BY <2>5, <2>6
<1>20. ASSUME NEW w \in Workers, StoreClientAddr(w) PROVE TypeInv'
  BY <1>20 DEF StoreClientAddr
<1>21. ASSUME NEW w \in Workers, SetDropSession(w) PROVE TypeInv'
  <2>1. cx[w] \in Ctxs /\ cx[w] < nextCtx
    BY <1>21 DEF SetDropSession
  <2>2. droppable' = droppable \cup {cx[w]} /\ nextCtx' = nextCtx
    BY <1>21 DEF SetDropSession
  <2>3. droppable' \in SUBSET Ctxs /\ \A c \in droppable' : c < nextCtx'
    BY <2>1, <2>2
  <2>4. /\ pc' \in [Threads -> Labels] /\ cx' \in [Workers -> Ctxs \cup {NoCtx}]
        /\ pktAddr' \in [Workers -> Addrs \cup {NoKey}]
        /\ pktCid' \in [Workers -> DCIDs \cup SCIDs \cup {NoKey}]
        /\ old' \in [Workers -> Addrs \cup {NoKey}]
    BY <1>21 DEF SetDropSession, Finish
  <2>5. TypeOK'
    BY <1>21, <2>3, <2>4 DEF SetDropSession, Finish
  <2>6. pc' = [pc EXCEPT ![w] = "idle"] /\ UNCHANGED <<nextCtx, dcidOf, delKey, delCtx, rd, rdScid>>
    BY <1>21 DEF SetDropSession, Finish
  <2>7. \A v \in Workers : v # w => cx'[v] = cx[v] /\ pktCid'[v] = pktCid[v] /\ pc'[v] = pc[v]
    BY <1>21 DEF SetDropSession, Finish
  <2>8. LocalsOK'
    BY <2>3, <2>6, <2>7
  <2> QED BY <2>5, <2>8
<1>22. ASSUME NEW w \in Workers, WorkerExit(w) PROVE TypeInv'
  BY <1>22 DEF WorkerExit
<1>23. ASSUME NEW t \in Threads, OnDisconnect(t) PROVE TypeInv'
  BY <1>23 DEF OnDisconnect
<1>24. ASSUME NEW t \in Threads, DeleteSession(t) PROVE TypeInv'
  BY <1>24 DEF DeleteSession
<1>25. ASSUME NEW t \in Threads, AlreadyDeleted(t) PROVE TypeInv'
  BY <1>25, ZenonT(60) DEF AlreadyDeleted, EndDelete
<1>26. ASSUME NEW t \in Threads, UncountSession(t) PROVE TypeInv'
  <2>1. /\ sessionCount' \in Int
        /\ pc' \in [Threads -> Labels]
    BY <1>26 DEF UncountSession
  <2>2. TypeOK'
    BY <1>26, <2>1 DEF UncountSession
  <2>3. LocalsOK'
    BY <1>26 DEF UncountSession
  <2> QED BY <2>2, <2>3
<1>27. ASSUME NEW t \in Threads, DeleteSessionAliases(t) PROVE TypeInv'
  BY <1>27 DEF DeleteSessionAliases
<1>28. ASSUME NEW t \in Threads, ReleaseChain(t) PROVE TypeInv'
  <2> DEFINE c == chainOf[delCtx[t]]
             left == IF chainRefs[c] > 0 THEN chainRefs[c] - 1 ELSE 0
  <2>1. c \in Chains
    BY <1>28 DEF ReleaseChain
  <2>2. /\ chainRefs' = chainRefs \/ chainRefs' = [chainRefs EXCEPT ![c] = left]
        /\ shutdowns' = shutdowns \/ shutdowns' = [shutdowns EXCEPT ![c] = @ + 1]
        /\ tracked' = tracked \/ tracked' = tracked \ {c}
        /\ retiredChains' = retiredChains \/ retiredChains' = retiredChains \ {c}
    BY <1>28 DEF ReleaseChain
  <2> HIDE DEF c
  <2>3. left \in Nat
    BY <2>1, SMTT(30)
  <2> HIDE DEF left
  <2>4. chainRefs' \in [Chains -> Nat]
    BY <2>1, <2>2, <2>3, UpdateNat
  <2>5. shutdowns' \in [Chains -> Nat]
    <3>1. shutdowns \in [Chains -> Nat]
      OBVIOUS
    <3>2. shutdowns' = shutdowns \/ shutdowns' = [shutdowns EXCEPT ![c] = @ + 1]
      BY <2>2
    <3> HIDE DEF TypeInv, TypeOK, LocalsOK
    <3> QED BY ONLY <2>1, <3>1, <3>2, IncrementNat
  <2>6. tracked' \in SUBSET Chains /\ retiredChains' \in SUBSET Chains
    BY <2>2, SMTT(30)
  <2>7. pc' \in [Threads -> Labels]
    BY <1>28, SMTT(30) DEF ReleaseChain
  <2>8. TypeOK'
    BY <1>28, <2>4, <2>5, <2>6, <2>7 DEF ReleaseChain
  <2>9. LocalsOK'
    BY <1>28 DEF ReleaseChain
  <2> QED BY <2>8, <2>9
<1>29. ASSUME NEW t \in Threads, DeleteClientAddr(t) PROVE TypeInv'
  BY <1>29, ZenonT(60) DEF DeleteClientAddr, EndDelete
<1>30. ASSUME NEW t \in Droppers, Drop(t) PROVE TypeInv'
  <2>1. PICK c \in droppable : droppable' = droppable \ {c} /\ BeginDelete(t, dcidOf[c], c)
    BY <1>30 DEF Drop
  <2>2. c \in Ctxs /\ dcidOf[c] \in DCIDs /\ t \in Threads /\ t \notin Workers
    OBVIOUS
  <2>3. TypeOK'
    BY <1>30, <2>1, <2>2 DEF Drop, BeginDelete
  <2>4. LocalsOK'
    BY <1>30, <2>1, <2>2, ZenonT(60) DEF Drop, BeginDelete
  <2> QED BY <2>3, <2>4
<1>31. ASSUME CleanupIdle PROVE TypeInv'
  <2>1. PICK d \in Stored : BeginDelete(Janitor, d, sessions[d])
    BY <1>31 DEF CleanupIdle, Settled
  <2>2. d \in DCIDs /\ sessions[d] \in Ctxs /\ Janitor \in Threads /\ Janitor \notin Workers
    BY DEF Stored
  <2>3. TypeOK'
    BY <1>31, <2>1, <2>2 DEF CleanupIdle, BeginDelete
  <2>4. LocalsOK'
    BY <1>31, <2>1, <2>2 DEF CleanupIdle, BeginDelete
  <2> QED BY <2>3, <2>4
<1>32. ASSUME SwapChain PROVE TypeInv'
  <2>1. /\ chain' \in Chains
        /\ unbuilt' \in SUBSET Chains
        /\ pc' \in [Threads -> Labels]
    BY <1>32, SMTT(30) DEF SwapChain
  <2>2. TypeOK'
    BY <1>32, <2>1 DEF SwapChain
  <2>3. LocalsOK'
    BY <1>32 DEF SwapChain
  <2> QED BY <2>2, <2>3
<1>33. ASSUME RegisterChain PROVE TypeInv'
  BY <1>33 DEF RegisterChain
<1>34. ASSUME RetireChain PROVE TypeInv'
  <2>1. /\ shutdowns' = shutdowns \/ shutdowns' = [shutdowns EXCEPT ![oldChain] = @ + 1]
        /\ tracked' = tracked \/ tracked' = tracked \ {oldChain}
        /\ retiredChains' = retiredChains \/ retiredChains' = retiredChains \cup {oldChain}
    BY <1>34 DEF RetireChain
  <2>2. shutdowns' \in [Chains -> Nat]
    BY <2>1, IncrementNat, SMTT(30)
  <2>3. tracked' \in SUBSET Chains /\ retiredChains' \in SUBSET Chains
    BY <2>1
  <2>4. pc' \in [Threads -> Labels]
    BY <1>34 DEF RetireChain
  <2>5. TypeOK'
    BY <1>34, <2>2, <2>3, <2>4 DEF RetireChain
  <2>6. LocalsOK'
    BY <1>34 DEF RetireChain
  <2> QED BY <2>5, <2>6
<1>35. ASSUME SetAllowConnectionMigration PROVE TypeInv'
  BY <1>35 DEF SetAllowConnectionMigration
<1>36. ASSUME BeginStop PROVE TypeInv'
  BY <1>36 DEF BeginStop
<1>37. ASSUME Drained PROVE TypeInv'
  BY <1>37 DEF Drained
<1>38. ASSUME SweepNext PROVE TypeInv'
  <2>1. PICK d \in Stored : BeginDelete(Signal, d, sessions[d])
    BY <1>38 DEF SweepNext
  <2>2. d \in DCIDs /\ sessions[d] \in Ctxs /\ Signal \in Threads /\ Signal \notin Workers
    BY DEF Stored
  <2>3. TypeOK'
    BY <1>38, <2>1, <2>2 DEF SweepNext, BeginDelete
  <2>4. LocalsOK'
    BY <1>38, <2>1, <2>2 DEF SweepNext, BeginDelete
  <2> QED BY <2>3, <2>4
<1>39. ASSUME SweepDone PROVE TypeInv'
  BY <1>39 DEF SweepDone
<1>40. ASSUME ShutdownRetiredChains PROVE TypeInv'
  <2>1. /\ shutdowns' \in [Chains -> Nat]
        /\ chainRefs' \in [Chains -> Nat]
        /\ tracked' \in SUBSET Chains
        /\ pc' \in [Threads -> Labels]
    BY <1>40, SMTT(30) DEF ShutdownRetiredChains
  <2>2. TypeOK'
    BY <1>40, <2>1 DEF ShutdownRetiredChains
  <2>3. LocalsOK'
    BY <1>40 DEF ShutdownRetiredChains
  <2> QED BY <2>2, <2>3
<1>41. ASSUME ShutdownCurrent PROVE TypeInv'
  <2>1. /\ shutdowns' \in [Chains -> Nat]
        /\ pc' \in [Threads -> Labels]
    BY <1>41 DEF ShutdownCurrent
  <2>2. TypeOK'
    BY <1>41, <2>1 DEF ShutdownCurrent
  <2>3. LocalsOK'
    BY <1>41 DEF ShutdownCurrent
  <2> QED BY <2>2, <2>3
<1>42. ASSUME NEW c \in Ctxs, NEW s \in SCIDs, ServerPacket(c, s) PROVE TypeInv'
  BY <1>42 DEF ServerPacket
<1>43. ASSUME NEW c \in Ctxs, DatagramDone(c) PROVE TypeInv'
  BY <1>43, ZenonT(60) DEF DatagramDone
<1>44. ASSUME NEW c \in Ctxs, LearnServerSCID(c) PROVE TypeInv'
  BY <1>44 DEF LearnServerSCID
<1>45. ASSUME NEW c \in Ctxs, StoreAlias(c) PROVE TypeInv'
  BY <1>45 DEF StoreAlias
<1>46. ASSUME NEW c \in Ctxs, TrackSessionAlias(c) PROVE TypeInv'
  <2>1. rdScid[c] \in SCIDs
    BY <1>46 DEF TrackSessionAlias
  <2>2. \A d \in DCIDs : sessionAliases[d] \cup {rdScid[c]} \in SUBSET SCIDs
    BY <2>1
  <2>3. sessionAliases' \in [DCIDs -> SUBSET SCIDs]
    BY <1>46, <2>2 DEF TrackSessionAlias
  <2>4. TypeOK'
    BY <1>46, <2>3 DEF TrackSessionAlias
  <2>5. LocalsOK'
    BY <1>46 DEF TrackSessionAlias
  <2> QED BY <2>4, <2>5
<1>47. CASE UNCHANGED vars
  BY <1>47 DEF vars
<1> QED
  BY <1>1, <1>2, <1>3, <1>4, <1>5, <1>6, <1>7, <1>8, <1>9, <1>10, <1>11, <1>12, <1>13, <1>14,
     <1>15, <1>16, <1>17, <1>18, <1>19, <1>20, <1>21, <1>22, <1>23, <1>24, <1>25, <1>26, <1>27,
     <1>28, <1>29, <1>30, <1>31, <1>32, <1>33, <1>34, <1>35, <1>36, <1>37, <1>38, <1>39, <1>40,
     <1>41, <1>42, <1>43, <1>44, <1>45, <1>46, <1>47
     DEF Next, PacketStep, WorkerStep, DeleteStep, StopStep, ReloadStep, ReaderStep

\* Types and label facts hold in every reachable state.
LEMMA TypeInvariant == Spec => []TypeInv
  BY TypeInit, TypeStep, PTL DEF Spec

\* Every variable keeps its type, in particular chain reference counts never
\* become negative and contexts stay within the table.
THEOREM TypeCorrect == Spec => []TypeOK
  BY TypeInvariant, PTL DEF TypeInv

-----------------------------------------------------------------------------
\* A context is marked reserved only by the worker that runs its OnConnect,
\* and no two workers run OnConnect for the same context.
ReserveOK ==
  /\ \A w \in Workers : pc[w] = "onConnect" => ~reserved[cx[w]]
  /\ \A c \in Ctxs : c >= nextCtx => ~reserved[c]
  /\ \A v, w \in Workers :
       v # w /\ pc[v] \in Reserving /\ pc[w] \in Reserving => cx[v] # cx[w]

\* Nothing is counted that is not there.
Exact == sessionCount = Cardinality(Stored) + Cardinality(SlotHolders) + Cardinality(Debtors)
\* The step keeps the counter exact, provided Store overwrites no session.
ExactKept ==
  Exact /\ (\A w \in Workers : pc[w] = "put" => pktCid[w] \notin Stored) => Exact'

\* The step leaves the counter and everything it accounts for alone.
Neutral == /\ Stored' = Stored /\ SlotHolders' = SlotHolders /\ Debtors' = Debtors
           /\ sessionCount' = sessionCount

\* A worker that leaves OnConnect without a new reservation keeps ReserveOK.
LEMMA LeaveReserving ==
  ASSUME TypeInv, ReserveOK, NEW w \in Workers,
         \A v \in Workers : v # w => cx'[v] = cx[v] /\ pc'[v] = pc[v],
         pc'[w] \notin Reserving,
         nextCtx' = nextCtx,
         \A c \in Ctxs : reserved'[c] => reserved[c]
  PROVE  ReserveOK'
<1>1. \A v \in Workers : (pc[v] = "onConnect" => ~reserved[cx[v]])'
  <2> SUFFICES ASSUME NEW v \in Workers, pc'[v] = "onConnect" PROVE ~reserved'[cx'[v]]
    OBVIOUS
  <2>1. v # w /\ cx'[v] = cx[v] /\ pc[v] = "onConnect"
    BY DEF Reserving
  <2>2. cx[v] \in Ctxs /\ ~reserved[cx[v]]
    BY <2>1 DEF TypeInv, LocalsOK, Creating, Reserving, ReserveOK
  <2> QED BY <2>1, <2>2
<1>2. \A c \in Ctxs : (c >= nextCtx => ~reserved[c])'
  BY DEF ReserveOK
<1>3. \A u, v \in Workers :
        (u # v /\ pc[u] \in Reserving /\ pc[v] \in Reserving => cx[u] # cx[v])'
  BY DEF ReserveOK
<1> QED BY <1>1, <1>2, <1>3 DEF ReserveOK

\* The three sets that sessionCount accounts for are finite.
LEMMA FiniteSlots ==
  /\ IsFiniteSet(Stored) /\ Cardinality(Stored) \in Nat
  /\ IsFiniteSet(SlotHolders) /\ Cardinality(SlotHolders) \in Nat
  /\ IsFiniteSet(Debtors) /\ Cardinality(Debtors) \in Nat
<1>1. Stored \subseteq DCIDs /\ SlotHolders \subseteq Threads /\ Debtors \subseteq Threads
  BY DEF Stored, SlotHolders, Debtors, Threads
<1>2. IsFiniteSet(Stored)
  BY <1>1, FiniteAssumption, FS_Subset
<1>3. IsFiniteSet(SlotHolders)
  BY <1>1, FiniteAssumption, FS_Subset
<1>4. IsFiniteSet(Debtors)
  BY <1>1, FiniteAssumption, FS_Subset
<1> QED BY <1>2, <1>3, <1>4, FS_CardinalityType

\* A reservation adds one to the counter and one worker to the slot holders.
LEMMA CountReserve ==
  ASSUME TypeInv, ReserveOK, SlotAccounting, NEW w \in Workers, TryReserveSessionSlot(w)
  PROVE  SlotAccounting' /\ ExactKept
<1>1. /\ pc[w] = "onConnect" /\ pc'[w] = "dial" /\ \A u \in Threads : u # w => pc'[u] = pc[u]
      /\ UNCHANGED <<sessions, cx>> /\ reserved' = [reserved EXCEPT ![cx[w]] = TRUE]
      /\ cx[w] \in Ctxs /\ w \in Threads /\ sessionCount' = sessionCount + 1
  BY DEF TryReserveSessionSlot, Goto, TypeInv, TypeOK, LocalsOK, Creating, Reserving, Threads, locals
<1>2. Stored' = Stored /\ Debtors' = Debtors /\ w \notin SlotHolders
  BY <1>1 DEF Stored, Debtors, SlotHolders, Deleting
<1>3. \A v \in Workers : v # w /\ pc[v] \in Reserving => cx[v] # cx[w] /\ cx[v] \in Ctxs
  BY <1>1 DEF ReserveOK, Reserving, TypeInv, LocalsOK, Creating
<1>4. reserved'[cx[w]] /\ \A c \in Ctxs : c # cx[w] => reserved'[c] = reserved[c]
  BY <1>1 DEF TypeInv, TypeOK
<1>5. SlotHolders' = SlotHolders \cup {w}
  BY <1>1, <1>3, <1>4 DEF SlotHolders, Threads, Reserving, Deleting
<1>6. Cardinality(SlotHolders') = Cardinality(SlotHolders) + 1
  BY <1>2, <1>5, FiniteSlots, FS_AddElement
<1>7. sessionCount \in Int
  BY DEF TypeInv, TypeOK
<1> QED BY <1>1, <1>2, <1>6, <1>7, FiniteSlots DEF SlotAccounting, Exact, ExactKept

\* A dropped connection gives back exactly the slot it had reserved.
LEMMA CountRelease ==
  ASSUME TypeInv, ReserveOK, SlotAccounting, NEW w \in Workers, ReleaseReservedSessionSlot(w)
  PROVE  SlotAccounting' /\ ExactKept
<1>1. /\ pc[w] = "dial" /\ pc'[w] = "idle" /\ \A u \in Threads : u # w => pc'[u] = pc[u]
      /\ \A v \in Workers : v # w => cx'[v] = cx[v]
      /\ sessions' = sessions /\ reserved' = [reserved EXCEPT ![cx[w]] = FALSE]
      /\ cx[w] \in Ctxs /\ w \in Threads
      /\ sessionCount' = IF reserved[cx[w]] THEN sessionCount - 1 ELSE sessionCount
  BY DEF ReleaseReservedSessionSlot, Finish, Goto, TypeInv, TypeOK, LocalsOK, Creating, Reserving,
         Threads
<1>2. Stored' = Stored /\ Debtors' = Debtors
  BY <1>1 DEF Stored, Debtors
<1>3. \A v \in Workers : v # w /\ pc[v] \in Reserving => cx[v] # cx[w] /\ cx[v] \in Ctxs
  BY <1>1 DEF ReserveOK, Reserving, TypeInv, LocalsOK, Creating
<1>4. \A c \in Ctxs : c # cx[w] => reserved'[c] = reserved[c]
  BY <1>1 DEF TypeInv, TypeOK
<1>5. SlotHolders' = SlotHolders \ {w} /\ (w \in SlotHolders <=> reserved[cx[w]])
  BY <1>1, <1>3, <1>4 DEF SlotHolders, Threads, Reserving, Deleting
<1>6. Cardinality(SlotHolders') = IF reserved[cx[w]] THEN Cardinality(SlotHolders) - 1
                                  ELSE Cardinality(SlotHolders)
  BY <1>5, FiniteSlots, FS_RemoveElement
<1>7. sessionCount \in Int
  BY DEF TypeInv, TypeOK
<1> QED BY <1>1, <1>2, <1>6, <1>7, FiniteSlots DEF SlotAccounting, Exact, ExactKept

\* storeSession counts the session unless OnConnect already reserved its slot.
LEMMA CountStore ==
  ASSUME TypeInv, ReserveOK, SlotAccounting, NEW w \in Workers, StoreSession(w)
  PROVE  SlotAccounting' /\ ExactKept
<1>1. /\ pc[w] = "store" /\ pc'[w] \in {"collect", "put"} /\ \A u \in Threads : u # w => pc'[u] = pc[u]
      /\ UNCHANGED <<sessions, cx, reserved>> /\ w \in Threads
      /\ sessionCount' = IF reserved[cx[w]] THEN sessionCount ELSE sessionCount + 1
  BY DEF StoreSession, Goto, TypeInv, TypeOK, Threads, contexts
<1>2. Stored' = Stored /\ Debtors' = Debtors
  BY <1>1 DEF Stored, Debtors
<1>3. SlotHolders' = SlotHolders \cup {w} /\ (w \in SlotHolders <=> reserved[cx[w]])
  BY <1>1 DEF SlotHolders, Threads, Deleting
<1>4. Cardinality(SlotHolders') = IF reserved[cx[w]] THEN Cardinality(SlotHolders)
                                  ELSE Cardinality(SlotHolders) + 1
  BY <1>3, FiniteSlots, FS_AddElement
<1>5. sessionCount \in Int
  BY DEF TypeInv, TypeOK
<1> QED BY <1>1, <1>2, <1>4, <1>5, FiniteSlots DEF SlotAccounting, Exact, ExactKept

\* sessions.Store turns a slot into at most one more stored session.
LEMMA CountPut ==
  ASSUME TypeInv, SlotAccounting, NEW w \in Workers, PutSession(w)
  PROVE  SlotAccounting' /\ ExactKept
<1>1. /\ pc[w] = "put" /\ pc'[w] = "retain" /\ \A u \in Threads : u # w => pc'[u] = pc[u]
      /\ UNCHANGED <<cx, reserved, sessionCount>> /\ w \in Threads
      /\ sessions' = [sessions EXCEPT ![pktCid[w]] = cx[w]]
      /\ cx[w] \in Ctxs /\ pktCid[w] \in DCIDs
  BY DEF PutSession, Goto, TypeInv, TypeOK, LocalsOK, Creating, Threads, contexts, locals
<1>2. Debtors' = Debtors
  BY <1>1 DEF Debtors
<1>3. Stored' = Stored \cup {pktCid[w]}
  BY <1>1 DEF Stored, TypeInv, TypeOK, Ctxs, NoCtx
<1>4. SlotHolders' = SlotHolders \ {w} /\ w \in SlotHolders
  BY <1>1 DEF SlotHolders, Threads, Deleting
<1>5. Cardinality(SlotHolders') = Cardinality(SlotHolders) - 1
  BY <1>4, FiniteSlots, FS_RemoveElement
<1>6. Cardinality(Stored') = IF pktCid[w] \in Stored THEN Cardinality(Stored)
                             ELSE Cardinality(Stored) + 1
  BY <1>3, FiniteSlots, FS_AddElement
<1>7. sessionCount \in Int
  BY DEF TypeInv, TypeOK
<1> QED BY <1>1, <1>2, <1>5, <1>6, <1>7, FiniteSlots DEF SlotAccounting, Exact, ExactKept

\* LoadAndDelete moves a session from the table to the debts.
LEMMA CountDelete ==
  ASSUME TypeInv, SlotAccounting, NEW t \in Threads, DeleteSession(t)
  PROVE  SlotAccounting' /\ ExactKept
<1>1. /\ pc[t] = "remove" /\ pc'[t] = "uncount" /\ \A u \in Threads : u # t => pc'[u] = pc[u]
      /\ UNCHANGED <<cx, reserved, sessionCount>>
      /\ sessions' = [sessions EXCEPT ![delKey[t]] = NoCtx]
      /\ sessions[delKey[t]] # NoCtx /\ delKey[t] \in DCIDs
  BY DEF DeleteSession, Goto, TypeInv, TypeOK, LocalsOK, Deleting, contexts, locals
<1>2. Stored' = Stored \ {delKey[t]} /\ delKey[t] \in Stored
  BY <1>1 DEF Stored, TypeInv, TypeOK
<1>3. Debtors' = Debtors \cup {t} /\ t \notin Debtors
  BY <1>1 DEF Debtors
<1>4. SlotHolders' = SlotHolders
  BY <1>1 DEF SlotHolders, Threads, Deleting
<1>5. /\ Cardinality(Stored') = Cardinality(Stored) - 1
      /\ Cardinality(Debtors') = Cardinality(Debtors) + 1
  BY <1>2, <1>3, FiniteSlots, FS_AddElement, FS_RemoveElement
<1>6. sessionCount \in Int
  BY DEF TypeInv, TypeOK
<1> QED BY <1>1, <1>4, <1>5, <1>6, FiniteSlots DEF SlotAccounting, Exact, ExactKept

\* Add(-1) settles one debt.
LEMMA CountUncount ==
  ASSUME TypeInv, SlotAccounting, NEW t \in Threads, UncountSession(t)
  PROVE  SlotAccounting' /\ ExactKept
<1>1. /\ pc[t] = "uncount" /\ pc'[t] = "unalias" /\ \A u \in Threads : u # t => pc'[u] = pc[u]
      /\ UNCHANGED <<cx, reserved, sessions>> /\ sessionCount' = sessionCount - 1
  BY DEF UncountSession, Goto, TypeInv, TypeOK, contexts, locals
<1>2. Stored' = Stored
  BY <1>1 DEF Stored
<1>3. Debtors' = Debtors \ {t} /\ t \in Debtors
  BY <1>1 DEF Debtors
<1>4. SlotHolders' = SlotHolders
  BY <1>1 DEF SlotHolders, Threads, Deleting
<1>5. Cardinality(Debtors') = Cardinality(Debtors) - 1
  BY <1>3, FiniteSlots, FS_RemoveElement
<1>6. sessionCount \in Int
  BY DEF TypeInv, TypeOK
<1> QED BY <1>1, <1>2, <1>4, <1>5, <1>6, FiniteSlots DEF SlotAccounting, Exact, ExactKept

\* The counter's inductive invariant.
SlotInv == ReserveOK /\ SlotAccounting

\* Initially no slot is taken and no session stored.
LEMMA SlotInit == Init => SlotInv
<1> SUFFICES ASSUME Init PROVE SlotInv
  OBVIOUS
<1>1. Stored = {} /\ SlotHolders = {} /\ Debtors = {}
  BY ThreadAssumption DEF Init, Stored, SlotHolders, Debtors, Threads, Deleting
<1>2. ReserveOK
  BY ThreadAssumption DEF Init, ReserveOK, Threads, Reserving
<1> QED BY <1>1, <1>2, FS_EmptySet DEF SlotInv, SlotAccounting, Init

\* The slot invariant is inductive, one step per action.
LEMMA SlotStep == TypeInv /\ SlotInv /\ [Next]_vars => SlotInv' /\ ExactKept
<1> SUFFICES ASSUME TypeInv, SlotInv, [Next]_vars PROVE SlotInv' /\ ExactKept
  OBVIOUS
<1> ReserveOK /\ SlotAccounting
  BY DEF SlotInv
<1> USE ThreadAssumption, ConstAssumption
    DEF TypeInv, TypeOK, LocalsOK, ReserveOK, table, aliases, chains, created, contexts, packet, locals,
        deletion, readers, NoCtx, Ctxs, Threads, Goto, Labels, Deleting, Stopping, Binding,
        Reserving, Creating
<1>1. ASSUME NEW w \in Workers, NEW a \in Addrs, NEW k \in DCIDs \cup SCIDs \cup {NoKey}, ReceivePacket(w, a, k) PROVE SlotInv' /\ ExactKept
  <2>1. Neutral
    BY <1>1 DEF ReceivePacket, FindSession, Stored, SlotHolders, Debtors, Neutral
  <2>2. ReserveOK'
    BY <1>1, ZenonT(60) DEF ReceivePacket, FindSession
  <2> QED BY <2>1, <2>2 DEF SlotInv, SlotAccounting, Exact, ExactKept, Neutral
<1>2. ASSUME NEW w \in Workers, NEW a \in Addrs, NEW d \in DCIDs, ReceiveInitial(w, a, d) PROVE SlotInv' /\ ExactKept
  <2>1. Neutral
    BY <1>2, ZenonT(60) DEF ReceiveInitial, Stored, SlotHolders, Debtors, Neutral
  <2>2. ReserveOK'
    BY <1>2, SMTT(30) DEF ReceiveInitial
  <2> QED BY <2>1, <2>2 DEF SlotInv, SlotAccounting, Exact, ExactKept, Neutral
<1>3. ASSUME NEW w \in Workers, CheckAddr(w) PROVE SlotInv' /\ ExactKept
  <2>1. Neutral
    BY <1>3 DEF CheckAddr, Finish, Stored, SlotHolders, Debtors, Neutral
  <2>2. ReserveOK'
    <3>1. /\ \A v \in Workers : v # w => cx'[v] = cx[v] /\ pc'[v] = pc[v]
          /\ pc'[w] = "idle" /\ UNCHANGED <<reserved, nextCtx>>
      BY <1>3 DEF CheckAddr, Finish
    <3> QED BY <3>1, LeaveReserving
  <2> QED BY <2>1, <2>2 DEF SlotInv, SlotAccounting, Exact, ExactKept, Neutral
<1>4. ASSUME NEW w \in Workers, BeginMigration(w) PROVE SlotInv' /\ ExactKept
  <2>1. Neutral
    BY <1>4 DEF BeginMigration, Stored, SlotHolders, Debtors, Neutral
  <2>2. ReserveOK'
    BY <1>4 DEF BeginMigration
  <2> QED BY <2>1, <2>2 DEF SlotInv, SlotAccounting, Exact, ExactKept, Neutral
<1>5. ASSUME NEW w \in Workers, SetClientAddr(w) PROVE SlotInv' /\ ExactKept
  <2>1. Neutral
    BY <1>5 DEF SetClientAddr, Stored, SlotHolders, Debtors, Neutral
  <2>2. ReserveOK'
    BY <1>5 DEF SetClientAddr
  <2> QED BY <2>1, <2>2 DEF SlotInv, SlotAccounting, Exact, ExactKept, Neutral
<1>6. ASSUME NEW w \in Workers, DeleteOldAddr(w) PROVE SlotInv' /\ ExactKept
  <2>1. Neutral
    BY <1>6 DEF DeleteOldAddr, Stored, SlotHolders, Debtors, Neutral
  <2>2. ReserveOK'
    BY <1>6 DEF DeleteOldAddr
  <2> QED BY <2>1, <2>2 DEF SlotInv, SlotAccounting, Exact, ExactKept, Neutral
<1>7. ASSUME NEW w \in Workers, StoreNewAddr(w) PROVE SlotInv' /\ ExactKept
  <2>1. Neutral
    BY <1>7 DEF StoreNewAddr, Finish, Stored, SlotHolders, Debtors, Neutral
  <2>2. ReserveOK'
    <3>1. /\ \A v \in Workers : v # w => cx'[v] = cx[v] /\ pc'[v] = pc[v]
          /\ pc'[w] = "idle" /\ UNCHANGED <<reserved, nextCtx>>
      BY <1>7 DEF StoreNewAddr, Finish
    <3> QED BY <3>1, LeaveReserving
  <2> QED BY <2>1, <2>2 DEF SlotInv, SlotAccounting, Exact, ExactKept, Neutral
<1>8. ASSUME NEW w \in Workers, NewContext(w) PROVE SlotInv' /\ ExactKept
  <2>1. Neutral
    BY <1>8 DEF NewContext, Stored, SlotHolders, Debtors, Neutral
  <2>2. ReserveOK'
    <3>1. /\ \A v \in Workers : v # w => cx'[v] = cx[v] /\ pc'[v] = pc[v]
          /\ pc'[w] = "onConnect" /\ cx'[w] = nextCtx
          /\ nextCtx' = nextCtx + 1 /\ nextCtx \in Ctxs /\ reserved' = reserved
      BY <1>8 DEF NewContext
    <3>2. ~reserved[nextCtx]
      <4>1. nextCtx >= nextCtx
        OBVIOUS
      <4> QED BY <3>1, <4>1
    <3>3. \A v \in Workers : (pc[v] = "onConnect" => ~reserved[cx[v]])'
      BY <3>1, <3>2
    <3>4. \A c \in Ctxs : (c >= nextCtx => ~reserved[c])'
      BY <3>1
    <3>5. \A v \in Workers : v # w /\ pc[v] \in Reserving => cx[v] < nextCtx /\ cx[v] \in Int
      OBVIOUS
    <3>6. \A v \in Workers : v # w /\ pc[v] \in Reserving => cx[v] # nextCtx
      BY <3>5, SMTT(30)
    <3>7. \A u, v \in Workers :
            (u # v /\ pc[u] \in Reserving /\ pc[v] \in Reserving => cx[u] # cx[v])'
      <4> SUFFICES ASSUME NEW u \in Workers, NEW v \in Workers, u # v,
                          pc'[u] \in Reserving, pc'[v] \in Reserving
                   PROVE  cx'[u] # cx'[v]
        OBVIOUS
      <4>1. CASE u = w
        BY ONLY <3>1, <3>6, <4>1, u # v, v \in Workers, pc'[v] \in Reserving
      <4>2. CASE v = w
        BY ONLY <3>1, <3>6, <4>2, u # v, u \in Workers, pc'[u] \in Reserving
      <4>3. CASE u # w /\ v # w
        BY <3>1, <4>3, SMTT(30), ZenonT(60)
      <4> QED BY <4>1, <4>2, <4>3
    <3> QED BY <3>3, <3>4, <3>7
  <2> QED BY <2>1, <2>2 DEF SlotInv, SlotAccounting, Exact, ExactKept, Neutral
<1>9. ASSUME NEW w \in Workers, TryReserveSessionSlot(w) PROVE SlotInv' /\ ExactKept
  <2>1. SlotAccounting' /\ ExactKept
    BY <1>9, CountReserve DEF SlotInv
  <2>2. ReserveOK'
    <3>1. /\ \A v \in Workers : v # w => pc'[v] = pc[v]
          /\ pc[w] = "onConnect" /\ pc'[w] = "dial" /\ nextCtx' = nextCtx /\ cx' = cx
          /\ reserved' = [reserved EXCEPT ![cx[w]] = TRUE]
      BY <1>9 DEF TryReserveSessionSlot
    <3>2. \A v \in Workers : (pc[v] = "onConnect" => ~reserved[cx[v]])'
      <4> SUFFICES ASSUME NEW v \in Workers, pc'[v] = "onConnect" PROVE ~reserved'[cx'[v]]
        OBVIOUS
      <4>1. v # w /\ pc[v] = "onConnect"
        BY <3>1
      <4>2. cx[v] # cx[w] /\ cx[v] \in Ctxs /\ ~reserved[cx[v]]
        BY <3>1, <4>1
      <4> QED BY <3>1, <4>2
    <3>3. cx[w] < nextCtx /\ cx[w] \in Int /\ nextCtx \in Int
      BY <3>1
    <3>4. \A c \in Ctxs : (c >= nextCtx => ~reserved[c])'
      <4> SUFFICES ASSUME NEW c \in Ctxs, c >= nextCtx PROVE ~reserved'[c]
        BY <3>1
      <4>1. c # cx[w] /\ ~reserved[c]
        BY <3>3, SMTT(30)
      <4> QED BY <3>1, <4>1
    <3>5. \A u, v \in Workers :
            (u # v /\ pc[u] \in Reserving /\ pc[v] \in Reserving => cx[u] # cx[v])'
      BY <3>1, ZenonT(60)
    <3> QED BY <3>2, <3>4, <3>5
  <2> QED BY <2>1, <2>2 DEF SlotInv
<1>10. ASSUME NEW w \in Workers, LimitReached(w) PROVE SlotInv' /\ ExactKept
  <2>1. Neutral
    BY <1>10 DEF LimitReached, Finish, Stored, SlotHolders, Debtors, Neutral
  <2>2. ReserveOK'
    <3>1. /\ \A v \in Workers : v # w => cx'[v] = cx[v] /\ pc'[v] = pc[v]
          /\ pc'[w] = "idle" /\ UNCHANGED <<reserved, nextCtx>>
      BY <1>10 DEF LimitReached, Finish
    <3> QED BY <3>1, LeaveReserving
  <2> QED BY <2>1, <2>2 DEF SlotInv, SlotAccounting, Exact, ExactKept, Neutral
<1>11. ASSUME NEW w \in Workers, NoLimiter(w) PROVE SlotInv' /\ ExactKept
  <2>1. Neutral
    BY <1>11 DEF NoLimiter, Stored, SlotHolders, Debtors, Neutral
  <2>2. ReserveOK'
    BY <1>11, ZenonT(60) DEF NoLimiter
  <2> QED BY <2>1, <2>2 DEF SlotInv, SlotAccounting, Exact, ExactKept, Neutral
<1>12. ASSUME NEW w \in Workers, Dial(w) PROVE SlotInv' /\ ExactKept
  <2>1. Neutral
    BY <1>12, ZenonT(60) DEF Dial, Stored, SlotHolders, Debtors, Neutral
  <2>2. ReserveOK'
    BY <1>12, ZenonT(60) DEF Dial
  <2> QED BY <2>1, <2>2 DEF SlotInv, SlotAccounting, Exact, ExactKept, Neutral
<1>13. ASSUME NEW w \in Workers, ReleaseReservedSessionSlot(w) PROVE SlotInv' /\ ExactKept
  <2>1. SlotAccounting' /\ ExactKept
    BY <1>13, CountRelease DEF SlotInv
  <2>2. ReserveOK'
    <3>1. /\ \A v \in Workers : v # w => cx'[v] = cx[v] /\ pc'[v] = pc[v]
          /\ pc'[w] = "idle" /\ nextCtx' = nextCtx
          /\ reserved' = [reserved EXCEPT ![cx[w]] = FALSE]
      BY <1>13 DEF ReleaseReservedSessionSlot, Finish
    <3>2. \A c \in Ctxs : reserved'[c] => reserved[c]
      BY <3>1
    <3> QED BY <3>1, <3>2, LeaveReserving
  <2> QED BY <2>1, <2>2 DEF SlotInv
<1>14. ASSUME NEW w \in Workers, StoreSession(w) PROVE SlotInv' /\ ExactKept
  <2>1. SlotAccounting' /\ ExactKept
    BY <1>14, CountStore DEF SlotInv
  <2>2. ReserveOK'
    <3>1. /\ \A v \in Workers : v # w => pc'[v] = pc[v]
          /\ pc'[w] \in {"collect", "put"} /\ UNCHANGED <<cx, reserved, nextCtx>>
      BY <1>14 DEF StoreSession
    <3> QED BY <3>1, LeaveReserving
  <2> QED BY <2>1, <2>2 DEF SlotInv
<1>15. ASSUME NEW w \in Workers, CollectOldest(w) PROVE SlotInv' /\ ExactKept
  <2>1. Neutral
    BY <1>15, ZenonT(60) DEF CollectOldest, Settled, Stored, SlotHolders, Debtors, Neutral
  <2>2. ReserveOK'
    BY <1>15 DEF CollectOldest, Settled, Stored
  <2> QED BY <2>1, <2>2 DEF SlotInv, SlotAccounting, Exact, ExactKept, Neutral
<1>16. ASSUME NEW w \in Workers, EvictNext(w) PROVE SlotInv' /\ ExactKept
  <2>1. Neutral
    <3>1. /\ pc[w] = "evict" /\ pc'[w] \in {"evict", "disconnect"}
          /\ \A u \in Threads : u # w => pc'[u] = pc[u]
          /\ UNCHANGED <<sessions, sessionCount, cx, reserved>>
      BY <1>16 DEF EvictNext
    <3>2. Stored' = Stored
      BY <3>1 DEF Stored
    <3>3. SlotHolders' = SlotHolders
      BY <3>1 DEF SlotHolders
    <3>4. Debtors' = Debtors
      BY <3>1 DEF Debtors
    <3> QED BY <3>1, <3>2, <3>3, <3>4 DEF Neutral
  <2>2. ReserveOK'
    BY <1>16, ZenonT(60) DEF EvictNext
  <2> QED BY <2>1, <2>2 DEF SlotInv, SlotAccounting, Exact, ExactKept, Neutral
<1>17. ASSUME NEW w \in Workers, EvictDone(w) PROVE SlotInv' /\ ExactKept
  <2>1. Neutral
    BY <1>17, ZenonT(60) DEF EvictDone, Stored, SlotHolders, Debtors, Neutral
  <2>2. ReserveOK'
    BY <1>17 DEF EvictDone
  <2> QED BY <2>1, <2>2 DEF SlotInv, SlotAccounting, Exact, ExactKept, Neutral
<1>18. ASSUME NEW w \in Workers, PutSession(w) PROVE SlotInv' /\ ExactKept
  <2>1. SlotAccounting' /\ ExactKept
    BY <1>18, CountPut DEF SlotInv
  <2>2. ReserveOK'
    BY <1>18 DEF PutSession
  <2> QED BY <2>1, <2>2 DEF SlotInv
<1>19. ASSUME NEW w \in Workers, RetainChain(w) PROVE SlotInv' /\ ExactKept
  <2>1. Neutral
    BY <1>19 DEF RetainChain, Stored, SlotHolders, Debtors, Neutral
  <2>2. ReserveOK'
    BY <1>19 DEF RetainChain
  <2> QED BY <2>1, <2>2 DEF SlotInv, SlotAccounting, Exact, ExactKept, Neutral
<1>20. ASSUME NEW w \in Workers, StoreClientAddr(w) PROVE SlotInv' /\ ExactKept
  <2>1. Neutral
    BY <1>20 DEF StoreClientAddr, Stored, SlotHolders, Debtors, Neutral
  <2>2. ReserveOK'
    BY <1>20 DEF StoreClientAddr
  <2> QED BY <2>1, <2>2 DEF SlotInv, SlotAccounting, Exact, ExactKept, Neutral
<1>21. ASSUME NEW w \in Workers, SetDropSession(w) PROVE SlotInv' /\ ExactKept
  <2>1. Neutral
    BY <1>21 DEF SetDropSession, Finish, Stored, SlotHolders, Debtors, Neutral
  <2>2. ReserveOK'
    <3>1. /\ \A v \in Workers : v # w => cx'[v] = cx[v] /\ pc'[v] = pc[v]
          /\ pc'[w] = "idle" /\ UNCHANGED <<reserved, nextCtx>>
      BY <1>21 DEF SetDropSession, Finish
    <3> QED BY <3>1, LeaveReserving
  <2> QED BY <2>1, <2>2 DEF SlotInv, SlotAccounting, Exact, ExactKept, Neutral
<1>22. ASSUME NEW w \in Workers, WorkerExit(w) PROVE SlotInv' /\ ExactKept
  <2>1. Neutral
    BY <1>22 DEF WorkerExit, Stored, SlotHolders, Debtors, Neutral
  <2>2. ReserveOK'
    BY <1>22, SMTT(30) DEF WorkerExit
  <2> QED BY <2>1, <2>2 DEF SlotInv, SlotAccounting, Exact, ExactKept, Neutral
<1>23. ASSUME NEW t \in Threads, OnDisconnect(t) PROVE SlotInv' /\ ExactKept
  <2>1. Neutral
    BY <1>23 DEF OnDisconnect, Stored, SlotHolders, Debtors, Neutral
  <2>2. ReserveOK'
    BY <1>23 DEF OnDisconnect
  <2> QED BY <2>1, <2>2 DEF SlotInv, SlotAccounting, Exact, ExactKept, Neutral
<1>24. ASSUME NEW t \in Threads, DeleteSession(t) PROVE SlotInv' /\ ExactKept
  <2>1. SlotAccounting' /\ ExactKept
    BY <1>24, CountDelete DEF SlotInv
  <2>2. ReserveOK'
    BY <1>24 DEF DeleteSession
  <2> QED BY <2>1, <2>2 DEF SlotInv
<1>25. ASSUME NEW t \in Threads, AlreadyDeleted(t) PROVE SlotInv' /\ ExactKept
  <2>1. Neutral
    <3>1. /\ pc[t] = "remove" /\ \A u \in Threads : u # t => pc'[u] = pc[u]
          /\ pc'[t] \in {"evict", "sweep", "idle"} /\ (t \in Workers => pc'[t] = "evict")
          /\ UNCHANGED <<sessions, sessionCount, cx, reserved>>
      BY <1>25 DEF AlreadyDeleted, EndDelete
    <3>2. Stored' = Stored
      BY <3>1 DEF Stored
    <3>3. \A v \in Workers : v # t => pc'[v] = pc[v]
      BY <3>1
    <3>4. SlotHolders' = SlotHolders
      BY ONLY <3>1, <3>3 DEF SlotHolders, Deleting
    <3>5. Debtors' = Debtors
      BY <3>1 DEF Debtors
    <3> QED BY <3>1, <3>2, <3>4, <3>5 DEF Neutral
  <2>2. ReserveOK'
    BY <1>25 DEF AlreadyDeleted, EndDelete
  <2> QED BY <2>1, <2>2 DEF SlotInv, SlotAccounting, Exact, ExactKept, Neutral
<1>26. ASSUME NEW t \in Threads, UncountSession(t) PROVE SlotInv' /\ ExactKept
  <2>1. SlotAccounting' /\ ExactKept
    BY <1>26, CountUncount DEF SlotInv
  <2>2. ReserveOK'
    BY <1>26 DEF UncountSession
  <2> QED BY <2>1, <2>2 DEF SlotInv
<1>27. ASSUME NEW t \in Threads, DeleteSessionAliases(t) PROVE SlotInv' /\ ExactKept
  <2>1. Neutral
    BY <1>27 DEF DeleteSessionAliases, Stored, SlotHolders, Debtors, Neutral
  <2>2. ReserveOK'
    BY <1>27 DEF DeleteSessionAliases
  <2> QED BY <2>1, <2>2 DEF SlotInv, SlotAccounting, Exact, ExactKept, Neutral
<1>28. ASSUME NEW t \in Threads, ReleaseChain(t) PROVE SlotInv' /\ ExactKept
  <2>1. Neutral
    BY <1>28 DEF ReleaseChain, Stored, SlotHolders, Debtors, Neutral
  <2>2. ReserveOK'
    BY <1>28 DEF ReleaseChain
  <2> QED BY <2>1, <2>2 DEF SlotInv, SlotAccounting, Exact, ExactKept, Neutral
<1>29. ASSUME NEW t \in Threads, DeleteClientAddr(t) PROVE SlotInv' /\ ExactKept
  <2>1. Neutral
    <3>1. /\ pc[t] = "unmap" /\ \A u \in Threads : u # t => pc'[u] = pc[u]
          /\ pc'[t] \in {"evict", "sweep", "idle"} /\ (t \in Workers => pc'[t] = "evict")
          /\ UNCHANGED <<sessions, sessionCount, cx, reserved>>
      BY <1>29 DEF DeleteClientAddr, EndDelete
    <3>2. Stored' = Stored
      BY <3>1 DEF Stored
    <3>3. \A v \in Workers : v # t => pc'[v] = pc[v]
      BY <3>1
    <3>4. SlotHolders' = SlotHolders
      BY ONLY <3>1, <3>3 DEF SlotHolders, Deleting
    <3>5. Debtors' = Debtors
      BY <3>1 DEF Debtors
    <3> QED BY <3>1, <3>2, <3>4, <3>5 DEF Neutral
  <2>2. ReserveOK'
    BY <1>29 DEF DeleteClientAddr, EndDelete
  <2> QED BY <2>1, <2>2 DEF SlotInv, SlotAccounting, Exact, ExactKept, Neutral
<1>30. ASSUME NEW t \in Droppers, Drop(t) PROVE SlotInv' /\ ExactKept
  <2>1. Neutral
    <3>1. /\ t \in Threads \ Workers /\ pc[t] = "idle" /\ pc'[t] = "disconnect"
          /\ \A u \in Threads : u # t => pc'[u] = pc[u]
          /\ UNCHANGED <<sessions, sessionCount, cx, reserved>>
      BY <1>30 DEF Drop, BeginDelete
    <3>2. Stored' = Stored
      BY <3>1 DEF Stored
    <3>3. \A v \in Workers : pc'[v] = pc[v]
      BY <3>1
    <3>4. SlotHolders' = SlotHolders
      BY ONLY <3>1, <3>3 DEF SlotHolders, Deleting
    <3>5. Debtors' = Debtors
      BY <3>1 DEF Debtors
    <3> QED BY <3>1, <3>2, <3>4, <3>5 DEF Neutral
  <2>2. ReserveOK'
    BY <1>30, ZenonT(60) DEF Drop, BeginDelete
  <2> QED BY <2>1, <2>2 DEF SlotInv, SlotAccounting, Exact, ExactKept, Neutral
<1>31. ASSUME CleanupIdle PROVE SlotInv' /\ ExactKept
  <2>1. Neutral
    <3>1. /\ Janitor \in Threads \ Workers /\ pc[Janitor] = "idle" /\ pc'[Janitor] = "disconnect"
          /\ \A u \in Threads : u # Janitor => pc'[u] = pc[u]
          /\ UNCHANGED <<sessions, sessionCount, cx, reserved>>
      BY <1>31 DEF CleanupIdle, BeginDelete, Settled
    <3>2. Stored' = Stored
      BY <3>1 DEF Stored
    <3>3. \A v \in Workers : pc'[v] = pc[v]
      BY <3>1
    <3>4. SlotHolders' = SlotHolders
      BY ONLY <3>1, <3>3 DEF SlotHolders, Deleting
    <3>5. Debtors' = Debtors
      BY <3>1 DEF Debtors
    <3> QED BY <3>1, <3>2, <3>4, <3>5 DEF Neutral
  <2>2. ReserveOK'
    BY <1>31, ZenonT(60) DEF CleanupIdle, BeginDelete, Settled, Stored
  <2> QED BY <2>1, <2>2 DEF SlotInv, SlotAccounting, Exact, ExactKept, Neutral
<1>32. ASSUME SwapChain PROVE SlotInv' /\ ExactKept
  <2>1. Neutral
    BY <1>32 DEF SwapChain, Stored, SlotHolders, Debtors, Neutral
  <2>2. ReserveOK'
    BY <1>32 DEF SwapChain
  <2> QED BY <2>1, <2>2 DEF SlotInv, SlotAccounting, Exact, ExactKept, Neutral
<1>33. ASSUME RegisterChain PROVE SlotInv' /\ ExactKept
  <2>1. Neutral
    BY <1>33 DEF RegisterChain, Stored, SlotHolders, Debtors, Neutral
  <2>2. ReserveOK'
    BY <1>33 DEF RegisterChain
  <2> QED BY <2>1, <2>2 DEF SlotInv, SlotAccounting, Exact, ExactKept, Neutral
<1>34. ASSUME RetireChain PROVE SlotInv' /\ ExactKept
  <2>1. Neutral
    BY <1>34 DEF RetireChain, Stored, SlotHolders, Debtors, Neutral
  <2>2. ReserveOK'
    BY <1>34, SMTT(30) DEF RetireChain
  <2> QED BY <2>1, <2>2 DEF SlotInv, SlotAccounting, Exact, ExactKept, Neutral
<1>35. ASSUME SetAllowConnectionMigration PROVE SlotInv' /\ ExactKept
  <2>1. Neutral
    BY <1>35 DEF SetAllowConnectionMigration, Stored, SlotHolders, Debtors, Neutral
  <2>2. ReserveOK'
    BY <1>35, SMTT(30) DEF SetAllowConnectionMigration
  <2> QED BY <2>1, <2>2 DEF SlotInv, SlotAccounting, Exact, ExactKept, Neutral
<1>36. ASSUME BeginStop PROVE SlotInv' /\ ExactKept
  <2>1. Neutral
    BY <1>36 DEF BeginStop, Stored, SlotHolders, Debtors, Neutral
  <2>2. ReserveOK'
    BY <1>36 DEF BeginStop
  <2> QED BY <2>1, <2>2 DEF SlotInv, SlotAccounting, Exact, ExactKept, Neutral
<1>37. ASSUME Drained PROVE SlotInv' /\ ExactKept
  <2>1. Neutral
    BY <1>37 DEF Drained, Stored, SlotHolders, Debtors, Neutral
  <2>2. ReserveOK'
    BY <1>37 DEF Drained
  <2> QED BY <2>1, <2>2 DEF SlotInv, SlotAccounting, Exact, ExactKept, Neutral
<1>38. ASSUME SweepNext PROVE SlotInv' /\ ExactKept
  <2>1. Neutral
    <3>1. /\ Signal \in Threads \ Workers /\ pc[Signal] = "sweep" /\ pc'[Signal] = "disconnect"
          /\ \A u \in Threads : u # Signal => pc'[u] = pc[u]
          /\ UNCHANGED <<sessions, sessionCount, cx, reserved>>
      BY <1>38 DEF SweepNext, BeginDelete
    <3>2. Stored' = Stored
      BY <3>1 DEF Stored
    <3>3. \A v \in Workers : pc'[v] = pc[v]
      BY <3>1
    <3>4. SlotHolders' = SlotHolders
      BY ONLY <3>1, <3>3 DEF SlotHolders, Deleting
    <3>5. Debtors' = Debtors
      BY <3>1 DEF Debtors
    <3> QED BY <3>1, <3>2, <3>4, <3>5 DEF Neutral
  <2>2. ReserveOK'
    BY <1>38, ZenonT(60) DEF SweepNext, BeginDelete, Stored
  <2> QED BY <2>1, <2>2 DEF SlotInv, SlotAccounting, Exact, ExactKept, Neutral
<1>39. ASSUME SweepDone PROVE SlotInv' /\ ExactKept
  <2>1. Neutral
    BY <1>39 DEF SweepDone, Stored, SlotHolders, Debtors, Neutral
  <2>2. ReserveOK'
    BY <1>39 DEF SweepDone
  <2> QED BY <2>1, <2>2 DEF SlotInv, SlotAccounting, Exact, ExactKept, Neutral
<1>40. ASSUME ShutdownRetiredChains PROVE SlotInv' /\ ExactKept
  <2>1. Neutral
    BY <1>40 DEF ShutdownRetiredChains, Stored, SlotHolders, Debtors, Neutral
  <2>2. ReserveOK'
    BY <1>40, SMTT(30) DEF ShutdownRetiredChains
  <2> QED BY <2>1, <2>2 DEF SlotInv, SlotAccounting, Exact, ExactKept, Neutral
<1>41. ASSUME ShutdownCurrent PROVE SlotInv' /\ ExactKept
  <2>1. Neutral
    BY <1>41 DEF ShutdownCurrent, Stored, SlotHolders, Debtors, Neutral
  <2>2. ReserveOK'
    BY <1>41 DEF ShutdownCurrent
  <2> QED BY <2>1, <2>2 DEF SlotInv, SlotAccounting, Exact, ExactKept, Neutral
<1>42. ASSUME NEW c \in Ctxs, NEW s \in SCIDs, ServerPacket(c, s) PROVE SlotInv' /\ ExactKept
  <2>1. Neutral
    BY <1>42 DEF ServerPacket, Stored, SlotHolders, Debtors, Neutral
  <2>2. ReserveOK'
    BY <1>42 DEF ServerPacket
  <2> QED BY <2>1, <2>2 DEF SlotInv, SlotAccounting, Exact, ExactKept, Neutral
<1>43. ASSUME NEW c \in Ctxs, DatagramDone(c) PROVE SlotInv' /\ ExactKept
  <2>1. Neutral
    BY <1>43 DEF DatagramDone, Stored, SlotHolders, Debtors, Neutral
  <2>2. ReserveOK'
    BY <1>43 DEF DatagramDone
  <2> QED BY <2>1, <2>2 DEF SlotInv, SlotAccounting, Exact, ExactKept, Neutral
<1>44. ASSUME NEW c \in Ctxs, LearnServerSCID(c) PROVE SlotInv' /\ ExactKept
  <2>1. Neutral
    BY <1>44 DEF LearnServerSCID, Stored, SlotHolders, Debtors, Neutral
  <2>2. ReserveOK'
    BY <1>44 DEF LearnServerSCID
  <2> QED BY <2>1, <2>2 DEF SlotInv, SlotAccounting, Exact, ExactKept, Neutral
<1>45. ASSUME NEW c \in Ctxs, StoreAlias(c) PROVE SlotInv' /\ ExactKept
  <2>1. Neutral
    BY <1>45 DEF StoreAlias, Stored, SlotHolders, Debtors, Neutral
  <2>2. ReserveOK'
    BY <1>45 DEF StoreAlias
  <2> QED BY <2>1, <2>2 DEF SlotInv, SlotAccounting, Exact, ExactKept, Neutral
<1>46. ASSUME NEW c \in Ctxs, TrackSessionAlias(c) PROVE SlotInv' /\ ExactKept
  <2>1. Neutral
    BY <1>46 DEF TrackSessionAlias, Stored, SlotHolders, Debtors, Neutral
  <2>2. ReserveOK'
    BY <1>46 DEF TrackSessionAlias
  <2> QED BY <2>1, <2>2 DEF SlotInv, SlotAccounting, Exact, ExactKept, Neutral
<1>47. CASE UNCHANGED vars
  BY <1>47 DEF vars, SlotInv, SlotAccounting, Exact, ExactKept, Stored, SlotHolders, Debtors
<1> QED
  BY <1>1, <1>2, <1>3, <1>4, <1>5, <1>6, <1>7, <1>8, <1>9, <1>10, <1>11, <1>12, <1>13, <1>14,
     <1>15, <1>16, <1>17, <1>18, <1>19, <1>20, <1>21, <1>22, <1>23, <1>24, <1>25, <1>26, <1>27,
     <1>28, <1>29, <1>30, <1>31, <1>32, <1>33, <1>34, <1>35, <1>36, <1>37, <1>38, <1>39, <1>40,
     <1>41, <1>42, <1>43, <1>44, <1>45, <1>46, <1>47
     DEF Next, PacketStep, WorkerStep, DeleteStep, StopStep, ReloadStep, ReaderStep

\* The slot invariant holds in every reachable state.
LEMMA SlotInvariant == Spec => []SlotInv
  BY TypeInvariant, TypeInit, TypeStep, SlotInit, SlotStep, PTL DEF Spec

\* sessionCount never falls below the sessions and slots in use, however the
\* workers, the cleanup ticker, Drop and Stop interleave and also when a DCID
\* is used by two connections.
THEOREM SlotsSafe == Spec => []SlotAccounting
  BY SlotInvariant, PTL DEF SlotInv

-----------------------------------------------------------------------------
\* Every chain has a global rate limiter.
AllLimited == \A c \in Chains : Limit[c] > 0
\* Past OnConnect, a connection holds a reserved slot.
Held == \A w \in Workers : pc[w] \in {"dial", "store"} => reserved[cx[w]]
\* The counter is within some chain's limit (within the limit, if there is one chain).
Bounded == \E c \in Chains : sessionCount <= Limit[c]
LimitInv == AllLimited => Held /\ Bounded

\* Initially the counter is zero and nothing is reserved.
LEMMA LimitInit == Init => LimitInv
  BY ThreadAssumption, ConstAssumption DEF Init, LimitInv, AllLimited, Held, Bounded, Threads

\* The limit invariant is inductive, one step per action.
LEMMA LimitStep == TypeInv /\ SlotInv /\ LimitInv /\ [Next]_vars => LimitInv'
<1> SUFFICES ASSUME TypeInv, SlotInv, AllLimited, Held, Bounded, [Next]_vars
             PROVE  Held' /\ Bounded'
  BY DEF LimitInv, AllLimited
<1> ReserveOK /\ \A c \in Chains : Limit[c] > 0
  BY DEF SlotInv, AllLimited
<1> USE ThreadAssumption, ConstAssumption
    DEF TypeInv, TypeOK, LocalsOK, ReserveOK, table, aliases, chains, created, contexts, packet, locals,
        deletion, readers, NoCtx, Ctxs, Threads, Goto, Labels, Deleting, Stopping, Binding,
        Reserving, Creating
<1>1. ASSUME NEW w \in Workers, NEW a \in Addrs, NEW k \in DCIDs \cup SCIDs \cup {NoKey}, ReceivePacket(w, a, k) PROVE Held' /\ Bounded'
  <2>1. Held'
    BY <1>1, ZenonT(60) DEF ReceivePacket, FindSession, Held
  <2>2. Bounded'
    BY <1>1 DEF ReceivePacket, FindSession, Bounded
  <2> QED BY <2>1, <2>2
<1>2. ASSUME NEW w \in Workers, NEW a \in Addrs, NEW d \in DCIDs, ReceiveInitial(w, a, d) PROVE Held' /\ Bounded'
  <2>1. Held'
    BY <1>2 DEF ReceiveInitial, Held
  <2>2. Bounded'
    BY <1>2 DEF ReceiveInitial, Bounded
  <2> QED BY <2>1, <2>2
<1>3. ASSUME NEW w \in Workers, CheckAddr(w) PROVE Held' /\ Bounded'
  <2>1. Held'
    <3>1. /\ \A v \in Workers : v # w => cx'[v] = cx[v] /\ pc'[v] = pc[v]
          /\ pc'[w] = "idle" /\ reserved' = reserved
      BY <1>3 DEF CheckAddr, Finish
    <3> QED BY ONLY Held, <3>1 DEF Held
  <2>2. Bounded'
    BY <1>3 DEF CheckAddr, Finish, Bounded
  <2> QED BY <2>1, <2>2
<1>4. ASSUME NEW w \in Workers, BeginMigration(w) PROVE Held' /\ Bounded'
  <2>1. Held'
    BY <1>4 DEF BeginMigration, Held
  <2>2. Bounded'
    BY <1>4 DEF BeginMigration, Bounded
  <2> QED BY <2>1, <2>2
<1>5. ASSUME NEW w \in Workers, SetClientAddr(w) PROVE Held' /\ Bounded'
  <2>1. Held'
    BY <1>5 DEF SetClientAddr, Held
  <2>2. Bounded'
    BY <1>5 DEF SetClientAddr, Bounded
  <2> QED BY <2>1, <2>2
<1>6. ASSUME NEW w \in Workers, DeleteOldAddr(w) PROVE Held' /\ Bounded'
  <2>1. Held'
    BY <1>6 DEF DeleteOldAddr, Held
  <2>2. Bounded'
    BY <1>6 DEF DeleteOldAddr, Bounded
  <2> QED BY <2>1, <2>2
<1>7. ASSUME NEW w \in Workers, StoreNewAddr(w) PROVE Held' /\ Bounded'
  <2>1. Held'
    <3>1. /\ \A v \in Workers : v # w => cx'[v] = cx[v] /\ pc'[v] = pc[v]
          /\ pc'[w] = "idle" /\ reserved' = reserved
      BY <1>7 DEF StoreNewAddr, Finish
    <3> QED BY ONLY Held, <3>1 DEF Held
  <2>2. Bounded'
    BY <1>7 DEF StoreNewAddr, Finish, Bounded
  <2> QED BY <2>1, <2>2
<1>8. ASSUME NEW w \in Workers, NewContext(w) PROVE Held' /\ Bounded'
  <2>1. Held'
    BY <1>8 DEF NewContext, Held
  <2>2. Bounded'
    BY <1>8 DEF NewContext, Bounded
  <2> QED BY <2>1, <2>2
<1>9. ASSUME NEW w \in Workers, TryReserveSessionSlot(w) PROVE Held' /\ Bounded'
  <2>1. Held'
    <3>1. /\ \A v \in Workers : v # w => pc'[v] = pc[v]
          /\ cx' = cx /\ cx[w] \in Ctxs /\ pc[w] = "onConnect"
          /\ reserved' = [reserved EXCEPT ![cx[w]] = TRUE]
      BY <1>9 DEF TryReserveSessionSlot
    <3>2. reserved'[cx[w]] /\ \A c \in Ctxs : reserved[c] => reserved'[c]
      BY <3>1
    <3>3. \A v \in Workers : pc[v] \in {"dial", "store"} => cx[v] \in Ctxs
      OBVIOUS
    <3> QED BY ONLY Held, <3>1, <3>2, <3>3 DEF Held
  <2>2. Bounded'
    <3>1. chainOf[cx[w]] \in Chains
      BY <1>9 DEF TryReserveSessionSlot
    <3>2. Limit[chainOf[cx[w]]] \in Nat /\ sessionCount \in Int
      BY <3>1
    <3>3. sessionCount' = sessionCount + 1 /\ sessionCount < Limit[chainOf[cx[w]]]
      BY <1>9 DEF TryReserveSessionSlot, LimitOf
    <3>4. sessionCount' <= Limit[chainOf[cx[w]]]
      BY <3>2, <3>3, SMTT(30)
    <3> QED BY <3>1, <3>4 DEF Bounded
  <2> QED BY <2>1, <2>2
<1>10. ASSUME NEW w \in Workers, LimitReached(w) PROVE Held' /\ Bounded'
  <2>1. Held'
    <3>1. /\ \A v \in Workers : v # w => cx'[v] = cx[v] /\ pc'[v] = pc[v]
          /\ pc'[w] = "idle" /\ reserved' = reserved
      BY <1>10 DEF LimitReached, Finish
    <3> QED BY ONLY Held, <3>1 DEF Held
  <2>2. Bounded'
    BY <1>10 DEF LimitReached, Finish, Bounded
  <2> QED BY <2>1, <2>2
<1>11. ASSUME NEW w \in Workers, NoLimiter(w) PROVE Held' /\ Bounded'
  <2>1. Held'
    <3>1. chainOf[cx[w]] \in Chains /\ Limit[chainOf[cx[w]]] = 0
      BY <1>11 DEF NoLimiter, LimitOf
    <3> QED BY <3>1
  <2>2. Bounded'
    BY <1>11 DEF NoLimiter, Bounded
  <2> QED BY <2>1, <2>2
<1>12. ASSUME NEW w \in Workers, Dial(w) PROVE Held' /\ Bounded'
  <2>1. Held'
    BY <1>12 DEF Dial, Held
  <2>2. Bounded'
    BY <1>12 DEF Dial, Bounded
  <2> QED BY <2>1, <2>2
<1>13. ASSUME NEW w \in Workers, ReleaseReservedSessionSlot(w) PROVE Held' /\ Bounded'
  <2>1. Held'
    <3>1. /\ \A v \in Workers : v # w => cx'[v] = cx[v] /\ pc'[v] = pc[v]
          /\ pc'[w] = "idle" /\ pc[w] = "dial"
          /\ reserved' = [reserved EXCEPT ![cx[w]] = FALSE]
      BY <1>13 DEF ReleaseReservedSessionSlot, Finish
    <3>2. \A v \in Workers : v # w /\ pc[v] \in Reserving => cx[v] # cx[w] /\ cx[v] \in Ctxs
      BY <3>1
    <3>3. \A c \in Ctxs : c # cx[w] => reserved'[c] = reserved[c]
      BY <3>1
    <3> QED BY ONLY Held, <3>1, <3>2, <3>3 DEF Held, Reserving
  <2>2. Bounded'
    <3>1. PICK c \in Chains : sessionCount <= Limit[c]
      BY DEF Bounded
    <3>2. sessionCount \in Int /\ Limit[c] \in Int
      OBVIOUS
    <3>3. sessionCount' = sessionCount \/ sessionCount' = sessionCount - 1
      BY <1>13 DEF ReleaseReservedSessionSlot
    <3>4. sessionCount' <= Limit[c]
      BY ONLY <3>1, <3>2, <3>3
    <3> QED BY <3>4 DEF Bounded
  <2> QED BY <2>1, <2>2
<1>14. ASSUME NEW w \in Workers, StoreSession(w) PROVE Held' /\ Bounded'
  <2>1. Held'
    BY <1>14, ZenonT(60) DEF StoreSession, Held
  <2>2. Bounded'
    <3>1. reserved[cx[w]]
      BY <1>14 DEF StoreSession, Held
    <3>2. sessionCount' = sessionCount
      BY <1>14, <3>1 DEF StoreSession
    <3> QED BY <3>2 DEF Bounded
  <2> QED BY <2>1, <2>2
<1>15. ASSUME NEW w \in Workers, CollectOldest(w) PROVE Held' /\ Bounded'
  <2>1. Held'
    BY <1>15 DEF CollectOldest, Settled, Stored, Held
  <2>2. Bounded'
    BY <1>15 DEF CollectOldest, Settled, Stored, Bounded
  <2> QED BY <2>1, <2>2
<1>16. ASSUME NEW w \in Workers, EvictNext(w) PROVE Held' /\ Bounded'
  <2>1. Held'
    BY <1>16, ZenonT(60) DEF EvictNext, Held
  <2>2. Bounded'
    BY <1>16 DEF EvictNext, Bounded
  <2> QED BY <2>1, <2>2
<1>17. ASSUME NEW w \in Workers, EvictDone(w) PROVE Held' /\ Bounded'
  <2>1. Held'
    BY <1>17 DEF EvictDone, Held
  <2>2. Bounded'
    BY <1>17 DEF EvictDone, Bounded
  <2> QED BY <2>1, <2>2
<1>18. ASSUME NEW w \in Workers, PutSession(w) PROVE Held' /\ Bounded'
  <2>1. Held'
    BY <1>18 DEF PutSession, Held
  <2>2. Bounded'
    BY <1>18 DEF PutSession, Bounded
  <2> QED BY <2>1, <2>2
<1>19. ASSUME NEW w \in Workers, RetainChain(w) PROVE Held' /\ Bounded'
  <2>1. Held'
    BY <1>19 DEF RetainChain, Held
  <2>2. Bounded'
    BY <1>19 DEF RetainChain, Bounded
  <2> QED BY <2>1, <2>2
<1>20. ASSUME NEW w \in Workers, StoreClientAddr(w) PROVE Held' /\ Bounded'
  <2>1. Held'
    BY <1>20 DEF StoreClientAddr, Held
  <2>2. Bounded'
    BY <1>20 DEF StoreClientAddr, Bounded
  <2> QED BY <2>1, <2>2
<1>21. ASSUME NEW w \in Workers, SetDropSession(w) PROVE Held' /\ Bounded'
  <2>1. Held'
    <3>1. /\ \A v \in Workers : v # w => cx'[v] = cx[v] /\ pc'[v] = pc[v]
          /\ pc'[w] = "idle" /\ reserved' = reserved
      BY <1>21 DEF SetDropSession, Finish
    <3> QED BY ONLY Held, <3>1 DEF Held
  <2>2. Bounded'
    BY <1>21 DEF SetDropSession, Finish, Bounded
  <2> QED BY <2>1, <2>2
<1>22. ASSUME NEW w \in Workers, WorkerExit(w) PROVE Held' /\ Bounded'
  <2>1. Held'
    BY <1>22 DEF WorkerExit, Held
  <2>2. Bounded'
    BY <1>22 DEF WorkerExit, Bounded
  <2> QED BY <2>1, <2>2
<1>23. ASSUME NEW t \in Threads, OnDisconnect(t) PROVE Held' /\ Bounded'
  <2>1. Held'
    BY <1>23 DEF OnDisconnect, Held
  <2>2. Bounded'
    BY <1>23 DEF OnDisconnect, Bounded
  <2> QED BY <2>1, <2>2
<1>24. ASSUME NEW t \in Threads, DeleteSession(t) PROVE Held' /\ Bounded'
  <2>1. Held'
    BY <1>24 DEF DeleteSession, Held
  <2>2. Bounded'
    BY <1>24 DEF DeleteSession, Bounded
  <2> QED BY <2>1, <2>2
<1>25. ASSUME NEW t \in Threads, AlreadyDeleted(t) PROVE Held' /\ Bounded'
  <2>1. Held'
    BY <1>25 DEF AlreadyDeleted, EndDelete, Held
  <2>2. Bounded'
    BY <1>25 DEF AlreadyDeleted, EndDelete, Bounded
  <2> QED BY <2>1, <2>2
<1>26. ASSUME NEW t \in Threads, UncountSession(t) PROVE Held' /\ Bounded'
  <2>1. Held'
    BY <1>26 DEF UncountSession, Held
  <2>2. Bounded'
    <3>1. PICK c \in Chains : sessionCount <= Limit[c]
      BY DEF Bounded
    <3>2. sessionCount \in Int /\ Limit[c] \in Int
      OBVIOUS
    <3>3. sessionCount' = sessionCount \/ sessionCount' = sessionCount - 1
      BY <1>26 DEF UncountSession
    <3>4. sessionCount' <= Limit[c]
      BY ONLY <3>1, <3>2, <3>3
    <3> QED BY <3>4 DEF Bounded
  <2> QED BY <2>1, <2>2
<1>27. ASSUME NEW t \in Threads, DeleteSessionAliases(t) PROVE Held' /\ Bounded'
  <2>1. Held'
    BY <1>27 DEF DeleteSessionAliases, Held
  <2>2. Bounded'
    BY <1>27 DEF DeleteSessionAliases, Bounded
  <2> QED BY <2>1, <2>2
<1>28. ASSUME NEW t \in Threads, ReleaseChain(t) PROVE Held' /\ Bounded'
  <2>1. Held'
    BY <1>28 DEF ReleaseChain, Held
  <2>2. Bounded'
    BY <1>28 DEF ReleaseChain, Bounded
  <2> QED BY <2>1, <2>2
<1>29. ASSUME NEW t \in Threads, DeleteClientAddr(t) PROVE Held' /\ Bounded'
  <2>1. Held'
    BY <1>29 DEF DeleteClientAddr, EndDelete, Held
  <2>2. Bounded'
    BY <1>29 DEF DeleteClientAddr, EndDelete, Bounded
  <2> QED BY <2>1, <2>2
<1>30. ASSUME NEW t \in Droppers, Drop(t) PROVE Held' /\ Bounded'
  <2>1. Held'
    BY <1>30 DEF Drop, BeginDelete, Held
  <2>2. Bounded'
    BY <1>30 DEF Drop, BeginDelete, Bounded
  <2> QED BY <2>1, <2>2
<1>31. ASSUME CleanupIdle PROVE Held' /\ Bounded'
  <2>1. Held'
    BY <1>31 DEF CleanupIdle, BeginDelete, Settled, Stored, Held
  <2>2. Bounded'
    BY <1>31 DEF CleanupIdle, BeginDelete, Settled, Stored, Bounded
  <2> QED BY <2>1, <2>2
<1>32. ASSUME SwapChain PROVE Held' /\ Bounded'
  <2>1. Held'
    BY <1>32 DEF SwapChain, Held
  <2>2. Bounded'
    BY <1>32 DEF SwapChain, Bounded
  <2> QED BY <2>1, <2>2
<1>33. ASSUME RegisterChain PROVE Held' /\ Bounded'
  <2>1. Held'
    BY <1>33 DEF RegisterChain, Held
  <2>2. Bounded'
    BY <1>33 DEF RegisterChain, Bounded
  <2> QED BY <2>1, <2>2
<1>34. ASSUME RetireChain PROVE Held' /\ Bounded'
  <2>1. Held'
    BY <1>34 DEF RetireChain, Held
  <2>2. Bounded'
    BY <1>34 DEF RetireChain, Bounded
  <2> QED BY <2>1, <2>2
<1>35. ASSUME SetAllowConnectionMigration PROVE Held' /\ Bounded'
  <2>1. Held'
    BY <1>35 DEF SetAllowConnectionMigration, Held
  <2>2. Bounded'
    BY <1>35 DEF SetAllowConnectionMigration, Bounded
  <2> QED BY <2>1, <2>2
<1>36. ASSUME BeginStop PROVE Held' /\ Bounded'
  <2>1. Held'
    BY <1>36 DEF BeginStop, Held
  <2>2. Bounded'
    BY <1>36 DEF BeginStop, Bounded
  <2> QED BY <2>1, <2>2
<1>37. ASSUME Drained PROVE Held' /\ Bounded'
  <2>1. Held'
    BY <1>37 DEF Drained, Held
  <2>2. Bounded'
    BY <1>37 DEF Drained, Bounded
  <2> QED BY <2>1, <2>2
<1>38. ASSUME SweepNext PROVE Held' /\ Bounded'
  <2>1. Held'
    BY <1>38 DEF SweepNext, BeginDelete, Stored, Held
  <2>2. Bounded'
    BY <1>38 DEF SweepNext, BeginDelete, Stored, Bounded
  <2> QED BY <2>1, <2>2
<1>39. ASSUME SweepDone PROVE Held' /\ Bounded'
  <2>1. Held'
    BY <1>39 DEF SweepDone, Held
  <2>2. Bounded'
    BY <1>39 DEF SweepDone, Bounded
  <2> QED BY <2>1, <2>2
<1>40. ASSUME ShutdownRetiredChains PROVE Held' /\ Bounded'
  <2>1. Held'
    BY <1>40 DEF ShutdownRetiredChains, Held
  <2>2. Bounded'
    BY <1>40 DEF ShutdownRetiredChains, Bounded
  <2> QED BY <2>1, <2>2
<1>41. ASSUME ShutdownCurrent PROVE Held' /\ Bounded'
  <2>1. Held'
    BY <1>41 DEF ShutdownCurrent, Held
  <2>2. Bounded'
    BY <1>41 DEF ShutdownCurrent, Bounded
  <2> QED BY <2>1, <2>2
<1>42. ASSUME NEW c \in Ctxs, NEW s \in SCIDs, ServerPacket(c, s) PROVE Held' /\ Bounded'
  <2>1. Held'
    BY <1>42 DEF ServerPacket, Held
  <2>2. Bounded'
    BY <1>42 DEF ServerPacket, Bounded
  <2> QED BY <2>1, <2>2
<1>43. ASSUME NEW c \in Ctxs, DatagramDone(c) PROVE Held' /\ Bounded'
  <2>1. Held'
    BY <1>43 DEF DatagramDone, Held
  <2>2. Bounded'
    BY <1>43 DEF DatagramDone, Bounded
  <2> QED BY <2>1, <2>2
<1>44. ASSUME NEW c \in Ctxs, LearnServerSCID(c) PROVE Held' /\ Bounded'
  <2>1. Held'
    BY <1>44 DEF LearnServerSCID, Held
  <2>2. Bounded'
    BY <1>44 DEF LearnServerSCID, Bounded
  <2> QED BY <2>1, <2>2
<1>45. ASSUME NEW c \in Ctxs, StoreAlias(c) PROVE Held' /\ Bounded'
  <2>1. Held'
    BY <1>45 DEF StoreAlias, Held
  <2>2. Bounded'
    BY <1>45 DEF StoreAlias, Bounded
  <2> QED BY <2>1, <2>2
<1>46. ASSUME NEW c \in Ctxs, TrackSessionAlias(c) PROVE Held' /\ Bounded'
  <2>1. Held'
    BY <1>46 DEF TrackSessionAlias, Held
  <2>2. Bounded'
    BY <1>46 DEF TrackSessionAlias, Bounded
  <2> QED BY <2>1, <2>2
<1>47. CASE UNCHANGED vars
  BY <1>47 DEF vars, Held, Bounded
<1> QED
  BY <1>1, <1>2, <1>3, <1>4, <1>5, <1>6, <1>7, <1>8, <1>9, <1>10, <1>11, <1>12, <1>13, <1>14,
     <1>15, <1>16, <1>17, <1>18, <1>19, <1>20, <1>21, <1>22, <1>23, <1>24, <1>25, <1>26, <1>27,
     <1>28, <1>29, <1>30, <1>31, <1>32, <1>33, <1>34, <1>35, <1>36, <1>37, <1>38, <1>39, <1>40,
     <1>41, <1>42, <1>43, <1>44, <1>45, <1>46, <1>47
     DEF Next, PacketStep, WorkerStep, DeleteStep, StopStep, ReloadStep, ReaderStep

\* If every chain limits connections, the table never holds more sessions than
\* the limit: reserved slots, evictions, deletions in progress and reloads
\* included.
THEOREM LimitSafe == Spec => []LimitRespected
<1>1. TypeInv /\ SlotInv /\ LimitInv => LimitRespected
  <2> SUFFICES ASSUME TypeInv, SlotInv, LimitInv, AllLimited
               PROVE  \E c \in Chains : sessionCount <= Limit[c] /\ Cardinality(Stored) <= Limit[c]
    BY DEF LimitRespected, AllLimited
  <2>1. PICK c \in Chains : sessionCount <= Limit[c]
    BY DEF LimitInv, Bounded
  <2>2. sessionCount \in Int /\ Limit[c] \in Int
    BY ConstAssumption DEF TypeInv, TypeOK
  <2>3. Cardinality(Stored) <= sessionCount
    BY <2>2, FiniteSlots DEF SlotInv, SlotAccounting
  <2> QED BY <2>1, <2>2, <2>3, FiniteSlots
<1>2. Spec => []LimitInv
  BY TypeInvariant, SlotInvariant, LimitInit, LimitStep, PTL DEF Spec
<1> QED BY <1>1, <1>2, TypeInvariant, SlotInvariant, PTL

-----------------------------------------------------------------------------
(* Handler chains and Stop: where each chain is, not loaded yet, current,  *)
(* being replaced, retired, or shut down once.  ChainInv says that these   *)
(* places exclude each other, Accounted that there is no other place.      *)

\* ReloadChain has swapped the pointer and not yet retired the old chain.
Replacing == pc[Signal] \in {"swapped", "registered"}

ChainInv ==
  /\ \A c \in Chains : shutdowns[c] \in {0, 1}
  /\ \A c \in retiredChains \cup unbuilt : shutdowns[c] = 0
  /\ pc[Signal] # "stopped" => shutdowns[chain] = 0
  /\ chain \notin retiredChains \cup unbuilt
  /\ retiredChains \cap unbuilt = {}
  /\ Replacing => /\ oldChain # chain /\ shutdowns[oldChain] = 0
                  /\ oldChain \notin retiredChains \cup unbuilt

RefsInv ==
  /\ \A c \in Chains : chainRefs[c] > 0 => c \in tracked
  /\ RetiredHaveRefs

Accounted ==
  /\ \A c \in Chains \ unbuilt : \/ shutdowns[c] = 1 \/ c \in retiredChains \/ c = chain
                                 \/ Replacing /\ c = oldChain
  /\ pc[Signal] \in {"shutCurrent", "stopped"} => retiredChains = {}
  /\ pc[Signal] = "stopped" => shutdowns[chain] = 1

\* From the sweep on all workers have exited; after it the table is empty.
SweepInv ==
  /\ pc[Signal] \in {"sweep"} \cup Deleting \cup {"shutRetired", "shutCurrent", "stopped"} =>
       \A w \in Workers : pc[w] = "exited"
  /\ pc[Signal] \in {"shutRetired", "shutCurrent", "stopped"} => Stored = {}

-----------------------------------------------------------------------------
\* The signal goroutine stays at its label or moves between labels that
\* ChainInv and Accounted do not tell apart.
SamePhase ==
  \/ pc'[Signal] = pc[Signal]
  \/ /\ pc[Signal] \notin {"swapped", "registered", "shutCurrent", "stopped"}
     /\ pc'[Signal] \notin {"swapped", "registered", "shutCurrent", "stopped"}

\* Steps that leave the chains alone.
LEMMA ChainsUnchanged ==
  ASSUME ChainInv, RefsInv, Accounted, SamePhase,
         UNCHANGED <<chain, chainRefs, tracked, retiredChains, shutdowns, unbuilt, oldChain>>
  PROVE  ChainInv' /\ RefsInv' /\ Accounted'
<1>1. ChainInv'
  BY DEF ChainInv, Replacing, SamePhase
<1>2. RefsInv'
  BY DEF RefsInv, RetiredHaveRefs
<1>3. Accounted'
  BY DEF Accounted, Replacing, SamePhase
<1> QED BY <1>1, <1>2, <1>3

\* Initially one chain is current, nothing is retired or referenced.
LEMMA ChainsInit == Init => ChainInv /\ RefsInv /\ Accounted
  BY ThreadAssumption, ConstAssumption
  DEF Init, ChainInv, RefsInv, Accounted, Replacing, RetiredHaveRefs, Threads

\* The chain invariant is inductive, one step per action.
LEMMA ChainsStep ==
  TypeInv /\ ChainInv /\ RefsInv /\ Accounted /\ [Next]_vars => ChainInv' /\ RefsInv' /\ Accounted'
<1> SUFFICES ASSUME TypeInv, ChainInv, RefsInv, Accounted, [Next]_vars
             PROVE  ChainInv' /\ RefsInv' /\ Accounted'
  OBVIOUS
<1> USE ThreadAssumption, ConstAssumption
    DEF TypeInv, TypeOK, LocalsOK, table, aliases, chains, created, contexts, packet, locals,
        deletion, readers, NoCtx, Ctxs, Threads, Goto, Labels, Deleting, Stopping, Binding,
        Reserving, Creating
<1>1. ASSUME NEW w \in Workers, NEW a \in Addrs, NEW k \in DCIDs \cup SCIDs \cup {NoKey}, ReceivePacket(w, a, k) PROVE ChainInv' /\ RefsInv' /\ Accounted'
  BY <1>1, ChainsUnchanged DEF ReceivePacket, FindSession, SamePhase
<1>2. ASSUME NEW w \in Workers, NEW a \in Addrs, NEW d \in DCIDs, ReceiveInitial(w, a, d) PROVE ChainInv' /\ RefsInv' /\ Accounted'
  BY <1>2, ChainsUnchanged DEF ReceiveInitial, SamePhase
<1>3. ASSUME NEW w \in Workers, CheckAddr(w) PROVE ChainInv' /\ RefsInv' /\ Accounted'
  BY <1>3, ChainsUnchanged DEF CheckAddr, Finish, SamePhase
<1>4. ASSUME NEW w \in Workers, BeginMigration(w) PROVE ChainInv' /\ RefsInv' /\ Accounted'
  BY <1>4, ChainsUnchanged DEF BeginMigration, SamePhase
<1>5. ASSUME NEW w \in Workers, SetClientAddr(w) PROVE ChainInv' /\ RefsInv' /\ Accounted'
  BY <1>5, ChainsUnchanged DEF SetClientAddr, SamePhase
<1>6. ASSUME NEW w \in Workers, DeleteOldAddr(w) PROVE ChainInv' /\ RefsInv' /\ Accounted'
  BY <1>6, ChainsUnchanged DEF DeleteOldAddr, SamePhase
<1>7. ASSUME NEW w \in Workers, StoreNewAddr(w) PROVE ChainInv' /\ RefsInv' /\ Accounted'
  BY <1>7, ChainsUnchanged DEF StoreNewAddr, Finish, SamePhase
<1>8. ASSUME NEW w \in Workers, NewContext(w) PROVE ChainInv' /\ RefsInv' /\ Accounted'
  BY <1>8, ChainsUnchanged DEF NewContext, SamePhase
<1>9. ASSUME NEW w \in Workers, TryReserveSessionSlot(w) PROVE ChainInv' /\ RefsInv' /\ Accounted'
  BY <1>9, ChainsUnchanged DEF TryReserveSessionSlot, SamePhase
<1>10. ASSUME NEW w \in Workers, LimitReached(w) PROVE ChainInv' /\ RefsInv' /\ Accounted'
  BY <1>10, ChainsUnchanged DEF LimitReached, Finish, SamePhase
<1>11. ASSUME NEW w \in Workers, NoLimiter(w) PROVE ChainInv' /\ RefsInv' /\ Accounted'
  BY <1>11, ChainsUnchanged DEF NoLimiter, SamePhase
<1>12. ASSUME NEW w \in Workers, Dial(w) PROVE ChainInv' /\ RefsInv' /\ Accounted'
  BY <1>12, ChainsUnchanged DEF Dial, SamePhase
<1>13. ASSUME NEW w \in Workers, ReleaseReservedSessionSlot(w) PROVE ChainInv' /\ RefsInv' /\ Accounted'
  BY <1>13, ChainsUnchanged DEF ReleaseReservedSessionSlot, Finish, SamePhase
<1>14. ASSUME NEW w \in Workers, StoreSession(w) PROVE ChainInv' /\ RefsInv' /\ Accounted'
  BY <1>14, ChainsUnchanged DEF StoreSession, SamePhase
<1>15. ASSUME NEW w \in Workers, CollectOldest(w) PROVE ChainInv' /\ RefsInv' /\ Accounted'
  BY <1>15, ChainsUnchanged DEF CollectOldest, Settled, Stored, SamePhase
<1>16. ASSUME NEW w \in Workers, EvictNext(w) PROVE ChainInv' /\ RefsInv' /\ Accounted'
  BY <1>16, ChainsUnchanged DEF EvictNext, SamePhase
<1>17. ASSUME NEW w \in Workers, EvictDone(w) PROVE ChainInv' /\ RefsInv' /\ Accounted'
  BY <1>17, ChainsUnchanged DEF EvictDone, SamePhase
<1>18. ASSUME NEW w \in Workers, PutSession(w) PROVE ChainInv' /\ RefsInv' /\ Accounted'
  BY <1>18, ChainsUnchanged DEF PutSession, SamePhase
<1>19. ASSUME NEW w \in Workers, RetainChain(w) PROVE ChainInv' /\ RefsInv' /\ Accounted'
  <2> DEFINE c == chainOf[cx[w]]
  <2>1. c \in Chains /\ pc'[Signal] = pc[Signal]
    BY <1>19 DEF RetainChain
  <2>2. /\ chainRefs' = [chainRefs EXCEPT ![c] = @ + 1] /\ tracked' = tracked \cup {c}
        /\ UNCHANGED <<chain, retiredChains, shutdowns, unbuilt, oldChain>>
    BY <1>19 DEF RetainChain
  <2> HIDE DEF c
  <2>3. ChainInv' /\ Accounted'
    BY ONLY <2>1, <2>2, ChainInv, Accounted DEF ChainInv, Accounted, Replacing
  <2>4. chainRefs'[c] > 0 /\ \A b \in Chains : b # c => chainRefs'[b] = chainRefs[b]
    BY <2>1, <2>2, SMTT(30)
  <2>5. RefsInv'
    BY <2>1, <2>2, <2>4 DEF RefsInv, RetiredHaveRefs
  <2> QED BY <2>3, <2>5
<1>20. ASSUME NEW w \in Workers, StoreClientAddr(w) PROVE ChainInv' /\ RefsInv' /\ Accounted'
  BY <1>20, ChainsUnchanged DEF StoreClientAddr, SamePhase
<1>21. ASSUME NEW w \in Workers, SetDropSession(w) PROVE ChainInv' /\ RefsInv' /\ Accounted'
  BY <1>21, ChainsUnchanged DEF SetDropSession, Finish, SamePhase
<1>22. ASSUME NEW w \in Workers, WorkerExit(w) PROVE ChainInv' /\ RefsInv' /\ Accounted'
  BY <1>22, ChainsUnchanged DEF WorkerExit, SamePhase
<1>23. ASSUME NEW t \in Threads, OnDisconnect(t) PROVE ChainInv' /\ RefsInv' /\ Accounted'
  BY <1>23, ChainsUnchanged DEF OnDisconnect, SamePhase
<1>24. ASSUME NEW t \in Threads, DeleteSession(t) PROVE ChainInv' /\ RefsInv' /\ Accounted'
  BY <1>24, ChainsUnchanged DEF DeleteSession, SamePhase
<1>25. ASSUME NEW t \in Threads, AlreadyDeleted(t) PROVE ChainInv' /\ RefsInv' /\ Accounted'
  BY <1>25, ChainsUnchanged DEF AlreadyDeleted, EndDelete, SamePhase
<1>26. ASSUME NEW t \in Threads, UncountSession(t) PROVE ChainInv' /\ RefsInv' /\ Accounted'
  BY <1>26, ChainsUnchanged DEF UncountSession, SamePhase
<1>27. ASSUME NEW t \in Threads, DeleteSessionAliases(t) PROVE ChainInv' /\ RefsInv' /\ Accounted'
  BY <1>27, ChainsUnchanged DEF DeleteSessionAliases, SamePhase
<1>28. ASSUME NEW t \in Threads, ReleaseChain(t) PROVE ChainInv' /\ RefsInv' /\ Accounted'
  <2> DEFINE c == chainOf[delCtx[t]]
             left == IF chainRefs[c] > 0 THEN chainRefs[c] - 1 ELSE 0
             last == c \in tracked /\ left = 0 /\ c \in retiredChains
  <2>1. c \in Chains /\ SamePhase
    BY <1>28 DEF ReleaseChain, SamePhase
  <2>2. /\ chainRefs' = IF c \in tracked THEN [chainRefs EXCEPT ![c] = left] ELSE chainRefs
        /\ tracked' = IF last THEN tracked \ {c} ELSE tracked
        /\ retiredChains' = IF last THEN retiredChains \ {c} ELSE retiredChains
        /\ shutdowns' = IF last THEN [shutdowns EXCEPT ![c] = @ + 1] ELSE shutdowns
        /\ UNCHANGED <<chain, unbuilt, oldChain>>
    BY <1>28 DEF ReleaseChain
  <2> HIDE DEF c
  <2>3. left \in Nat /\ chainRefs[c] \in Nat
    BY <2>1, SMTT(30)
  <2> HIDE DEF left
  <2>4. \A b \in Chains : b # c => chainRefs'[b] = chainRefs[b] /\ shutdowns'[b] = shutdowns[b]
    BY <2>1, <2>2
  <2>5. (c \in tracked => chainRefs'[c] = left) /\ (c \notin tracked => chainRefs'[c] = chainRefs[c])
    BY <2>1, <2>2
  <2>6. CASE last
    <3>1. shutdowns'[c] = 1 /\ c # chain /\ c \notin unbuilt /\ (Replacing => c # oldChain)
      BY <2>1, <2>2, <2>6, SMTT(30) DEF ChainInv
    <3>2. retiredChains' = retiredChains \ {c} /\ tracked' = tracked \ {c} /\ chainRefs'[c] = 0
      BY <2>2, <2>5, <2>6
    <3>3. ChainInv'
      BY <2>1, <2>2, <2>4, <3>1, <3>2, SMTT(30) DEF ChainInv, Replacing, SamePhase
    <3>4. RefsInv'
      BY ONLY <2>1, <2>4, <3>2, RefsInv, retiredChains \subseteq Chains
      DEF RefsInv, RetiredHaveRefs
    <3>5. Accounted'
      BY <2>1, <2>2, <2>4, <3>1, <3>2, SMTT(30) DEF Accounted, Replacing, SamePhase
    <3> QED BY <3>3, <3>4, <3>5
  <2>7. CASE ~last
    <3>1. UNCHANGED <<tracked, retiredChains, shutdowns>>
      BY <2>2, <2>7
    <3>2. ChainInv'
      BY <2>1, <2>2, <3>1 DEF ChainInv, Replacing, SamePhase
    <3>3. Accounted'
      BY <2>1, <2>2, <3>1 DEF Accounted, Replacing, SamePhase
    <3>4. c \in retiredChains => left > 0
      BY <2>3, <2>7 DEF RefsInv, RetiredHaveRefs
    <3>5. chainRefs'[c] > 0 => c \in tracked
      BY <2>1, <2>5 DEF RefsInv
    <3>6. \A b \in Chains : chainRefs'[b] > 0 => b \in tracked'
      BY <2>4, <3>1, <3>5 DEF RefsInv
    <3>7. \A b \in retiredChains' : b \in tracked' /\ chainRefs'[b] > 0
      BY <2>4, <2>5, <3>1, <3>4 DEF RefsInv, RetiredHaveRefs
    <3>8. RefsInv'
      BY <3>6, <3>7 DEF RefsInv, RetiredHaveRefs
    <3> QED BY <3>2, <3>3, <3>8
  <2> QED BY <2>6, <2>7
<1>29. ASSUME NEW t \in Threads, DeleteClientAddr(t) PROVE ChainInv' /\ RefsInv' /\ Accounted'
  BY <1>29, ChainsUnchanged DEF DeleteClientAddr, EndDelete, SamePhase
<1>30. ASSUME NEW t \in Droppers, Drop(t) PROVE ChainInv' /\ RefsInv' /\ Accounted'
  BY <1>30, ChainsUnchanged DEF Drop, BeginDelete, SamePhase
<1>31. ASSUME CleanupIdle PROVE ChainInv' /\ RefsInv' /\ Accounted'
  BY <1>31, ChainsUnchanged DEF CleanupIdle, BeginDelete, Settled, Stored, SamePhase
<1>32. ASSUME SwapChain PROVE ChainInv' /\ RefsInv' /\ Accounted'
  <2>1. /\ pc[Signal] = "idle" /\ pc'[Signal] = "swapped"
        /\ chain' \in unbuilt /\ unbuilt' = unbuilt \ {chain'} /\ oldChain' = chain
        /\ UNCHANGED <<chainRefs, tracked, retiredChains, shutdowns>>
    BY <1>32 DEF SwapChain
  <2>2. ChainInv'
    BY <2>1 DEF ChainInv, Replacing
  <2>3. RefsInv'
    BY <2>1 DEF RefsInv, RetiredHaveRefs
  <2>4. Accounted'
    BY <2>1 DEF Accounted, Replacing
  <2> QED BY <2>2, <2>3, <2>4
<1>33. ASSUME RegisterChain PROVE ChainInv' /\ RefsInv' /\ Accounted'
  <2>1. /\ pc[Signal] = "swapped" /\ pc'[Signal] = "registered" /\ tracked' = tracked \cup {chain}
        /\ UNCHANGED <<chain, chainRefs, retiredChains, shutdowns, unbuilt, oldChain>>
    BY <1>33 DEF RegisterChain
  <2>2. ChainInv'
    BY <2>1 DEF ChainInv, Replacing
  <2>3. RefsInv'
    BY <2>1 DEF RefsInv, RetiredHaveRefs
  <2>4. Accounted'
    BY <2>1 DEF Accounted, Replacing
  <2> QED BY <2>2, <2>3, <2>4
<1>34. ASSUME RetireChain PROVE ChainInv' /\ RefsInv' /\ Accounted'
  <2>1. /\ pc[Signal] = "registered" /\ pc'[Signal] = "retired"
        /\ UNCHANGED <<chain, chainRefs, unbuilt, oldChain>>
    BY <1>34 DEF RetireChain
  <2>2. oldChain # chain /\ shutdowns[oldChain] = 0 /\ oldChain \notin retiredChains \cup unbuilt
    BY <2>1 DEF ChainInv, Replacing
  <2>3. CASE /\ chainRefs[oldChain] = 0
             /\ tracked' = tracked \ {oldChain}
             /\ shutdowns' = [shutdowns EXCEPT ![oldChain] = @ + 1]
             /\ UNCHANGED retiredChains
    <3>1. shutdowns'[oldChain] = 1 /\ \A b \in Chains : b # oldChain => shutdowns'[b] = shutdowns[b]
      BY <2>2, <2>3
    <3>2. ChainInv'
      BY <2>1, <2>2, <2>3, <3>1 DEF ChainInv, Replacing
    <3>3. RefsInv'
      BY <2>1, <2>2, <2>3 DEF RefsInv, RetiredHaveRefs
    <3>4. Accounted'
      BY <2>1, <2>2, <2>3, <3>1 DEF Accounted, Replacing
    <3> QED BY <3>2, <3>3, <3>4
  <2>4. CASE /\ chainRefs[oldChain] > 0
             /\ retiredChains' = retiredChains \cup {oldChain}
             /\ UNCHANGED <<tracked, shutdowns>>
    <3>1. ChainInv'
      BY <2>1, <2>2, <2>4 DEF ChainInv, Replacing
    <3>2. RefsInv'
      BY <2>1, <2>2, <2>4 DEF RefsInv, RetiredHaveRefs
    <3>3. Accounted'
      BY <2>1, <2>2, <2>4 DEF Accounted, Replacing
    <3> QED BY <3>1, <3>2, <3>3
  <2> QED BY <1>34, <2>3, <2>4 DEF RetireChain
<1>35. ASSUME SetAllowConnectionMigration PROVE ChainInv' /\ RefsInv' /\ Accounted'
  BY <1>35, ChainsUnchanged DEF SetAllowConnectionMigration, SamePhase
<1>36. ASSUME BeginStop PROVE ChainInv' /\ RefsInv' /\ Accounted'
  BY <1>36, ChainsUnchanged DEF BeginStop, SamePhase
<1>37. ASSUME Drained PROVE ChainInv' /\ RefsInv' /\ Accounted'
  BY <1>37, ChainsUnchanged DEF Drained, SamePhase
<1>38. ASSUME SweepNext PROVE ChainInv' /\ RefsInv' /\ Accounted'
  BY <1>38, ChainsUnchanged DEF SweepNext, BeginDelete, Stored, SamePhase
<1>39. ASSUME SweepDone PROVE ChainInv' /\ RefsInv' /\ Accounted'
  BY <1>39, ChainsUnchanged DEF SweepDone, SamePhase
<1>40. ASSUME ShutdownRetiredChains PROVE ChainInv' /\ RefsInv' /\ Accounted'
  <2>1. /\ pc[Signal] = "shutRetired" /\ pc'[Signal] = "shutCurrent"
        /\ retiredChains' = {} /\ tracked' = tracked \ retiredChains
        /\ UNCHANGED <<chain, unbuilt, oldChain>>
    BY <1>40 DEF ShutdownRetiredChains
  <2>2. \A c \in Chains : /\ c \in retiredChains => shutdowns'[c] = 1 /\ chainRefs'[c] = 0
                          /\ c \notin retiredChains => /\ shutdowns'[c] = shutdowns[c]
                                                       /\ chainRefs'[c] = chainRefs[c]
    BY <1>40 DEF ShutdownRetiredChains, ChainInv
  <2>3. ChainInv'
    BY <2>1, <2>2 DEF ChainInv, Replacing
  <2>4. RefsInv'
    BY <2>1, <2>2, SMTT(30) DEF RefsInv, RetiredHaveRefs
  <2>5. Accounted'
    BY <2>1, <2>2 DEF Accounted, Replacing
  <2> QED BY <2>3, <2>4, <2>5
<1>41. ASSUME ShutdownCurrent PROVE ChainInv' /\ RefsInv' /\ Accounted'
  <2>1. /\ pc[Signal] = "shutCurrent" /\ pc'[Signal] = "stopped"
        /\ UNCHANGED <<chain, chainRefs, tracked, retiredChains, unbuilt, oldChain>>
    BY <1>41 DEF ShutdownCurrent
  <2>2. shutdowns'[chain] = 1 /\ \A c \in Chains : c # chain => shutdowns'[c] = shutdowns[c]
    BY <1>41, <2>1 DEF ShutdownCurrent, ChainInv
  <2>3. ChainInv'
    BY <2>1, <2>2, SMTT(30) DEF ChainInv, Replacing
  <2>4. RefsInv'
    BY <2>1 DEF RefsInv, RetiredHaveRefs
  <2>5. Accounted'
    BY <2>1, <2>2 DEF Accounted, Replacing
  <2> QED BY <2>3, <2>4, <2>5
<1>42. ASSUME NEW c \in Ctxs, NEW s \in SCIDs, ServerPacket(c, s) PROVE ChainInv' /\ RefsInv' /\ Accounted'
  BY <1>42, ChainsUnchanged DEF ServerPacket, SamePhase
<1>43. ASSUME NEW c \in Ctxs, DatagramDone(c) PROVE ChainInv' /\ RefsInv' /\ Accounted'
  BY <1>43, ChainsUnchanged DEF DatagramDone, SamePhase
<1>44. ASSUME NEW c \in Ctxs, LearnServerSCID(c) PROVE ChainInv' /\ RefsInv' /\ Accounted'
  BY <1>44, ChainsUnchanged DEF LearnServerSCID, SamePhase
<1>45. ASSUME NEW c \in Ctxs, StoreAlias(c) PROVE ChainInv' /\ RefsInv' /\ Accounted'
  BY <1>45, ChainsUnchanged DEF StoreAlias, SamePhase
<1>46. ASSUME NEW c \in Ctxs, TrackSessionAlias(c) PROVE ChainInv' /\ RefsInv' /\ Accounted'
  BY <1>46, ChainsUnchanged DEF TrackSessionAlias, SamePhase
<1>47. CASE UNCHANGED vars
  BY <1>47, ChainsUnchanged DEF vars, SamePhase
<1> QED
  BY <1>1, <1>2, <1>3, <1>4, <1>5, <1>6, <1>7, <1>8, <1>9, <1>10, <1>11, <1>12, <1>13, <1>14,
     <1>15, <1>16, <1>17, <1>18, <1>19, <1>20, <1>21, <1>22, <1>23, <1>24, <1>25, <1>26, <1>27,
     <1>28, <1>29, <1>30, <1>31, <1>32, <1>33, <1>34, <1>35, <1>36, <1>37, <1>38, <1>39, <1>40,
     <1>41, <1>42, <1>43, <1>44, <1>45, <1>46, <1>47
     DEF Next, PacketStep, WorkerStep, DeleteStep, StopStep, ReloadStep, ReaderStep

\* The chain invariant holds in every reachable state.
LEMMA ChainInvariant == Spec => [](ChainInv /\ RefsInv /\ Accounted)
  BY TypeInvariant, ChainsInit, ChainsStep, PTL DEF Spec

\* However reloads, session ends and Stop interleave, no chain is shut down
\* twice or while it serves new connections, and a retired chain always has a
\* reference whose release will shut it down.
THEOREM ChainsSafe == Spec => [](ShutdownOnce /\ RetiredHaveRefs)
<1>1. ChainInv /\ RefsInv => ShutdownOnce /\ RetiredHaveRefs
  BY DEF ChainInv, RefsInv, ShutdownOnce
<1> QED BY <1>1, ChainInvariant, PTL

-----------------------------------------------------------------------------
\* Initially Stop has not drained the workers.
LEMMA SweepInit == Init => SweepInv
  BY ThreadAssumption DEF Init, SweepInv, Threads, Deleting

\* A step inside deleteSession: a worker cannot be there any more, and the
\* signal goroutine stays in its sweep.
LEMMA SweepDelete ==
  ASSUME TypeInv, SweepInv, NEW t \in Threads, pc[t] \in Deleting, sessions' = sessions,
         \A u \in Threads : u # t => pc'[u] = pc[u],
         pc'[t] \in Deleting \cup {"evict", "sweep", "idle"}
  PROVE  SweepInv'
<1>1. Stored' = Stored /\ Signal \in Threads /\ Workers \subseteq Threads /\ Signal \notin Workers
  BY ThreadAssumption DEF Stored, Threads
<1>2. CASE t = Signal
  BY <1>1, <1>2 DEF SweepInv, Deleting
<1>3. CASE t # Signal
  BY <1>1, <1>3 DEF SweepInv, Deleting
<1> QED BY <1>2, <1>3

\* Exited workers take no step, and nobody else adds a session.
LEMMA SweepStep == TypeInv /\ SweepInv /\ [Next]_vars => SweepInv'
<1> SUFFICES ASSUME TypeInv, SweepInv, [Next]_vars PROVE SweepInv'
  OBVIOUS
<1> USE ThreadAssumption, ConstAssumption
    DEF TypeInv, TypeOK, LocalsOK, table, aliases, chains, created, contexts, packet, locals,
        deletion, readers, NoCtx, Ctxs, Threads, Goto, Labels, Deleting, Stopping, Binding,
        Reserving, Creating
<1>1. ASSUME NEW w \in Workers, NEW a \in Addrs, NEW k \in DCIDs \cup SCIDs \cup {NoKey}, ReceivePacket(w, a, k) PROVE SweepInv'
  BY <1>1 DEF ReceivePacket, FindSession, Stored, SweepInv
<1>2. ASSUME NEW w \in Workers, NEW a \in Addrs, NEW d \in DCIDs, ReceiveInitial(w, a, d) PROVE SweepInv'
  BY <1>2 DEF ReceiveInitial, Stored, SweepInv
<1>3. ASSUME NEW w \in Workers, CheckAddr(w) PROVE SweepInv'
  BY <1>3 DEF CheckAddr, Finish, Stored, SweepInv
<1>4. ASSUME NEW w \in Workers, BeginMigration(w) PROVE SweepInv'
  BY <1>4 DEF BeginMigration, Stored, SweepInv
<1>5. ASSUME NEW w \in Workers, SetClientAddr(w) PROVE SweepInv'
  BY <1>5 DEF SetClientAddr, Stored, SweepInv
<1>6. ASSUME NEW w \in Workers, DeleteOldAddr(w) PROVE SweepInv'
  BY <1>6 DEF DeleteOldAddr, Stored, SweepInv
<1>7. ASSUME NEW w \in Workers, StoreNewAddr(w) PROVE SweepInv'
  BY <1>7 DEF StoreNewAddr, Finish, Stored, SweepInv
<1>8. ASSUME NEW w \in Workers, NewContext(w) PROVE SweepInv'
  BY <1>8 DEF NewContext, Stored, SweepInv
<1>9. ASSUME NEW w \in Workers, TryReserveSessionSlot(w) PROVE SweepInv'
  BY <1>9 DEF TryReserveSessionSlot, Stored, SweepInv
<1>10. ASSUME NEW w \in Workers, LimitReached(w) PROVE SweepInv'
  BY <1>10 DEF LimitReached, Finish, Stored, SweepInv
<1>11. ASSUME NEW w \in Workers, NoLimiter(w) PROVE SweepInv'
  BY <1>11 DEF NoLimiter, Stored, SweepInv
<1>12. ASSUME NEW w \in Workers, Dial(w) PROVE SweepInv'
  BY <1>12 DEF Dial, Stored, SweepInv
<1>13. ASSUME NEW w \in Workers, ReleaseReservedSessionSlot(w) PROVE SweepInv'
  BY <1>13 DEF ReleaseReservedSessionSlot, Finish, Stored, SweepInv
<1>14. ASSUME NEW w \in Workers, StoreSession(w) PROVE SweepInv'
  BY <1>14, ZenonT(60) DEF StoreSession, Stored, SweepInv
<1>15. ASSUME NEW w \in Workers, CollectOldest(w) PROVE SweepInv'
  BY <1>15 DEF CollectOldest, Settled, Stored, SweepInv
<1>16. ASSUME NEW w \in Workers, EvictNext(w) PROVE SweepInv'
  BY <1>16 DEF EvictNext, Stored, SweepInv
<1>17. ASSUME NEW w \in Workers, EvictDone(w) PROVE SweepInv'
  BY <1>17 DEF EvictDone, Stored, SweepInv
<1>18. ASSUME NEW w \in Workers, PutSession(w) PROVE SweepInv'
  BY <1>18 DEF PutSession, Stored, SweepInv
<1>19. ASSUME NEW w \in Workers, RetainChain(w) PROVE SweepInv'
  BY <1>19 DEF RetainChain, Stored, SweepInv
<1>20. ASSUME NEW w \in Workers, StoreClientAddr(w) PROVE SweepInv'
  BY <1>20 DEF StoreClientAddr, Stored, SweepInv
<1>21. ASSUME NEW w \in Workers, SetDropSession(w) PROVE SweepInv'
  BY <1>21 DEF SetDropSession, Finish, Stored, SweepInv
<1>22. ASSUME NEW w \in Workers, WorkerExit(w) PROVE SweepInv'
  BY <1>22 DEF WorkerExit, Stored, SweepInv
<1>23. ASSUME NEW t \in Threads, OnDisconnect(t) PROVE SweepInv'
  <2>1. /\ pc[t] \in Deleting /\ sessions' = sessions
        /\ \A u \in Threads : u # t => pc'[u] = pc[u]
        /\ pc'[t] \in Deleting \cup {"evict", "sweep", "idle"}
    BY <1>23 DEF OnDisconnect
  <2> QED BY <2>1, SweepDelete
<1>24. ASSUME NEW t \in Threads, DeleteSession(t) PROVE SweepInv'
  BY <1>24 DEF DeleteSession, Stored, SweepInv
<1>25. ASSUME NEW t \in Threads, AlreadyDeleted(t) PROVE SweepInv'
  <2>1. /\ pc[t] \in Deleting /\ sessions' = sessions
        /\ \A u \in Threads : u # t => pc'[u] = pc[u]
        /\ pc'[t] \in Deleting \cup {"evict", "sweep", "idle"}
    BY <1>25 DEF AlreadyDeleted, EndDelete
  <2> QED BY <2>1, SweepDelete
<1>26. ASSUME NEW t \in Threads, UncountSession(t) PROVE SweepInv'
  <2>1. /\ pc[t] \in Deleting /\ sessions' = sessions
        /\ \A u \in Threads : u # t => pc'[u] = pc[u]
        /\ pc'[t] \in Deleting \cup {"evict", "sweep", "idle"}
    BY <1>26 DEF UncountSession
  <2> QED BY <2>1, SweepDelete
<1>27. ASSUME NEW t \in Threads, DeleteSessionAliases(t) PROVE SweepInv'
  <2>1. /\ pc[t] \in Deleting /\ sessions' = sessions
        /\ \A u \in Threads : u # t => pc'[u] = pc[u]
        /\ pc'[t] \in Deleting \cup {"evict", "sweep", "idle"}
    BY <1>27 DEF DeleteSessionAliases
  <2> QED BY <2>1, SweepDelete
<1>28. ASSUME NEW t \in Threads, ReleaseChain(t) PROVE SweepInv'
  <2>1. /\ pc[t] \in Deleting /\ sessions' = sessions
        /\ \A u \in Threads : u # t => pc'[u] = pc[u]
        /\ pc'[t] \in Deleting \cup {"evict", "sweep", "idle"}
    BY <1>28 DEF ReleaseChain
  <2> QED BY <2>1, SweepDelete
<1>29. ASSUME NEW t \in Threads, DeleteClientAddr(t) PROVE SweepInv'
  <2>1. /\ pc[t] \in Deleting /\ sessions' = sessions
        /\ \A u \in Threads : u # t => pc'[u] = pc[u]
        /\ pc'[t] \in Deleting \cup {"evict", "sweep", "idle"}
    BY <1>29 DEF DeleteClientAddr, EndDelete
  <2> QED BY <2>1, SweepDelete
<1>30. ASSUME NEW t \in Droppers, Drop(t) PROVE SweepInv'
  <2>1. /\ sessions' = sessions /\ t \in Threads \ Workers /\ t # Signal
        /\ \A u \in Threads : u # t => pc'[u] = pc[u]
    BY <1>30 DEF Drop, BeginDelete
  <2>2. Stored' = Stored /\ pc'[Signal] = pc[Signal] /\ \A w \in Workers : pc'[w] = pc[w]
    BY <2>1 DEF Stored
  <2> QED BY ONLY <2>2, SweepInv DEF SweepInv
<1>31. ASSUME CleanupIdle PROVE SweepInv'
  BY <1>31 DEF CleanupIdle, BeginDelete, Settled, Stored, SweepInv
<1>32. ASSUME SwapChain PROVE SweepInv'
  BY <1>32 DEF SwapChain, Stored, SweepInv
<1>33. ASSUME RegisterChain PROVE SweepInv'
  BY <1>33 DEF RegisterChain, Stored, SweepInv
<1>34. ASSUME RetireChain PROVE SweepInv'
  BY <1>34 DEF RetireChain, Stored, SweepInv
<1>35. ASSUME SetAllowConnectionMigration PROVE SweepInv'
  BY <1>35 DEF SetAllowConnectionMigration, Stored, SweepInv
<1>36. ASSUME BeginStop PROVE SweepInv'
  BY <1>36 DEF BeginStop, Stored, SweepInv
<1>37. ASSUME Drained PROVE SweepInv'
  BY <1>37 DEF Drained, Stored, SweepInv
<1>38. ASSUME SweepNext PROVE SweepInv'
  BY <1>38 DEF SweepNext, BeginDelete, Stored, SweepInv
<1>39. ASSUME SweepDone PROVE SweepInv'
  BY <1>39 DEF SweepDone, Stored, SweepInv
<1>40. ASSUME ShutdownRetiredChains PROVE SweepInv'
  BY <1>40 DEF ShutdownRetiredChains, Stored, SweepInv
<1>41. ASSUME ShutdownCurrent PROVE SweepInv'
  BY <1>41 DEF ShutdownCurrent, Stored, SweepInv
<1>42. ASSUME NEW c \in Ctxs, NEW s \in SCIDs, ServerPacket(c, s) PROVE SweepInv'
  BY <1>42 DEF ServerPacket, Stored, SweepInv
<1>43. ASSUME NEW c \in Ctxs, DatagramDone(c) PROVE SweepInv'
  BY <1>43 DEF DatagramDone, Stored, SweepInv
<1>44. ASSUME NEW c \in Ctxs, LearnServerSCID(c) PROVE SweepInv'
  BY <1>44 DEF LearnServerSCID, Stored, SweepInv
<1>45. ASSUME NEW c \in Ctxs, StoreAlias(c) PROVE SweepInv'
  BY <1>45 DEF StoreAlias, Stored, SweepInv
<1>46. ASSUME NEW c \in Ctxs, TrackSessionAlias(c) PROVE SweepInv'
  BY <1>46 DEF TrackSessionAlias, Stored, SweepInv
<1>47. CASE UNCHANGED vars
  BY <1>47 DEF vars, Stored, SweepInv
<1> QED
  BY <1>1, <1>2, <1>3, <1>4, <1>5, <1>6, <1>7, <1>8, <1>9, <1>10, <1>11, <1>12, <1>13, <1>14,
     <1>15, <1>16, <1>17, <1>18, <1>19, <1>20, <1>21, <1>22, <1>23, <1>24, <1>25, <1>26, <1>27,
     <1>28, <1>29, <1>30, <1>31, <1>32, <1>33, <1>34, <1>35, <1>36, <1>37, <1>38, <1>39, <1>40,
     <1>41, <1>42, <1>43, <1>44, <1>45, <1>46, <1>47
     DEF Next, PacketStep, WorkerStep, DeleteStep, StopStep, ReloadStep, ReaderStep

\* Stop's order is kept in every reachable state.
LEMMA SweepInvariant == Spec => []SweepInv
  BY TypeInvariant, SweepInit, SweepStep, PTL DEF Spec

\* When Stop returns, no session is left in the table and every chain that was
\* ever installed has been shut down exactly once.
THEOREM StopSafe == Spec => []StoppedClean
<1>1. ChainInv /\ Accounted /\ SweepInv => StoppedClean
  BY DEF ChainInv, Accounted, SweepInv, StoppedClean, Replacing
<1> QED BY <1>1, SweepInvariant, ChainInvariant, PTL
=============================================================================
