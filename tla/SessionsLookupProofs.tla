------------------------ MODULE SessionsLookupProofs ------------------------
(***************************************************************************)
(* Proofs about which context is where: in the session table, with the     *)
(* worker that is about to store it, or with the goroutines that delete    *)
(* it.                                                                     *)
(*                                                                         *)
(* The code deletes by key and tells sessions apart by DCID, so what it    *)
(* promises rests on a context being found under its own DCID (Identity)   *)
(* and, for most of it, on no two contexts having the same one (Unique,    *)
(* when clients do not reuse a DCID).                                      *)
(*                                                                         *)
(* The second half is about the references that sessions hold to their     *)
(* handler chain and about the addresses under which clients are found:    *)
(*   RefsSafe    the count of a chain is the number of its sessions;       *)
(*   ReloadSafe  a chain is never shut down under a session that holds a   *)
(*               reference;                                                *)
(*   AddrSafe    an address entry outlives its session only while that     *)
(*               session is being deleted.                                 *)
(*                                                                         *)
(* They hold if clients do not reuse a DCID (~ReuseDCID) and no session is *)
(* deleted while its worker is still storing it (Prompt).  Otherwise the   *)
(* worker retains the chain after the deletion has released it, and the    *)
(* reference stays.                                                        *)
(***************************************************************************)
EXTENDS SessionsProofs

\* Labels of a worker whose context is not in the table yet.
Early == Creating \ {"retain", "bindClient", "publish"}
\* Labels of a goroutine that has taken the session out of the table.
Removed == {"uncount", "unalias", "release", "unmap"}

\* Every context is where its DCID says: with its own worker, in the table
\* under its DCID, with a deleter of that DCID; before it is stored its
\* worker alone knows it.
Identity ==
  /\ \A w \in Workers : pc[w] \in Creating => dcidOf[cx[w]] = pktCid[w]
  /\ \A v, w \in Workers : v # w /\ pc[v] \in Creating /\ pc[w] \in Creating => cx[v] # cx[w]
  /\ \A d \in Stored : sessions[d] < nextCtx /\ dcidOf[sessions[d]] = d
  /\ \A t \in Threads : pc[t] \in Deleting => delCtx[t] < nextCtx /\ dcidOf[delCtx[t]] = delKey[t]
  /\ \A w \in Workers : pc[w] \in Early =>
       /\ \A d \in DCIDs : sessions[d] # cx[w]
       /\ \A t \in Threads : pc[t] \in Deleting => delCtx[t] # cx[w]
       /\ cx[w] \notin droppable

\* Connections have DCIDs of their own.
Unique ==
  /\ \A b, c \in Ctxs : b < nextCtx /\ c < nextCtx /\ dcidOf[b] = dcidOf[c] => b = c
  /\ \A w \in Workers : pc[w] = "connect" => \A c \in Ctxs : c < nextCtx => dcidOf[c] # pktCid[w]
  /\ \A v, w \in Workers : v # w /\ pc[v] = "connect" /\ pc[w] = "connect" => pktCid[v] # pktCid[w]

\* A DCID that a deleter has taken out of the table does not come back.
Gone == \A t \in Threads : pc[t] \in Removed => sessions[delKey[t]] = NoCtx

-----------------------------------------------------------------------------
(* What a step can do to the contexts.                                     *)

\* At most t moves, and no context is created.
Steady(t) ==
  /\ \A u \in Threads : u # t => pc'[u] = pc[u] /\ delKey'[u] = delKey[u] /\ delCtx'[u] = delCtx[u]
  /\ \A v \in Workers : v # t => cx'[v] = cx[v] /\ pktCid'[v] = pktCid[v]
  /\ UNCHANGED <<nextCtx, dcidOf>>

\* A worker goes on with its context.
Onward(t) == cx'[t] = cx[t] /\ pktCid'[t] = pktCid[t]

\* t moves and touches neither the table nor a socket.
Moves(t) ==
  /\ Steady(t) /\ UNCHANGED <<sessions, open, droppable>>
  /\ pc'[t] \notin {"connect", "disconnect", "remove", "uncount", "retain"}
  /\ pc'[t] \in Deleting => /\ pc[t] \in Removed \ {"unmap"}
                           /\ delKey'[t] = delKey[t] /\ delCtx'[t] = delCtx[t]
  /\ t \in Workers /\ pc'[t] \in Creating => pc[t] \in Creating /\ Onward(t)
  /\ t \in Workers /\ pc'[t] \in Creating => (pc'[t] \in Early <=> pc[t] \in Early)
  /\ t \in Workers /\ pc'[t] \in {"onConnect", "dial"} => pc[t] \in {"onConnect", "dial"}
  /\ t \in Workers /\ pc[t] \in Early \ {"onConnect", "dial"} => pc'[t] \in Early \ {"onConnect", "dial"}

\* A tick finds the session d idle, an eviction has chosen it, or Stop sweeps it.
Chosen(t, d) ==
  /\ d \in Stored
  /\ d \in Settled \/ (t \in Workers /\ d \in victims[t]) \/ (t = Signal /\ pc[t] = "sweep")

\* t calls deleteSession for a session of the table, or for a context that a
\* handler drops.
Begins(t) ==
  /\ Steady(t) /\ UNCHANGED <<sessions, open>> /\ droppable' \subseteq droppable
  /\ pc[t] \notin Deleting /\ pc'[t] = "disconnect"
  /\ t \in Workers => pc[t] = "evict" /\ Onward(t)
  /\ \/ Chosen(t, delKey'[t]) /\ delCtx'[t] = sessions[delKey'[t]]
     \/ delCtx'[t] \in droppable /\ delKey'[t] = dcidOf[delCtx'[t]]

\* Only a reader moves.
Still == UNCHANGED <<sessions, open, droppable, nextCtx, dcidOf, pc, cx, pktCid, delKey, delCtx>>

\* Every step is one of these, or one of the steps named here.
LEMMA StepKinds ==
  ASSUME TypeInv, [Next]_vars
  PROVE  \/ Still
         \/ \E w \in Workers : \/ \E a \in Addrs, d \in DCIDs : ReceiveInitial(w, a, d)
                               \/ NewContext(w) \/ Dial(w) \/ PutSession(w) \/ SetDropSession(w)
         \/ \E t \in Threads : Moves(t) \/ Begins(t) \/ OnDisconnect(t) \/ DeleteSession(t)
<1> DEFINE Kind == \E t \in Threads : Moves(t) \/ Begins(t)
<1> USE ThreadAssumption, ConstAssumption
<1>w. /\ Workers \subseteq Threads /\ Droppers \subseteq Threads /\ Janitor \in Threads /\ Signal \in Threads
      /\ Workers \cap Droppers = {} /\ Janitor \notin Workers /\ Signal \notin Workers /\ Janitor # Signal
      /\ pc \in [Threads -> Labels] /\ delKey \in [Threads -> DCIDs \cup {NoKey}]
      /\ delCtx \in [Threads -> Ctxs \cup {NoCtx}] /\ cx \in [Workers -> Ctxs \cup {NoCtx}]
      /\ pktCid \in [Workers -> DCIDs \cup SCIDs \cup {NoKey}]
  BY DEF Threads, TypeInv, TypeOK
<1>1. ASSUME NEW w \in Workers, UNCHANGED <<sessions, open, droppable, nextCtx, dcidOf, deletion>>,
             \A v \in Workers : v # w => cx'[v] = cx[v] /\ pktCid'[v] = pktCid[v],
             NEW l, Goto(w, l), l \in {"idle", "bind", "rebind", "unbindOld", "bindNew", "exited"},
             pc[w] \notin Early \ {"onConnect", "dial"}
      PROVE  Kind
  <2>1. Steady(w) /\ pc'[w] = l
    BY <1>1, <1>w DEF Steady, Goto, deletion
  <2>2. Moves(w)
    BY <1>1, <2>1 DEF Moves, Early, Creating, Reserving, Deleting
  <2> QED BY <1>w, <2>2
<1>2. ASSUME NEW w \in Workers, UNCHANGED <<sessions, open, droppable, nextCtx, dcidOf, deletion, cx, pktCid>>,
             NEW l, Goto(w, l),
             \/ pc[w] = "onConnect" /\ l = "dial"
             \/ pc[w] \in {"store", "collect", "evict"} /\ l \in {"collect", "evict", "put"}
             \/ pc[w] = "retain" /\ l = "bindClient"
             \/ pc[w] = "bindClient" /\ l = "publish"
      PROVE  Kind
  <2>1. Steady(w) /\ pc'[w] = l /\ Onward(w)
    BY <1>2, <1>w DEF Steady, Onward, Goto, deletion
  <2>2. Moves(w)
    BY <1>2, <2>1 DEF Moves, Early, Creating, Reserving, Deleting
  <2> QED BY <1>w, <2>2
<1>3. ASSUME NEW w \in Workers,
             \/ \E a \in Addrs, k \in DCIDs \cup SCIDs \cup {NoKey} : ReceivePacket(w, a, k)
             \/ CheckAddr(w) \/ BeginMigration(w) \/ SetClientAddr(w) \/ DeleteOldAddr(w)
             \/ StoreNewAddr(w) \/ LimitReached(w) \/ ReleaseReservedSessionSlot(w) \/ WorkerExit(w)
      PROVE  Kind
  <2>1. /\ UNCHANGED <<sessions, open, droppable, nextCtx, dcidOf, deletion>>
        /\ \A v \in Workers : v # w => cx'[v] = cx[v] /\ pktCid'[v] = pktCid[v]
        /\ pc[w] \notin Early \ {"onConnect", "dial"}
    BY <1>3, <1>w DEF ReceivePacket, CheckAddr, BeginMigration, SetClientAddr, DeleteOldAddr, StoreNewAddr,
         LimitReached, ReleaseReservedSessionSlot, WorkerExit, Finish, table, contexts, created, packet, locals,
         Early, Creating, Reserving, Deleting
  <2>2. \E l \in {"idle", "bind", "rebind", "unbindOld", "bindNew", "exited"} : Goto(w, l)
    BY <1>3 DEF ReceivePacket, CheckAddr, BeginMigration, SetClientAddr, DeleteOldAddr, StoreNewAddr,
         LimitReached, ReleaseReservedSessionSlot, WorkerExit, Finish
  <2> QED BY <1>1, <2>1, <2>2
<1>4. ASSUME NEW w \in Workers,
             \/ TryReserveSessionSlot(w) \/ NoLimiter(w) \/ StoreSession(w) \/ CollectOldest(w)
             \/ EvictDone(w) \/ RetainChain(w) \/ StoreClientAddr(w)
      PROVE  Kind
  <2>1. UNCHANGED <<sessions, open, droppable, nextCtx, dcidOf, deletion, cx, pktCid>>
    BY <1>4 DEF TryReserveSessionSlot, NoLimiter, StoreSession, CollectOldest, EvictDone, RetainChain,
         StoreClientAddr, table, contexts, created, packet, locals
  <2>2. \/ pc[w] = "onConnect" /\ Goto(w, "dial")
        \/ pc[w] \in {"store", "collect", "evict"} /\ \E l \in {"collect", "evict", "put"} : Goto(w, l)
        \/ pc[w] = "retain" /\ Goto(w, "bindClient")
        \/ pc[w] = "bindClient" /\ Goto(w, "publish")
    BY <1>4 DEF TryReserveSessionSlot, NoLimiter, StoreSession, CollectOldest, EvictDone, RetainChain,
         StoreClientAddr
  <2> QED BY <1>2, <2>1, <2>2
<1>5. ASSUME NEW w \in Workers, EvictNext(w) PROVE Kind
  <2>1. UNCHANGED <<sessions, open, droppable, nextCtx, dcidOf, cx, pktCid>> /\ pc[w] = "evict"
    BY <1>5 DEF EvictNext, table, contexts, created, packet
  <2>2. PICK d \in victims[w] :
          \/ /\ sessions[d] # NoCtx
             /\ delKey' = [delKey EXCEPT ![w] = d] /\ delCtx' = [delCtx EXCEPT ![w] = sessions[d]]
             /\ Goto(w, "disconnect")
          \/ UNCHANGED <<deletion, pc>>
    BY <1>5 DEF EvictNext
  <2>3. d \in DCIDs
    BY <2>2 DEF TypeInv, TypeOK
  <2>4. CASE UNCHANGED <<deletion, pc>>
    <3>1. Steady(w) /\ Onward(w) /\ pc'[w] = "evict"
      BY <2>1, <2>4 DEF Steady, Onward, deletion
    <3>2. Moves(w)
      BY <2>1, <3>1 DEF Moves, Early, Creating, Reserving, Deleting
    <3> QED BY <1>w, <3>2
  <2>5. CASE /\ sessions[d] # NoCtx
             /\ delKey' = [delKey EXCEPT ![w] = d] /\ delCtx' = [delCtx EXCEPT ![w] = sessions[d]]
             /\ Goto(w, "disconnect")
    <3>1. /\ Steady(w) /\ Onward(w) /\ pc'[w] = "disconnect"
          /\ delKey'[w] = d /\ delCtx'[w] = sessions[d] /\ d \in Stored
      BY <2>1, <2>3, <2>5, <1>w DEF Steady, Onward, Goto, Stored
    <3>2. Begins(w)
      BY <2>1, <2>2, <3>1 DEF Begins, Chosen, Deleting
    <3> QED BY <1>w, <3>2
  <2> QED BY <2>2, <2>4, <2>5
<1>6. ASSUME NEW t \in Threads \ Workers, NEW d, NEW c, BeginDelete(t, d, c),
             UNCHANGED <<sessions, open, nextCtx, dcidOf, cx, pktCid>>, droppable' \subseteq droppable,
             pc[t] \notin Deleting,
             (Chosen(t, d) /\ c = sessions[d]) \/ (c \in droppable /\ d = dcidOf[c])
      PROVE  Kind
  <2>1. Steady(t) /\ pc'[t] = "disconnect" /\ delKey'[t] = d /\ delCtx'[t] = c
    BY <1>6, <1>w DEF Steady, BeginDelete, Goto
  <2>2. Begins(t)
    BY <1>6, <2>1 DEF Begins
  <2> QED BY <1>6, <2>2
<1>7. ASSUME CleanupIdle PROVE Kind
  <2>1. PICK d \in Settled : BeginDelete(Janitor, d, sessions[d]) /\ Chosen(Janitor, d)
    BY <1>7 DEF CleanupIdle, Settled, Chosen
  <2>2. /\ UNCHANGED <<sessions, open, nextCtx, dcidOf, cx, pktCid>> /\ droppable' \subseteq droppable
        /\ pc[Janitor] \notin Deleting
    BY <1>7 DEF CleanupIdle, table, contexts, created, locals, packet, Deleting
  <2> QED BY <1>6, <1>w, <2>1, <2>2
<1>8. ASSUME NEW t \in Droppers, Drop(t) PROVE Kind
  <2>1. PICK c \in droppable : droppable' = droppable \ {c} /\ BeginDelete(t, dcidOf[c], c)
    BY <1>8 DEF Drop
  <2>2. /\ t \in Threads \ Workers /\ UNCHANGED <<sessions, open, nextCtx, dcidOf, cx, pktCid>>
        /\ pc[t] \notin Deleting
    BY <1>8, <1>w DEF Drop, table, created, locals, packet, Deleting
  <2> QED BY <1>6, <2>1, <2>2
<1>9. ASSUME SweepNext PROVE Kind
  <2>1. PICK d \in Stored : BeginDelete(Signal, d, sessions[d]) /\ Chosen(Signal, d)
    BY <1>9 DEF SweepNext, Chosen
  <2>2. /\ UNCHANGED <<sessions, open, nextCtx, dcidOf, cx, pktCid>> /\ droppable' \subseteq droppable
        /\ pc[Signal] \notin Deleting
    BY <1>9 DEF SweepNext, table, contexts, created, locals, packet, Deleting
  <2> QED BY <1>6, <1>w, <2>1, <2>2
<1>10. ASSUME NEW t \in Threads, UNCHANGED <<sessions, open, droppable, nextCtx, dcidOf, cx, pktCid>>,
              pc[t] \in Deleting, EndDelete(t)
       PROVE  Kind
  <2>1. /\ Steady(t) /\ pc'[t] \in {"evict", "sweep", "idle"} /\ (t \in Workers => pc'[t] = "evict" /\ Onward(t))
    BY <1>10, <1>w DEF Steady, Onward, EndDelete, Goto
  <2>2. Moves(t)
    BY <1>10, <2>1 DEF Moves, Early, Creating, Reserving, Deleting
  <2> QED BY <1>10, <2>2
<1>11. ASSUME NEW t \in Threads, AlreadyDeleted(t) \/ DeleteClientAddr(t) PROVE Kind
  BY <1>10, <1>11 DEF AlreadyDeleted, DeleteClientAddr, table, contexts, created, locals, packet, Deleting
<1>12. ASSUME NEW t \in Threads, UncountSession(t) \/ DeleteSessionAliases(t) \/ ReleaseChain(t) PROVE Kind
  <2>1. UNCHANGED <<sessions, open, droppable, nextCtx, dcidOf, cx, pktCid, delKey, delCtx>>
    BY <1>12 DEF UncountSession, DeleteSessionAliases, ReleaseChain, table, contexts, created, locals, packet,
         deletion
  <2>2. pc[t] \in Removed \ {"unmap"} /\ \E l \in Removed \ {"uncount"} : Goto(t, l)
    BY <1>12 DEF UncountSession, DeleteSessionAliases, ReleaseChain, Removed
  <2>3. Steady(t) /\ pc'[t] \in Removed \ {"uncount"} /\ (t \in Workers => Onward(t))
    BY <2>1, <2>2, <1>w DEF Steady, Onward, Goto, Removed
  <2>4. Moves(t)
    BY <2>1, <2>2, <2>3 DEF Moves, Early, Creating, Reserving, Deleting, Removed
  <2> QED BY <2>4
<1>13. ASSUME \/ SwapChain \/ RegisterChain \/ RetireChain \/ SetAllowConnectionMigration \/ BeginStop
              \/ Drained \/ SweepDone \/ ShutdownRetiredChains \/ ShutdownCurrent
       PROVE  Kind
  <2>1. UNCHANGED <<sessions, open, droppable, nextCtx, dcidOf, cx, pktCid, delKey, delCtx>>
    BY <1>13 DEF SwapChain, RegisterChain, RetireChain, SetAllowConnectionMigration, BeginStop,
         Drained, SweepDone, ShutdownRetiredChains, ShutdownCurrent, table, contexts, created, locals, packet,
         deletion
  <2>2. \E l \in {"idle", "swapped", "registered", "retired"} \cup Stopping : Goto(Signal, l)
    BY <1>13 DEF SwapChain, RegisterChain, RetireChain, SetAllowConnectionMigration, BeginStop,
         Drained, SweepDone, ShutdownRetiredChains, ShutdownCurrent, Stopping
  <2>3. Steady(Signal) /\ pc'[Signal] \in {"idle", "swapped", "registered", "retired"} \cup Stopping
    BY <2>1, <2>2, <1>w DEF Steady, Goto
  <2>4. Moves(Signal)
    BY <2>1, <2>3, <1>w DEF Moves, Deleting, Stopping
  <2> QED BY <1>w, <2>4
<1>14. ASSUME NEW c \in Ctxs, ReaderStep(c) PROVE Still
  BY <1>14 DEF ReaderStep, ServerPacket, DatagramDone, LearnServerSCID, StoreAlias, TrackSessionAlias, Still,
       table, contexts, created, locals, packet, deletion
<1>15. CASE UNCHANGED vars
  BY <1>15 DEF Still, vars, table, contexts, created, locals, packet, deletion
<1> QED
  BY <1>3, <1>4, <1>5, <1>7, <1>8, <1>9, <1>11, <1>12, <1>13, <1>14, <1>15
  DEF Next, PacketStep, WorkerStep, DeleteStep, StopStep, ReloadStep

-----------------------------------------------------------------------------
(* Identity.                                                               *)

\* At most t moves: whatever it deletes from now on is a known context, and
\* not one that a worker is still to store.
LEMMA IdentityKept ==
  ASSUME TypeInv, Identity, NEW t \in Threads, Steady(t),
         \A d \in DCIDs : sessions'[d] \in {sessions[d], NoCtx},
         droppable' \subseteq droppable,
         t \in Workers /\ pc'[t] \in Creating => pc[t] \in Creating /\ Onward(t),
         t \in Workers /\ pc'[t] \in Early => pc[t] \in Early,
         pc'[t] \in Deleting =>
           /\ delCtx'[t] < nextCtx /\ dcidOf[delCtx'[t]] = delKey'[t]
           /\ \A w \in Workers : pc[w] \in Early => delCtx'[t] # cx[w]
  PROVE  Identity'
<1>w. Workers \subseteq Threads /\ Early \subseteq Creating
  BY DEF Threads, Early
<1>1. \A w \in Workers : pc'[w] \in Creating => /\ pc[w] \in Creating
                                               /\ cx'[w] = cx[w] /\ pktCid'[w] = pktCid[w]
  BY <1>w DEF Steady, Onward
<1>2. \A w \in Workers : pc'[w] \in Creating => dcidOf'[cx'[w]] = pktCid'[w]
  BY <1>1 DEF Identity, Steady
<1>3. \A v, w \in Workers : v # w /\ pc'[v] \in Creating /\ pc'[w] \in Creating => cx'[v] # cx'[w]
  BY <1>1 DEF Identity
<1>4. \A d \in Stored' : sessions'[d] < nextCtx' /\ dcidOf'[sessions'[d]] = d
  BY DEF Identity, Stored, Steady
<1>5. \A u \in Threads : pc'[u] \in Deleting => delCtx'[u] < nextCtx' /\ dcidOf'[delCtx'[u]] = delKey'[u]
  BY DEF Identity, Steady
<1>6. ASSUME NEW w \in Workers, pc'[w] \in Early
      PROVE  /\ \A d \in DCIDs : sessions'[d] # cx'[w]
             /\ \A u \in Threads : pc'[u] \in Deleting => delCtx'[u] # cx'[w]
             /\ cx'[w] \notin droppable'
  <2>1. pc[w] \in Early /\ cx'[w] = cx[w] /\ cx[w] # NoCtx
    BY <1>1, <1>6, <1>w DEF Steady, TypeInv, LocalsOK, Ctxs, NoCtx
  <2>2. \A u \in Threads : pc'[u] \in Deleting => delCtx'[u] # cx[w]
    BY <2>1 DEF Steady, Identity
  <2> QED BY <2>1, <2>2 DEF Identity
<1> QED BY <1>2, <1>3, <1>4, <1>5, <1>6 DEF Identity

\* Identity is inductive, one step per kind of step.
LEMMA IdentityStep == TypeInv /\ Identity /\ [Next]_vars => Identity'
<1> SUFFICES ASSUME TypeInv, Identity, [Next]_vars PROVE Identity'
  OBVIOUS
<1>w. /\ Workers \subseteq Threads /\ Early \subseteq Creating /\ Deleting \subseteq Early
      /\ pc \in [Threads -> Labels] /\ cx \in [Workers -> Ctxs \cup {NoCtx}]
      /\ pktCid \in [Workers -> DCIDs \cup SCIDs \cup {NoKey}]
  BY DEF Threads, Early, Creating, Deleting, TypeInv, TypeOK
<1>1. CASE Still
  BY <1>1 DEF Still, Identity, Stored
<1>2. ASSUME NEW t \in Threads, Moves(t) PROVE Identity'
  <2>1. pc'[t] \in Deleting => pc[t] \in Deleting
    BY <1>2 DEF Moves, Removed, Deleting
  <2>2. t \in Workers /\ pc'[t] \in Early => pc[t] \in Early
    BY <1>2, <1>w DEF Moves
  <2>3. pc'[t] \in Deleting => delKey'[t] = delKey[t] /\ delCtx'[t] = delCtx[t]
    BY <1>2 DEF Moves
  <2>4. Steady(t) /\ UNCHANGED <<sessions, droppable>>
        /\ (t \in Workers /\ pc'[t] \in Creating => pc[t] \in Creating /\ Onward(t))
    BY <1>2 DEF Moves
  <2> QED BY <2>1, <2>2, <2>3, <2>4, IdentityKept DEF Identity
<1>3. ASSUME NEW t \in Threads, Begins(t) PROVE Identity'
  <2>1. /\ delCtx'[t] < nextCtx /\ dcidOf[delCtx'[t]] = delKey'[t]
        /\ \A w \in Workers : pc[w] \in Early => delCtx'[t] # cx[w]
    <3>1. CASE Chosen(t, delKey'[t]) /\ delCtx'[t] = sessions[delKey'[t]]
      BY <3>1 DEF Identity, Stored, Chosen
    <3>2. CASE delCtx'[t] \in droppable /\ delKey'[t] = dcidOf[delCtx'[t]]
      BY <3>2 DEF Identity, TypeInv, LocalsOK
    <3> QED BY <1>3, <3>1, <3>2 DEF Begins
  <2>2. t \in Workers => pc[t] \in Early /\ pc[t] \in Creating
    BY <1>3 DEF Begins, Early, Creating
  <2> QED BY <1>3, <2>1, <2>2, IdentityKept DEF Begins
<1>4. ASSUME NEW t \in Threads, OnDisconnect(t) \/ DeleteSession(t) PROVE Identity'
  <2>1. /\ UNCHANGED <<nextCtx, dcidOf, droppable, cx, pktCid, delKey, delCtx>>
        /\ pc[t] \in Deleting /\ \E l \in Deleting : Goto(t, l)
        /\ \A d \in DCIDs : sessions'[d] \in {sessions[d], NoCtx}
    BY <1>4 DEF OnDisconnect, DeleteSession, contexts, created, locals, packet, deletion, table, Deleting,
         TypeInv, TypeOK
  <2>2. Steady(t) /\ pc'[t] \in Deleting /\ (t \in Workers => Onward(t))
    BY <2>1, <1>w DEF Steady, Onward, Goto
  <2>3. /\ delCtx'[t] < nextCtx /\ dcidOf[delCtx'[t]] = delKey'[t]
        /\ \A w \in Workers : pc[w] \in Early => delCtx'[t] # cx[w]
    BY <2>1 DEF Identity
  <2> QED BY <1>w, <2>1, <2>2, <2>3, IdentityKept
<1>5. ASSUME NEW w \in Workers, NEW a \in Addrs, NEW d \in DCIDs, ReceiveInitial(w, a, d) PROVE Identity'
  <2>1. /\ UNCHANGED <<sessions, nextCtx, dcidOf, droppable, cx, delKey, delCtx>>
        /\ pktCid' = [pktCid EXCEPT ![w] = d] /\ Goto(w, "connect")
    BY <1>5 DEF ReceiveInitial, table, contexts, created, deletion
  <2>2. Steady(w) /\ pc'[w] = "connect"
    BY <2>1, <1>w DEF Steady, Goto
  <2> QED BY <2>1, <2>2, <1>w, IdentityKept DEF Early, Creating, Reserving, Deleting
<1>6. ASSUME NEW w \in Workers, Dial(w) PROVE Identity'
  <2>1. /\ UNCHANGED <<sessions, nextCtx, dcidOf, droppable, cx, pktCid, delKey, delCtx>>
        /\ pc[w] = "dial" /\ Goto(w, "store")
    BY <1>6 DEF Dial, table, created, locals, packet, deletion
  <2>2. Steady(w) /\ pc'[w] = "store" /\ Onward(w)
    BY <2>1, <1>w DEF Steady, Onward, Goto
  <2> QED BY <2>1, <2>2, <1>w, IdentityKept DEF Early, Creating, Reserving, Deleting
<1>7. ASSUME NEW w \in Workers, NewContext(w) PROVE Identity'
  <2>1. /\ UNCHANGED <<sessions, droppable, pktCid, delKey, delCtx>>
        /\ pc' = [pc EXCEPT ![w] = "onConnect"] /\ cx' = [cx EXCEPT ![w] = nextCtx]
        /\ dcidOf' = [dcidOf EXCEPT ![nextCtx] = pktCid[w]] /\ nextCtx' = nextCtx + 1
        /\ nextCtx \in Ctxs /\ nextCtx \in Int
    BY <1>7 DEF NewContext, table, packet, deletion, Goto, Ctxs, TypeInv, TypeOK
  <2>2. /\ pc'[w] = "onConnect" /\ cx'[w] = nextCtx /\ dcidOf'[nextCtx] = pktCid[w]
        /\ \A u \in Threads : u # w => pc'[u] = pc[u]
        /\ \A v \in Workers : v # w => cx'[v] = cx[v]
        /\ \A c \in Ctxs : c # nextCtx => dcidOf'[c] = dcidOf[c]
    BY <2>1, <1>w DEF TypeInv, TypeOK
  <2>3. /\ \A v \in Workers : v # w /\ pc'[v] \in Creating => cx[v] \in Ctxs /\ cx[v] # nextCtx /\ pc[v] \in Creating
        /\ \A d \in Stored : sessions[d] \in Ctxs /\ sessions[d] < nextCtx' /\ sessions[d] # nextCtx
        /\ \A u \in Threads : pc'[u] \in Deleting =>
             pc[u] \in Deleting /\ delCtx[u] \in Ctxs /\ delCtx[u] < nextCtx' /\ delCtx[u] # nextCtx
        /\ nextCtx \notin droppable
    <3>1. \A v \in Workers : v # w /\ pc'[v] \in Creating => cx[v] \in Ctxs /\ cx[v] < nextCtx /\ pc[v] \in Creating
      BY <2>2, <1>w DEF TypeInv, LocalsOK
    <3>2. \A d \in Stored : sessions[d] \in Ctxs /\ sessions[d] < nextCtx
      BY DEF Identity, Stored, TypeInv, TypeOK
    <3>3. \A u \in Threads : pc'[u] \in Deleting => pc[u] \in Deleting /\ delCtx[u] \in Ctxs /\ delCtx[u] < nextCtx
      BY <2>2 DEF Identity, TypeInv, LocalsOK, Deleting
    <3>4. \A c \in droppable : c < nextCtx
      BY DEF TypeInv, LocalsOK
    <3> HIDE DEF TypeInv, Identity
    <3> QED BY <2>1, <3>1, <3>2, <3>3, <3>4 DEF Ctxs
  <2>4. \A v \in Workers : pc'[v] \in Creating => dcidOf'[cx'[v]] = pktCid'[v]
    BY <2>1, <2>2, <2>3 DEF Identity
  <2>5. \A u, v \in Workers : u # v /\ pc'[u] \in Creating /\ pc'[v] \in Creating => cx'[u] # cx'[v]
    BY <2>2, <2>3 DEF Identity
  <2>6. \A d \in Stored' : sessions'[d] < nextCtx' /\ dcidOf'[sessions'[d]] = d
    BY <2>1, <2>2, <2>3 DEF Identity, Stored
  <2>7. \A u \in Threads : pc'[u] \in Deleting => delCtx'[u] < nextCtx' /\ dcidOf'[delCtx'[u]] = delKey'[u]
    BY <2>1, <2>2, <2>3 DEF Identity
  <2>8. ASSUME NEW v \in Workers, pc'[v] \in Early
        PROVE  /\ \A d \in DCIDs : sessions'[d] # cx'[v]
               /\ \A u \in Threads : pc'[u] \in Deleting => delCtx'[u] # cx'[v]
               /\ cx'[v] \notin droppable'
    <3>1. CASE v = w
      <4>1. nextCtx # NoCtx
        BY <2>1 DEF Ctxs, NoCtx
      <4> QED BY <2>1, <2>2, <2>3, <3>1, <4>1 DEF Stored
    <3>2. CASE v # w
      <4>1. pc[v] \in Early /\ cx'[v] = cx[v]
        BY <2>2, <2>8, <3>2, <1>w
      <4> QED BY <2>1, <2>3, <4>1 DEF Identity
    <3> QED BY <3>1, <3>2
  <2> QED BY <2>4, <2>5, <2>6, <2>7, <2>8 DEF Identity
<1>8. ASSUME NEW w \in Workers, PutSession(w) PROVE Identity'
  <2>1. /\ UNCHANGED <<droppable, cx, pktCid, delKey, delCtx, nextCtx, dcidOf>>
        /\ pc[w] = "put" /\ pc' = [pc EXCEPT ![w] = "retain"]
        /\ sessions' = [sessions EXCEPT ![pktCid[w]] = cx[w]]
    BY <1>8 DEF PutSession, contexts, created, locals, packet, deletion, Goto
  <2>2. /\ pc'[w] = "retain" /\ \A u \in Threads : u # w => pc'[u] = pc[u]
        /\ pktCid[w] \in DCIDs /\ cx[w] < nextCtx /\ dcidOf[cx[w]] = pktCid[w] /\ pc[w] \in Creating
        /\ sessions'[pktCid[w]] = cx[w] /\ \A d \in DCIDs : d # pktCid[w] => sessions'[d] = sessions[d]
    BY <2>1, <1>w DEF TypeInv, TypeOK, LocalsOK, Creating, Identity
  <2>3. \A u \in Threads : pc'[u] \in Deleting => pc[u] \in Deleting
    BY <2>2 DEF Deleting
  <2>4. \A v \in Workers : (pc'[v] \in Creating => pc[v] \in Creating) /\ (pc'[v] \in Early => v # w /\ pc[v] \in Early)
    BY <2>2, <1>w DEF Early
  <2>5. \A d \in Stored' : sessions'[d] < nextCtx' /\ dcidOf'[sessions'[d]] = d
    BY <2>1, <2>2 DEF Identity, Stored
  <2>6. ASSUME NEW v \in Workers, pc'[v] \in Early PROVE \A d \in DCIDs : sessions'[d] # cx'[v]
    BY <2>1, <2>2, <2>4, <2>6, <1>w DEF Identity
  <2> QED BY <2>1, <2>3, <2>4, <2>5, <2>6 DEF Identity
<1>9. ASSUME NEW w \in Workers, SetDropSession(w) PROVE Identity'
  <2>1. /\ UNCHANGED <<sessions, delKey, delCtx, nextCtx, dcidOf>>
        /\ pc[w] = "publish" /\ pc' = [pc EXCEPT ![w] = "idle"] /\ droppable' = droppable \cup {cx[w]}
        /\ \A v \in Workers : v # w => cx'[v] = cx[v] /\ pktCid'[v] = pktCid[v]
    BY <1>9, <1>w DEF SetDropSession, Finish, created, table, deletion, Goto
  <2>2. /\ pc'[w] = "idle" /\ \A u \in Threads : u # w => pc'[u] = pc[u]
        /\ pc[w] \in Creating
    BY <2>1, <1>w DEF Creating
  <2>3. \A u \in Threads : pc'[u] \in Deleting => pc[u] \in Deleting
    BY <2>2 DEF Deleting
  <2>4. \A v \in Workers : pc'[v] \in Creating => v # w /\ pc[v] \in Creating /\ cx[v] # cx[w]
    BY <2>2, <1>w DEF Creating, Reserving, Deleting, Identity
  <2>5. \A v \in Workers : pc'[v] \in Early => pc[v] \in Early
    BY <2>2, <2>4, <1>w
  <2> QED BY <2>1, <2>3, <2>4, <2>5, <1>w DEF Identity, Stored
<1> QED BY <1>1, <1>2, <1>3, <1>4, <1>5, <1>6, <1>7, <1>8, <1>9, StepKinds

\* Contexts are where their DCIDs say in every reachable state.
LEMMA IdentityInvariant == Spec => []Identity
<1>1. Init => Identity
  <2> SUFFICES ASSUME Init PROVE Identity
    OBVIOUS
  <2>1. (\A t \in Threads : pc[t] = "idle") /\ Stored = {} /\ Workers \subseteq Threads
    BY DEF Init, Stored, Threads
  <2>2. "idle" \notin Creating /\ "idle" \notin Deleting /\ "idle" \notin Early
    BY DEF Early, Creating, Reserving, Deleting
  <2> QED BY <2>1, <2>2 DEF Identity
<1> QED BY <1>1, TypeInvariant, IdentityStep, PTL DEF Spec

-----------------------------------------------------------------------------
(* Connections with DCIDs of their own.                                    *)

\* A step that opens no connection and creates no context keeps Unique.
LEMMA UniqueKept ==
  ASSUME Unique, UNCHANGED <<nextCtx, dcidOf>>,
         \A w \in Workers : pc'[w] = "connect" => pc[w] = "connect" /\ pktCid'[w] = pktCid[w]
  PROVE  Unique'
  BY DEF Unique

\* If clients do not reuse a DCID, Unique is inductive.
LEMMA UniqueStep == ~ReuseDCID /\ TypeInv /\ Unique /\ [Next]_vars => Unique'
<1> SUFFICES ASSUME ~ReuseDCID, TypeInv, Unique, [Next]_vars PROVE Unique'
  OBVIOUS
<1>w. /\ Workers \subseteq Threads
      /\ pc \in [Threads -> Labels] /\ cx \in [Workers -> Ctxs \cup {NoCtx}]
      /\ pktCid \in [Workers -> DCIDs \cup SCIDs \cup {NoKey}]
  BY DEF Threads, TypeInv, TypeOK
<1>1. CASE Still
  BY <1>1, UniqueKept DEF Still
<1>2. ASSUME NEW t \in Threads, Moves(t) \/ Begins(t) PROVE Unique'
  BY <1>2, <1>w, UniqueKept DEF Moves, Begins, Steady
<1>3. ASSUME NEW t \in Threads, OnDisconnect(t) \/ DeleteSession(t) PROVE Unique'
  <2>1. UNCHANGED <<nextCtx, dcidOf, pktCid>> /\ \E l \in {"remove", "uncount"} : Goto(t, l)
    BY <1>3 DEF OnDisconnect, DeleteSession, contexts, created, locals, packet
  <2> QED BY <2>1, <1>w, UniqueKept DEF Goto
<1>4. ASSUME NEW w \in Workers, Dial(w) \/ PutSession(w) PROVE Unique'
  <2>1. UNCHANGED <<nextCtx, dcidOf, pktCid>> /\ \E l \in {"store", "retain"} : Goto(w, l)
    BY <1>4 DEF Dial, PutSession, contexts, created, locals, packet
  <2> QED BY <2>1, <1>w, UniqueKept DEF Goto
<1>5. ASSUME NEW w \in Workers, SetDropSession(w) PROVE Unique'
  <2>1. /\ UNCHANGED <<nextCtx, dcidOf>> /\ pc' = [pc EXCEPT ![w] = "idle"]
        /\ pktCid' = [pktCid EXCEPT ![w] = NoKey]
    BY <1>5 DEF SetDropSession, Finish, Goto, created
  <2> QED BY <2>1, <1>w, UniqueKept
<1>6. ASSUME NEW w \in Workers, NEW a \in Addrs, NEW d \in DCIDs, ReceiveInitial(w, a, d) PROVE Unique'
  <2>1. /\ UNCHANGED <<nextCtx, dcidOf>> /\ pc' = [pc EXCEPT ![w] = "connect"]
        /\ pktCid' = [pktCid EXCEPT ![w] = d]
        /\ \A c \in 1..(nextCtx - 1) : dcidOf[c] # d
        /\ \A v \in Workers : pktCid[v] # d
    BY <1>6 DEF ReceiveInitial, Goto, contexts, created
  <2>2. /\ pktCid'[w] = d /\ \A v \in Workers : v # w => pktCid'[v] = pktCid[v] /\ pc'[v] = pc[v]
        /\ \A c \in Ctxs : c < nextCtx => dcidOf[c] # d
    BY <2>1, <1>w DEF Ctxs, TypeInv, TypeOK
  <2> QED BY <2>1, <2>2 DEF Unique
<1>7. ASSUME NEW w \in Workers, NewContext(w) PROVE Unique'
  <2>1. /\ pktCid' = pktCid /\ pc[w] = "connect" /\ pc' = [pc EXCEPT ![w] = "onConnect"]
        /\ dcidOf' = [dcidOf EXCEPT ![nextCtx] = pktCid[w]] /\ nextCtx' = nextCtx + 1
        /\ nextCtx \in Ctxs /\ nextCtx \in Int
    BY <1>7 DEF NewContext, packet, Goto, Ctxs, TypeInv, TypeOK
  <2>2. /\ pc'[w] = "onConnect" /\ dcidOf'[nextCtx] = pktCid[w]
        /\ \A v \in Workers : v # w => pc'[v] = pc[v]
        /\ \A c \in Ctxs : c # nextCtx => dcidOf'[c] = dcidOf[c]
        /\ \A c \in Ctxs : c < nextCtx' => c = nextCtx \/ c < nextCtx
    BY <2>1, <1>w DEF TypeInv, TypeOK, Ctxs
  <2>3. \A c \in Ctxs : c < nextCtx => dcidOf[c] # pktCid[w]
    BY <2>1 DEF Unique
  <2>4. ASSUME NEW b \in Ctxs, NEW c \in Ctxs, b < nextCtx', c < nextCtx', dcidOf'[b] = dcidOf'[c] PROVE b = c
    <3>1. CASE b = nextCtx \/ c = nextCtx
      BY <2>2, <2>3, <2>4, <3>1
    <3>2. CASE b # nextCtx /\ c # nextCtx
      BY <2>2, <2>4, <3>2 DEF Unique
    <3> QED BY <3>1, <3>2
  <2>5. ASSUME NEW v \in Workers, pc'[v] = "connect", NEW c \in Ctxs, c < nextCtx'
        PROVE  dcidOf'[c] # pktCid'[v]
    <3>1. v # w /\ pc[v] = "connect" /\ pktCid[v] # pktCid[w]
      BY <2>1, <2>2, <2>5 DEF Unique
    <3> QED BY <2>1, <2>2, <2>5, <3>1 DEF Unique
  <2>6. \A u, v \in Workers : u # v /\ pc'[u] = "connect" /\ pc'[v] = "connect" => pktCid'[u] # pktCid'[v]
    BY <2>1, <2>2 DEF Unique
  <2> QED BY <2>4, <2>5, <2>6 DEF Unique
<1> QED BY <1>1, <1>2, <1>3, <1>4, <1>5, <1>6, <1>7, StepKinds

\* A worker about to store its session finds the key free.
LEMMA KeyFree ==
  ASSUME TypeInv, Identity, Unique, NEW w \in Workers, pc[w] \in Early
  PROVE  /\ pktCid[w] \in DCIDs /\ sessions[pktCid[w]] = NoCtx
         /\ \A t \in Threads : pc[t] \in Deleting => delKey[t] # pktCid[w]
<1>1. pktCid[w] \in DCIDs /\ cx[w] \in Ctxs /\ cx[w] < nextCtx /\ dcidOf[cx[w]] = pktCid[w] /\ pc[w] \in Creating
  BY DEF TypeInv, LocalsOK, Identity, Early
<1>2. sessions[pktCid[w]] = NoCtx
  <2> SUFFICES ASSUME sessions[pktCid[w]] # NoCtx PROVE FALSE
    OBVIOUS
  <2>1. pktCid[w] \in Stored /\ sessions[pktCid[w]] \in Ctxs
    BY <1>1 DEF Stored, TypeInv, TypeOK
  <2>2. sessions[pktCid[w]] < nextCtx /\ dcidOf[sessions[pktCid[w]]] = pktCid[w]
    BY <2>1 DEF Identity
  <2>3. sessions[pktCid[w]] = cx[w]
    BY <1>1, <2>1, <2>2 DEF Unique
  <2> QED BY <1>1, <2>3 DEF Identity
<1>3. ASSUME NEW t \in Threads, pc[t] \in Deleting, delKey[t] = pktCid[w] PROVE FALSE
  <2>1. delCtx[t] \in Ctxs /\ delCtx[t] < nextCtx /\ dcidOf[delCtx[t]] = pktCid[w]
    BY <1>3 DEF Identity, TypeInv, LocalsOK
  <2>2. delCtx[t] = cx[w]
    BY <1>1, <2>1 DEF Unique
  <2> QED BY <1>1, <1>3, <2>2 DEF Identity
<1> QED BY <1>1, <1>2, <1>3

\* A DCID that a deleter has taken out of the table stays out.
LEMMA GoneStep == TypeInv /\ Identity /\ Unique /\ Gone /\ [Next]_vars => Gone'
<1> SUFFICES ASSUME TypeInv, Identity, Unique, Gone, [Next]_vars PROVE Gone'
  OBVIOUS
<1>w. /\ Workers \subseteq Threads /\ Removed \subseteq Deleting
      /\ pc \in [Threads -> Labels] /\ sessions \in [DCIDs -> Ctxs \cup {NoCtx}]
      /\ \A t \in Threads : pc[t] \in Deleting => delKey[t] \in DCIDs
  BY DEF Threads, TypeInv, TypeOK, LocalsOK, Removed, Deleting
<1>1. CASE Still
  BY <1>1 DEF Still, Gone
<1>2. ASSUME NEW t \in Threads, Moves(t) PROVE Gone'
  <2>1. \A u \in Threads : pc'[u] \in Removed => pc[u] \in Removed /\ delKey'[u] = delKey[u]
    BY <1>2, <1>w DEF Moves, Steady
  <2> QED BY <1>2, <2>1 DEF Gone, Moves
<1>3. ASSUME NEW t \in Threads, Begins(t) PROVE Gone'
  <2>1. \A u \in Threads : pc'[u] \in Removed => pc[u] \in Removed /\ delKey'[u] = delKey[u]
    BY <1>3 DEF Begins, Steady, Removed
  <2> QED BY <1>3, <2>1 DEF Gone, Begins
<1>4. ASSUME NEW t \in Threads, OnDisconnect(t) PROVE Gone'
  <2>1. UNCHANGED <<sessions, delKey>> /\ pc' = [pc EXCEPT ![t] = "remove"]
    BY <1>4 DEF OnDisconnect, table, deletion, Goto
  <2>2. \A u \in Threads : pc'[u] \in Removed => pc[u] \in Removed
    BY <2>1, <1>w DEF Removed
  <2> QED BY <2>1, <2>2 DEF Gone
<1>5. ASSUME NEW t \in Threads, DeleteSession(t) PROVE Gone'
  <2>1. /\ UNCHANGED delKey /\ pc[t] \in Deleting /\ pc' = [pc EXCEPT ![t] = "uncount"]
        /\ sessions' = [sessions EXCEPT ![delKey[t]] = NoCtx]
    BY <1>5 DEF DeleteSession, deletion, Goto, Deleting
  <2>2. \A u \in Threads : u # t /\ pc'[u] \in Removed => pc[u] \in Removed
    BY <2>1, <1>w
  <2>3. \A u \in Threads : pc'[u] \in Removed => delKey[u] \in DCIDs /\ (u = t \/ sessions[delKey[u]] = NoCtx)
    BY <2>1, <2>2, <1>w DEF Gone
  <2> QED BY <2>1, <2>3, <1>w DEF Gone
<1>6. ASSUME NEW w \in Workers, UNCHANGED <<sessions, delKey>>,
             NEW l, Goto(w, l), l \notin Deleting
      PROVE  Gone'
  <2>1. \A u \in Threads : pc'[u] \in Removed => pc[u] \in Removed
    BY <1>6, <1>w DEF Goto
  <2> QED BY <1>6, <2>1 DEF Gone
<1>7. ASSUME NEW w \in Workers, Dial(w) \/ NewContext(w) \/ SetDropSession(w) PROVE Gone'
  BY <1>6, <1>7 DEF Dial, NewContext, SetDropSession, Finish, table, deletion, Deleting
<1>8. ASSUME NEW w \in Workers, NEW a \in Addrs, NEW d \in DCIDs, ReceiveInitial(w, a, d) PROVE Gone'
  BY <1>6, <1>8 DEF ReceiveInitial, table, deletion, Deleting
<1>9. ASSUME NEW w \in Workers, PutSession(w) PROVE Gone'
  <2>1. /\ UNCHANGED delKey /\ pc[w] = "put" /\ pc' = [pc EXCEPT ![w] = "retain"]
        /\ sessions' = [sessions EXCEPT ![pktCid[w]] = cx[w]]
    BY <1>9 DEF PutSession, deletion, Goto
  <2>2. pc[w] \in Early
    BY <2>1 DEF Early, Creating
  <2>3. \A u \in Threads : pc'[u] \in Removed => pc[u] \in Removed
    BY <2>1, <1>w DEF Removed
  <2>4. \A u \in Threads : pc[u] \in Removed => delKey[u] \in DCIDs /\ delKey[u] # pktCid[w]
    BY <2>2, <1>w, KeyFree
  <2> QED BY <2>1, <2>3, <2>4, <1>w DEF Gone
<1> QED BY <1>1, <1>2, <1>3, <1>4, <1>5, <1>7, <1>8, <1>9, StepKinds

\* What holds of the table when clients do not reuse DCIDs: DCIDs tell the
\* contexts apart, what is deleted stays deleted, and the counter is exact.
Apart == Identity /\ Unique /\ Gone /\ Exact

\* Initially there is no context and no session.
LEMMA ApartInit == Init => Unique /\ Gone /\ Exact
<1> SUFFICES ASSUME Init PROVE Unique /\ Gone /\ Exact
  OBVIOUS
<1>1. (\A t \in Threads : pc[t] = "idle") /\ nextCtx = 1 /\ sessionCount = 0 /\ Workers \subseteq Threads
  BY DEF Init, Threads
<1>2. Stored = {} /\ SlotHolders = {} /\ Debtors = {}
  BY <1>1 DEF Init, Stored, SlotHolders, Debtors, Deleting
<1>3. Exact
  BY <1>1, <1>2, FS_EmptySet DEF Exact
<1>4. Unique /\ Gone
  BY <1>1 DEF Unique, Gone, Removed, Ctxs
<1> QED BY <1>3, <1>4

\* Apart holds in every reachable state.
LEMMA ApartInvariant == ASSUME ~ReuseDCID PROVE Spec => []Apart
<1>1. TypeInv /\ SlotInv /\ Identity /\ Unique /\ Gone /\ Exact /\ [Next]_vars => Unique' /\ Gone' /\ Exact'
  <2> SUFFICES ASSUME TypeInv, SlotInv, Identity, Unique, Gone, Exact, [Next]_vars
               PROVE  Unique' /\ Gone' /\ Exact'
    OBVIOUS
  <2>1. \A w \in Workers : pc[w] = "put" => pktCid[w] \notin Stored
    BY KeyFree DEF Early, Creating, Stored
  <2>2. Exact'
    BY <2>1, SlotStep DEF ExactKept
  <2> QED BY <2>2, UniqueStep, GoneStep
<1> QED BY <1>1, ApartInit, TypeInvariant, SlotInvariant, IdentityInvariant, PTL DEF Spec, Apart

\* Whenever nothing is in progress SessionCount() is the number of sessions,
\* if clients do not reuse a DCID: reservations, stores, evictions, drops and
\* Stop leave nothing counted that is gone and nothing gone that is counted.
THEOREM CountSafe == ASSUME ~ReuseDCID PROVE Spec => []CountMatchesTable
<1>1. Apart => CountMatchesTable
  <2> SUFFICES ASSUME Exact, Quiet PROVE sessionCount = Cardinality(Stored)
    BY DEF Apart, CountMatchesTable
  <2>1. SlotHolders = {} /\ Debtors = {}
    BY DEF Quiet, SlotHolders, Debtors, Threads, Deleting
  <2>2. Cardinality(SlotHolders) = 0 /\ Cardinality(Debtors) = 0
    BY <2>1, FS_EmptySet
  <2> QED BY <2>2, FiniteSlots DEF Exact
<1> QED BY <1>1, ApartInvariant, PTL

-----------------------------------------------------------------------------
(* Backend sockets.                                                        *)

\* A context that is about to leave the table has been closed.
Closed ==
  /\ \A t \in Threads : pc[t] = "remove" => ~open[delCtx[t]]
  /\ \A c \in Ctxs : c >= nextCtx => ~open[c]

\* The worker w holds the socket of context c, which it is about to store.
Holding(w, c) == cx[w] = c /\ pc[w] \in Early \ {"onConnect", "dial"}
Kept(c) == \/ dcidOf[c] \in Stored /\ sessions[dcidOf[c]] = c
           \/ \E w \in Workers : Holding(w, c)
LeakInv == Closed /\ \A c \in Ctxs : open[c] => Kept(c)

\* The labels of NoBackendLeak are those of Kept.
LEMMA KeptMeans == LeakInv => NoBackendLeak
<1>1. Early \ {"onConnect", "dial"} = {"store", "collect", "evict", "put"} \cup Deleting
  BY DEF Early, Creating, Reserving, Deleting
<1> QED BY <1>1 DEF LeakInv, Kept, Holding, NoBackendLeak

\* A step that opens no socket and takes no session out of the table.
LEMMA LeakKept ==
  ASSUME TypeInv, LeakInv, NEW t \in Threads, Steady(t), UNCHANGED sessions,
         \A c \in Ctxs : open'[c] => open[c],
         pc'[t] # "remove",
         t \in Workers /\ pc[t] \in Early \ {"onConnect", "dial"} =>
           pc'[t] \in Early \ {"onConnect", "dial"} /\ Onward(t)
  PROVE  LeakInv'
<1>1. ASSUME NEW u \in Threads, pc'[u] = "remove" PROVE ~open'[delCtx'[u]]
  <2>1. pc[u] = "remove" /\ delCtx'[u] = delCtx[u] /\ delCtx[u] \in Ctxs
    BY <1>1 DEF Steady, TypeInv, LocalsOK, Deleting
  <2> QED BY <2>1 DEF LeakInv, Closed
<1>2. ASSUME NEW c \in Ctxs, open'[c] PROVE Kept(c)'
  <2>1. Kept(c)
    BY <1>2 DEF LeakInv
  <2>2. CASE dcidOf[c] \in Stored /\ sessions[dcidOf[c]] = c
    BY <2>2 DEF Kept, Steady, Stored
  <2>3. ASSUME NEW w \in Workers, Holding(w, c) PROVE Holding(w, c)'
    BY <2>3 DEF Holding, Steady, Onward, Threads
  <2> QED BY <2>1, <2>2, <2>3 DEF Kept
<1>3. Closed'
  BY <1>1 DEF Closed, LeakInv, Steady
<1> QED BY <1>2, <1>3 DEF LeakInv

\* No step loses an open socket.
LEMMA LeakStep == TypeInv /\ Identity /\ Unique /\ LeakInv /\ [Next]_vars => LeakInv'
<1> SUFFICES ASSUME TypeInv, Identity, Unique, LeakInv, [Next]_vars PROVE LeakInv'
  OBVIOUS
<1>w. /\ Workers \subseteq Threads /\ pc \in [Threads -> Labels] /\ open \in [Ctxs -> BOOLEAN]
      /\ cx \in [Workers -> Ctxs \cup {NoCtx}] /\ sessions \in [DCIDs -> Ctxs \cup {NoCtx}]
      /\ \A t \in Threads : pc[t] \in Deleting => delKey[t] \in DCIDs /\ delCtx[t] \in Ctxs
      /\ \A w \in Workers : pc[w] \in Creating => cx[w] \in Ctxs /\ cx[w] < nextCtx
      /\ nextCtx \in Int /\ "remove" \in Deleting /\ "disconnect" \in Deleting /\ Early \subseteq Creating
  BY DEF Threads, TypeInv, TypeOK, LocalsOK, Deleting, Early
<1>1. CASE Still
  BY <1>1 DEF Still, LeakInv, Closed, Kept, Holding, Stored
<1>2. ASSUME NEW t \in Threads, Moves(t) PROVE LeakInv'
  <2>1. t \in Workers /\ pc[t] \in Early \ {"onConnect", "dial"} =>
          pc'[t] \in Early \ {"onConnect", "dial"} /\ Onward(t)
    BY <1>2, <1>w DEF Moves
  <2> QED BY <1>2, <2>1, LeakKept DEF Moves
<1>3. ASSUME NEW t \in Threads, Begins(t) PROVE LeakInv'
  <2>1. t \in Workers => pc'[t] \in Early \ {"onConnect", "dial"} /\ Onward(t)
    BY <1>3 DEF Begins, Early, Creating, Deleting
  <2> QED BY <1>3, <2>1, LeakKept DEF Begins
<1>4. ASSUME NEW w \in Workers, NEW a \in Addrs, NEW d \in DCIDs, ReceiveInitial(w, a, d) PROVE LeakInv'
  <2>1. /\ UNCHANGED <<sessions, open, nextCtx, dcidOf, cx, delKey, delCtx>> /\ pc[w] = "idle"
        /\ pktCid' = [pktCid EXCEPT ![w] = d] /\ Goto(w, "connect")
    BY <1>4 DEF ReceiveInitial, table, contexts, created, deletion
  <2>2. Steady(w) /\ pc'[w] = "connect"
    BY <2>1, <1>w DEF Steady, Goto, TypeInv, TypeOK
  <2> QED BY <2>1, <2>2, <1>w, LeakKept DEF Early, Creating, Reserving, Deleting
<1>5. ASSUME NEW w \in Workers, SetDropSession(w) PROVE LeakInv'
  <2>1. /\ UNCHANGED <<sessions, open, nextCtx, dcidOf, delKey, delCtx>> /\ pc[w] = "publish" /\ Goto(w, "idle")
        /\ \A v \in Workers : v # w => cx'[v] = cx[v] /\ pktCid'[v] = pktCid[v]
    BY <1>5 DEF SetDropSession, Finish, table, created, deletion, TypeInv, TypeOK
  <2>2. Steady(w) /\ pc'[w] = "idle"
    BY <2>1, <1>w DEF Steady, Goto
  <2> QED BY <2>1, <2>2, <1>w, LeakKept DEF Early
<1>6. ASSUME NEW w \in Workers, NewContext(w) PROVE LeakInv'
  <2>1. /\ UNCHANGED <<sessions, open, delCtx>> /\ pc[w] = "connect"
        /\ pc' = [pc EXCEPT ![w] = "onConnect"] /\ cx' = [cx EXCEPT ![w] = nextCtx]
        /\ dcidOf' = [dcidOf EXCEPT ![nextCtx] = pktCid[w]] /\ nextCtx' = nextCtx + 1
        /\ nextCtx \in Ctxs
    BY <1>6 DEF NewContext, table, deletion, Goto, Ctxs, TypeInv, TypeOK
  <2>2. \A u \in Threads : pc'[u] = "remove" => pc[u] = "remove"
    BY <2>1, <1>w
  <2>3. Closed'
    BY <2>1, <2>2, <1>w DEF LeakInv, Closed, Ctxs
  <2>4. ASSUME NEW c \in Ctxs, open[c] PROVE Kept(c)'
    <3>1. c # nextCtx /\ dcidOf'[c] = dcidOf[c] /\ Kept(c)
      BY <2>1, <2>4, <1>w DEF LeakInv, Closed, TypeInv, TypeOK
    <3>2. ASSUME NEW v \in Workers, Holding(v, c) PROVE Holding(v, c)'
      BY <2>1, <3>2, <1>w DEF Holding, Early, Creating, Reserving, Deleting
    <3> QED BY <2>1, <3>1, <3>2 DEF Kept, Stored
  <2> QED BY <2>1, <2>3, <2>4 DEF LeakInv
<1>7. ASSUME NEW w \in Workers, Dial(w) PROVE LeakInv'
  <2>1. /\ UNCHANGED <<sessions, nextCtx, dcidOf, cx, delCtx>> /\ pc[w] = "dial"
        /\ pc' = [pc EXCEPT ![w] = "store"] /\ open' = [open EXCEPT ![cx[w]] = TRUE]
    BY <1>7 DEF Dial, table, created, locals, packet, deletion, Goto
  <2>2. /\ pc[w] \in Early /\ "store" \in Early \ {"onConnect", "dial"}
        /\ \A u \in Threads : pc'[u] = "remove" => pc[u] = "remove"
    BY <2>1, <1>w DEF Early, Creating, Reserving, Deleting
  <2>3. \A u \in Threads : pc[u] = "remove" => delCtx[u] # cx[w]
    BY <2>2, <1>w DEF Identity
  <2>4. Closed'
    <3>1. cx[w] \in Ctxs /\ cx[w] < nextCtx /\ \A c \in Ctxs : c # cx[w] => open'[c] = open[c]
      BY <2>1, <2>2, <1>w
    <3>2. \A u \in Threads : pc'[u] = "remove" => ~open'[delCtx'[u]]
      BY <2>1, <2>2, <2>3, <3>1, <1>w DEF LeakInv, Closed
    <3>3. \A c \in Ctxs : c >= nextCtx => c # cx[w]
      BY <3>1, <1>w DEF Ctxs
    <3> QED BY <2>1, <3>1, <3>2, <3>3 DEF LeakInv, Closed
  <2>5. ASSUME NEW c \in Ctxs, open'[c] PROVE Kept(c)'
    <3>1. CASE c = cx[w]
      BY <2>1, <2>2, <3>1, <1>w DEF Kept, Holding
    <3>2. CASE c # cx[w]
      <4>1. Kept(c)
        BY <2>1, <2>5, <3>2, <1>w DEF LeakInv
      <4>2. ASSUME NEW v \in Workers, Holding(v, c) PROVE Holding(v, c)'
        BY <2>1, <3>2, <4>2, <1>w DEF Holding
      <4> QED BY <2>1, <4>1, <4>2 DEF Kept, Stored
    <3> QED BY <3>1, <3>2
  <2> QED BY <2>4, <2>5 DEF LeakInv
<1>8. ASSUME NEW w \in Workers, PutSession(w) PROVE LeakInv'
  <2>1. /\ UNCHANGED <<open, cx, pktCid, delCtx, nextCtx, dcidOf>>
        /\ pc[w] = "put" /\ pc' = [pc EXCEPT ![w] = "retain"]
        /\ sessions' = [sessions EXCEPT ![pktCid[w]] = cx[w]]
    BY <1>8 DEF PutSession, contexts, created, locals, packet, deletion, Goto
  <2>2. pc[w] \in Early /\ pc[w] \in Creating /\ \A u \in Threads : pc'[u] = "remove" => pc[u] = "remove"
    BY <2>1, <1>w DEF Early, Creating
  <2>3. /\ pktCid[w] \in DCIDs /\ sessions[pktCid[w]] = NoCtx /\ dcidOf[cx[w]] = pktCid[w]
        /\ cx[w] \in Ctxs /\ cx[w] # NoCtx
    BY <2>2, <1>w, KeyFree DEF Identity, Ctxs, NoCtx
  <2>4. Closed'
    BY <2>1, <2>2, <1>w DEF LeakInv, Closed
  <2>5. ASSUME NEW c \in Ctxs, open[c] PROVE Kept(c)'
    <3>1. CASE c = cx[w]
      BY <2>1, <2>3, <3>1, <1>w DEF Kept, Stored
    <3>2. CASE c # cx[w] /\ dcidOf[c] \in Stored /\ sessions[dcidOf[c]] = c
      <4>1. dcidOf[c] # pktCid[w] /\ dcidOf[c] \in DCIDs
        BY <2>3, <3>2 DEF Stored
      <4> QED BY <2>1, <3>2, <4>1, <1>w DEF Kept, Stored
    <3>3. ASSUME c # cx[w], NEW v \in Workers, Holding(v, c) PROVE Holding(v, c)'
      BY <2>1, <3>3, <1>w DEF Holding
    <3> QED BY <2>5, <3>1, <3>2, <3>3 DEF LeakInv, Kept
  <2> QED BY <2>1, <2>4, <2>5 DEF LeakInv
<1>9. ASSUME NEW t \in Threads, OnDisconnect(t) PROVE LeakInv'
  <2>1. /\ UNCHANGED <<sessions, nextCtx, dcidOf, cx, delCtx>> /\ pc[t] = "disconnect"
        /\ pc' = [pc EXCEPT ![t] = "remove"] /\ open' = [open EXCEPT ![delCtx[t]] = FALSE]
    BY <1>9 DEF OnDisconnect, table, created, locals, packet, deletion, Goto
  <2>2. delCtx[t] \in Ctxs /\ ~open'[delCtx[t]] /\ \A c \in Ctxs : open'[c] => open[c]
    BY <2>1, <1>w
  <2>3. ASSUME NEW u \in Threads, pc'[u] = "remove" PROVE ~open'[delCtx'[u]]
    <3>1. CASE u = t
      BY <2>1, <2>2, <3>1
    <3>2. CASE u # t
      BY <2>1, <2>2, <2>3, <3>2, <1>w DEF LeakInv, Closed
    <3> QED BY <3>1, <3>2
  <2>4. Closed'
    BY <2>1, <2>2, <2>3 DEF LeakInv, Closed
  <2>5. ASSUME NEW c \in Ctxs, open'[c] PROVE Kept(c)'
    <3>1. Kept(c)
      BY <2>2, <2>5 DEF LeakInv
    <3>2. ASSUME NEW v \in Workers, Holding(v, c) PROVE Holding(v, c)'
      BY <2>1, <3>2, <1>w DEF Holding, Early, Creating
    <3> QED BY <2>1, <3>1, <3>2 DEF Kept, Stored
  <2> QED BY <2>4, <2>5 DEF LeakInv
<1>10. ASSUME NEW t \in Threads, DeleteSession(t) PROVE LeakInv'
  <2>1. /\ UNCHANGED <<open, nextCtx, dcidOf, cx, delCtx>> /\ pc[t] = "remove"
        /\ pc' = [pc EXCEPT ![t] = "uncount"] /\ sessions' = [sessions EXCEPT ![delKey[t]] = NoCtx]
    BY <1>10 DEF DeleteSession, contexts, created, locals, packet, deletion, Goto
  <2>2. /\ delKey[t] \in DCIDs /\ delCtx[t] \in Ctxs /\ delCtx[t] < nextCtx
        /\ dcidOf[delCtx[t]] = delKey[t] /\ ~open[delCtx[t]]
    BY <2>1, <1>w DEF Identity, LeakInv, Closed
  <2>3. Closed'
    BY <2>1, <1>w DEF LeakInv, Closed
  <2>4. ASSUME NEW c \in Ctxs, open[c] PROVE Kept(c)'
    <3>1. Kept(c)
      BY <2>4 DEF LeakInv
    <3>2. CASE dcidOf[c] \in Stored /\ sessions[dcidOf[c]] = c
      <4>1. c < nextCtx /\ c # delCtx[t] /\ dcidOf[c] \in DCIDs
        BY <2>2, <2>4, <3>2 DEF Identity, Stored
      <4>2. dcidOf[c] # delKey[t]
        BY <2>2, <4>1 DEF Unique
      <4> QED BY <2>1, <3>2, <4>1, <4>2, <1>w DEF Kept, Stored
    <3>3. ASSUME NEW v \in Workers, Holding(v, c) PROVE Holding(v, c)'
      BY <2>1, <3>3, <1>w DEF Holding, Early, Creating, Deleting
    <3> QED BY <3>1, <3>2, <3>3 DEF Kept
  <2> QED BY <2>1, <2>3, <2>4 DEF LeakInv
<1> QED BY <1>1, <1>2, <1>3, <1>4, <1>5, <1>6, <1>7, <1>8, <1>9, <1>10, StepKinds

\* No backend socket leaks if clients do not reuse a DCID: whoever deletes a
\* session by its key has closed the very context that it takes out, and a
\* worker stores its session over nobody else's.
THEOREM LeakSafe == ASSUME ~ReuseDCID PROVE Spec => []NoBackendLeak
<1>1. Init => LeakInv
  BY Zenon DEF Init, LeakInv, Closed, Kept, Threads
<1>2. Apart => Identity /\ Unique
  BY DEF Apart
<1> QED BY <1>1, <1>2, TypeInvariant, ApartInvariant, LeakStep, KeptMeans, PTL DEF Spec

-----------------------------------------------------------------------------
(* Aliases.                                                                *)

\* A reader runs only for a context whose worker has dialled.
Reading ==
  /\ \A c \in Ctxs : c >= nextCtx => rd[c] = "off"
  /\ \A w \in Workers : pc[w] \in {"onConnect", "dial"} => rd[cx[w]] = "off"

\* The readers move by themselves, Dial starts one, and only the readers and
\* deleteSessionAliases touch the aliases.
LEMMA AliasKinds ==
  ASSUME [Next]_vars
  PROVE  \/ UNCHANGED <<readers, aliases>>
         \/ \E w \in Workers : Dial(w)
         \/ \E t \in Threads : DeleteSessionAliases(t)
         \/ \E c \in Ctxs : ReaderStep(c)
<1> DEFINE Same == UNCHANGED <<readers, aliases>>
<1>1. ASSUME NEW w \in Workers, PacketStep(w) \/ WorkerExit(w) PROVE Same
  BY <1>1 DEF PacketStep, ReceivePacket, ReceiveInitial, WorkerExit
<1>2. ASSUME NEW w \in Workers, WorkerStep(w), ~Dial(w) PROVE Same
  BY <1>2 DEF WorkerStep, CheckAddr, BeginMigration, SetClientAddr, DeleteOldAddr, StoreNewAddr, NewContext,
       TryReserveSessionSlot, LimitReached, NoLimiter, ReleaseReservedSessionSlot, StoreSession, CollectOldest,
       EvictNext, EvictDone, PutSession, RetainChain, StoreClientAddr, SetDropSession
<1>3. ASSUME NEW t \in Threads, DeleteStep(t), ~DeleteSessionAliases(t) PROVE Same
  BY <1>3 DEF DeleteStep, OnDisconnect, DeleteSession, AlreadyDeleted, UncountSession, ReleaseChain,
       DeleteClientAddr
<1>4. ASSUME CleanupIdle \/ (\E t \in Droppers : Drop(t)) \/ ReloadStep \/ BeginStop \/ StopStep PROVE Same
  BY <1>4 DEF CleanupIdle, Drop, ReloadStep, SwapChain, RegisterChain, RetireChain,
       SetAllowConnectionMigration, BeginStop, StopStep, Drained, SweepNext, SweepDone,
       ShutdownRetiredChains, ShutdownCurrent
<1>5. CASE UNCHANGED vars
  BY <1>5 DEF vars
<1> QED BY <1>1, <1>2, <1>3, <1>4, <1>5 DEF Next

\* A reader moves one label on, and only if it is running.
LEMMA ReaderMoves ==
  ASSUME TypeInv, NEW c \in Ctxs, ReaderStep(c)
  PROVE  /\ Still /\ rd[c] # "off" /\ rd'[c] # "off"
         /\ \A b \in Ctxs : b # c => rd'[b] = rd[b] /\ rdScid'[b] = rdScid[b]
<1>1. rd \in [Ctxs -> {"off", "read", "check", "store", "track", "more"}] /\ rdScid \in [Ctxs -> SCIDs \cup {NoKey}]
  BY DEF TypeInv, TypeOK
<1>2. Still
  BY DEF ReaderStep, ServerPacket, DatagramDone, LearnServerSCID, StoreAlias, TrackSessionAlias, Still,
       table, contexts, created, locals, packet, deletion
<1>3. rd[c] # "off" /\ \E l \in {"read", "check", "store", "track", "more"} : rd' = [rd EXCEPT ![c] = l]
  BY DEF ReaderStep, ServerPacket, DatagramDone, LearnServerSCID, StoreAlias, TrackSessionAlias
<1>4. \A b \in Ctxs : b # c => rdScid'[b] = rdScid[b]
  BY <1>1 DEF ReaderStep, ServerPacket, DatagramDone, LearnServerSCID, StoreAlias, TrackSessionAlias
<1> QED BY <1>1, <1>2, <1>3, <1>4

\* Reading is inductive.
LEMMA ReadingStep == TypeInv /\ Identity /\ Reading /\ [Next]_vars => Reading'
<1> SUFFICES ASSUME TypeInv, Identity, Reading, [Next]_vars PROVE Reading'
  OBVIOUS
<1>w. /\ Workers \subseteq Threads /\ pc \in [Threads -> Labels]
      /\ cx \in [Workers -> Ctxs \cup {NoCtx}] /\ rd \in [Ctxs -> {"off", "read", "check", "store", "track", "more"}]
      /\ \A w \in Workers : pc[w] \in Creating => cx[w] \in Ctxs /\ cx[w] < nextCtx
      /\ nextCtx \in Int /\ "onConnect" \in Creating /\ "dial" \in Creating
  BY DEF Threads, TypeInv, TypeOK, LocalsOK, Creating, Reserving
<1>1. ASSUME NEW c \in Ctxs, ReaderStep(c) PROVE Reading'
  <2>1. /\ UNCHANGED <<nextCtx, pc, cx>> /\ rd[c] # "off"
        /\ \A b \in Ctxs : b # c => rd'[b] = rd[b]
    BY <1>1, ReaderMoves DEF Still
  <2>2. \A b \in Ctxs : b >= nextCtx => b # c
    BY <2>1 DEF Reading
  <2>3. \A w \in Workers : pc[w] \in {"onConnect", "dial"} => cx[w] \in Ctxs /\ cx[w] # c
    BY <2>1, <1>w DEF Reading
  <2>4. \A w \in Workers : pc[w] \in {"onConnect", "dial"} => rd'[cx[w]] = "off"
    BY <2>1, <2>3 DEF Reading
  <2> QED BY <2>1, <2>2, <2>4 DEF Reading
<1>2. ASSUME NEW w \in Workers, Dial(w) PROVE Reading'
  <2>1. /\ UNCHANGED <<nextCtx, cx>> /\ pc[w] = "dial" /\ pc' = [pc EXCEPT ![w] = "store"]
        /\ rd' = [rd EXCEPT ![cx[w]] = "read"]
    BY <1>2 DEF Dial, created, locals, Goto
  <2>2. /\ cx[w] \in Ctxs /\ \A c \in Ctxs : c >= nextCtx => c # cx[w]
    BY <2>1, <1>w DEF Ctxs
  <2>3. \A v \in Workers : pc'[v] \in {"onConnect", "dial"} =>
          v # w /\ pc[v] \in {"onConnect", "dial"} /\ cx[v] # cx[w] /\ cx[v] \in Ctxs
    BY <2>1, <1>w DEF Identity
  <2>4. \A c \in Ctxs : c # cx[w] => rd'[c] = rd[c]
    BY <2>1, <1>w
  <2> QED BY <2>1, <2>2, <2>3, <2>4 DEF Reading
<1>3. ASSUME rd' = rd, UNCHANGED nextCtx,
             \A w \in Workers : pc'[w] \in {"onConnect", "dial"} => pc[w] \in {"onConnect", "dial"} /\ cx'[w] = cx[w]
      PROVE  Reading'
  BY <1>3 DEF Reading
<1>4. ASSUME NEW w \in Workers, NewContext(w) PROVE Reading'
  <2>1. /\ rd' = rd /\ nextCtx' = nextCtx + 1 /\ nextCtx \in Ctxs
        /\ pc' = [pc EXCEPT ![w] = "onConnect"] /\ cx' = [cx EXCEPT ![w] = nextCtx]
    BY <1>4 DEF NewContext, readers, Goto, Ctxs, TypeInv, TypeOK
  <2>2. rd[nextCtx] = "off"
    BY <2>1, <1>w DEF Reading
  <2>3. \A v \in Workers : pc'[v] \in {"onConnect", "dial"} => rd[cx'[v]] = "off"
    BY <2>1, <2>2, <1>w DEF Reading
  <2> QED BY <2>1, <2>3, <1>w DEF Reading, Ctxs
<1>5. ASSUME rd' = rd, NEW t \in Threads, Moves(t) \/ Begins(t) PROVE Reading'
  <2>1. \A w \in Workers : pc'[w] \in {"onConnect", "dial"} => pc[w] \in {"onConnect", "dial"} /\ cx'[w] = cx[w]
    BY <1>5, <1>w DEF Moves, Begins, Steady, Onward
  <2> QED BY <1>3, <1>5, <2>1 DEF Moves, Begins, Steady
<1>6. ASSUME NEW t \in Threads, OnDisconnect(t) \/ DeleteSession(t) PROVE Reading'
  <2>1. UNCHANGED <<rd, nextCtx, cx>> /\ \E l \in {"remove", "uncount"} : Goto(t, l)
    BY <1>6 DEF OnDisconnect, DeleteSession, contexts, created, locals, readers
  <2> QED BY <1>3, <2>1, <1>w DEF Goto
<1>7. ASSUME NEW w \in Workers, PutSession(w) PROVE Reading'
  <2>1. UNCHANGED <<rd, nextCtx, cx>> /\ Goto(w, "retain")
    BY <1>7 DEF PutSession, contexts, created, locals, readers
  <2> QED BY <1>3, <2>1, <1>w DEF Goto
<1>8. ASSUME NEW w \in Workers, SetDropSession(w) PROVE Reading'
  <2>1. UNCHANGED <<rd, nextCtx>> /\ Goto(w, "idle") /\ cx' = [cx EXCEPT ![w] = NoCtx]
    BY <1>8 DEF SetDropSession, Finish, created, readers
  <2> QED BY <1>3, <2>1, <1>w DEF Goto
<1>9. ASSUME NEW w \in Workers, NEW a \in Addrs, NEW d \in DCIDs, ReceiveInitial(w, a, d) PROVE Reading'
  <2>1. UNCHANGED <<rd, nextCtx, cx>> /\ Goto(w, "connect")
    BY <1>9 DEF ReceiveInitial, contexts, created, readers
  <2> QED BY <1>3, <2>1, <1>w DEF Goto
<1>10. CASE Still /\ rd' = rd
  BY <1>3, <1>10 DEF Still
<1>11. CASE rd' = rd
  BY <1>2, <1>4, <1>5, <1>6, <1>7, <1>8, <1>9, <1>10, <1>11, StepKinds
<1>12. ASSUME NEW t \in Threads, DeleteSessionAliases(t) PROVE Reading'
  BY <1>11, <1>12 DEF DeleteSessionAliases, readers
<1> QED BY <1>1, <1>2, <1>11, <1>12, AliasKinds DEF readers

\* A reader at work has a context with a DCID.
LEMMA ReaderDCID ==
  ASSUME TypeInv, Reading, NEW c \in Ctxs, rd[c] # "off"
  PROVE  dcidOf[c] \in DCIDs /\ c < nextCtx
  BY DEF Reading, TypeInv, TypeOK, LocalsOK, Ctxs

\* An alias s that leads to d is known to deleteSessionAliases, or will be.
Tracked(s) == \/ s \in sessionAliases[dcidAliases[s]]
              \/ \E c \in Ctxs : rd[c] = "track" /\ rdScid[c] = s /\ dcidOf[c] = dcidAliases[s]

\* No step forgets an alias.
LEMMA AliasesStep == TypeInv /\ Identity /\ Reading /\ AliasesTracked /\ [Next]_vars => AliasesTracked'
<1> SUFFICES ASSUME TypeInv, Identity, Reading, [Next]_vars,
                    \A s \in SCIDs : dcidAliases[s] # NoKey => Tracked(s)
             PROVE  \A s \in SCIDs : dcidAliases'[s] # NoKey => Tracked(s)'
  BY DEF AliasesTracked, Tracked
<1>w. /\ dcidAliases \in [SCIDs -> DCIDs \cup {NoKey}] /\ sessionAliases \in [DCIDs -> SUBSET SCIDs]
      /\ rd \in [Ctxs -> {"off", "read", "check", "store", "track", "more"}]
      /\ \A c \in Ctxs : rd[c] \in {"check", "store", "track"} => rdScid[c] \in SCIDs
      /\ NoKey \notin DCIDs
  BY ConstAssumption DEF TypeInv, TypeOK, LocalsOK
<1>d. \A c \in Ctxs : rd[c] # "off" => dcidOf'[c] = dcidOf[c] /\ dcidOf[c] \in DCIDs
  <2>1. dcidOf' = dcidOf \/ (\E v : dcidOf' = [dcidOf EXCEPT ![nextCtx] = v])
    <3>1. ASSUME NEW w \in Workers, NewContext(w) PROVE \E v : dcidOf' = [dcidOf EXCEPT ![nextCtx] = v]
      BY <3>1 DEF NewContext
    <3>2. ASSUME NEW t \in Threads, OnDisconnect(t) \/ DeleteSession(t) PROVE dcidOf' = dcidOf
      BY <3>2 DEF OnDisconnect, DeleteSession, contexts, created
    <3>3. ASSUME NEW w \in Workers, Dial(w) \/ PutSession(w) \/ SetDropSession(w) PROVE dcidOf' = dcidOf
      BY <3>3 DEF Dial, PutSession, SetDropSession, contexts, created
    <3>4. ASSUME NEW w \in Workers, NEW a \in Addrs, NEW d \in DCIDs, ReceiveInitial(w, a, d) PROVE dcidOf' = dcidOf
      BY <3>4 DEF ReceiveInitial, contexts, created
    <3> QED BY <3>1, <3>2, <3>3, <3>4, StepKinds DEF Still, Moves, Begins, Steady
  <2>2. \A c \in Ctxs : rd[c] # "off" => dcidOf[c] \in DCIDs /\ c # nextCtx
    BY ReaderDCID, SMTT(30) DEF Ctxs, TypeInv, TypeOK
  <2> QED BY <2>1, <2>2 DEF TypeInv, TypeOK
<1>1. ASSUME UNCHANGED <<rd, rdScid, dcidAliases, sessionAliases>>, NEW s \in SCIDs, dcidAliases'[s] # NoKey
      PROVE  Tracked(s)'
  <2>1. Tracked(s)
    BY <1>1
  <2>2. ASSUME NEW c \in Ctxs, rd[c] = "track", rdScid[c] = s, dcidOf[c] = dcidAliases[s]
        PROVE  rd'[c] = "track" /\ rdScid'[c] = s /\ dcidOf'[c] = dcidAliases'[s]
    BY <1>1, <2>2, <1>d
  <2> QED BY <1>1, <2>1, <2>2 DEF Tracked
<1>2. ASSUME NEW w \in Workers, Dial(w), NEW s \in SCIDs, dcidAliases'[s] # NoKey PROVE Tracked(s)'
  <2>1. /\ UNCHANGED <<rdScid, dcidAliases, sessionAliases>> /\ pc[w] = "dial"
        /\ rd' = [rd EXCEPT ![cx[w]] = "read"]
    BY <1>2 DEF Dial, aliases
  <2>2. Tracked(s) /\ rd[cx[w]] = "off"
    BY <1>2, <2>1 DEF Reading
  <2>3. ASSUME NEW c \in Ctxs, rd[c] = "track", rdScid[c] = s, dcidOf[c] = dcidAliases[s]
        PROVE  rd'[c] = "track" /\ rdScid'[c] = s /\ dcidOf'[c] = dcidAliases'[s]
    BY <2>1, <2>2, <2>3, <1>d, <1>w
  <2> QED BY <2>1, <2>2, <2>3 DEF Tracked
<1>3. ASSUME NEW t \in Threads, DeleteSessionAliases(t), NEW s \in SCIDs, dcidAliases'[s] # NoKey PROVE Tracked(s)'
  <2> DEFINE d == delKey[t]
  <2>1. /\ UNCHANGED <<rd, rdScid>>
        /\ dcidAliases' = [x \in SCIDs |-> IF x \in sessionAliases[d] /\ dcidAliases[x] = d
                                           THEN NoKey ELSE dcidAliases[x]]
        /\ sessionAliases' = [sessionAliases EXCEPT ![d] = {}]
    BY <1>3 DEF DeleteSessionAliases, readers
  <2> HIDE DEF d
  <2>2. dcidAliases'[s] = dcidAliases[s] /\ ~(s \in sessionAliases[d] /\ dcidAliases[s] = d)
    BY <1>3, <2>1
  <2>3. CASE s \in sessionAliases[dcidAliases[s]]
    <3>1. dcidAliases[s] # d /\ dcidAliases[s] \in DCIDs
      BY <1>3, <2>2, <2>3, <1>w
    <3> QED BY <2>1, <2>2, <2>3, <3>1, <1>w DEF Tracked
  <2>4. ASSUME NEW c \in Ctxs, rd[c] = "track", rdScid[c] = s, dcidOf[c] = dcidAliases[s] PROVE Tracked(s)'
    BY <2>1, <2>2, <2>4, <1>d DEF Tracked
  <2> QED BY <1>3, <2>2, <2>3, <2>4 DEF Tracked
<1>4. ASSUME NEW c \in Ctxs, ReaderStep(c), NEW s \in SCIDs, dcidAliases'[s] # NoKey PROVE Tracked(s)'
  <2>m. /\ dcidOf' = dcidOf /\ rd[c] # "off"
        /\ \A b \in Ctxs : b # c => rd'[b] = rd[b] /\ rdScid'[b] = rdScid[b]
    BY <1>4, ReaderMoves DEF Still
  <2>1. CASE StoreAlias(c)
    <3>1. /\ rd[c] = "store" /\ rdScid[c] \in SCIDs /\ UNCHANGED <<sessionAliases, rdScid>>
          /\ dcidAliases' = [dcidAliases EXCEPT ![rdScid[c]] = dcidOf[c]] /\ rd'[c] = "track"
      BY <2>1, <1>w DEF StoreAlias
    <3>2. CASE s = rdScid[c]
      BY <2>m, <3>1, <3>2, <1>w DEF Tracked
    <3>3. CASE s # rdScid[c]
      <4>1. dcidAliases'[s] = dcidAliases[s] /\ Tracked(s)
        BY <1>4, <3>1, <3>3, <1>w
      <4> QED BY <2>m, <3>1, <4>1 DEF Tracked
    <3> QED BY <3>2, <3>3
  <2>2. CASE TrackSessionAlias(c)
    <3>1. /\ rd[c] = "track" /\ UNCHANGED <<dcidAliases, rdScid>>
          /\ sessionAliases' = [sessionAliases EXCEPT ![dcidOf[c]] = @ \cup {rdScid[c]}]
      BY <2>2 DEF TrackSessionAlias
    <3>2. Tracked(s) /\ dcidAliases[s] \in DCIDs /\ dcidOf[c] \in DCIDs
      BY <1>4, <3>1, <1>w, <1>d
    <3>3. CASE s \in sessionAliases[dcidAliases[s]]
      BY <3>1, <3>2, <3>3, <1>w DEF Tracked
    <3>4. ASSUME NEW b \in Ctxs, rd[b] = "track", rdScid[b] = s, dcidOf[b] = dcidAliases[s] PROVE Tracked(s)'
      <4>1. CASE b = c
        BY <3>1, <3>2, <3>4, <4>1, <1>w DEF Tracked
      <4>2. CASE b # c
        BY <2>m, <3>1, <3>4, <4>2 DEF Tracked
      <4> QED BY <4>1, <4>2
    <3> QED BY <3>2, <3>3, <3>4 DEF Tracked
  <2>3. CASE DatagramDone(c) \/ LearnServerSCID(c) \/ \E x \in SCIDs : ServerPacket(c, x)
    <3>1. rd[c] # "track" /\ UNCHANGED <<dcidAliases, sessionAliases>>
      BY <2>3 DEF DatagramDone, LearnServerSCID, ServerPacket, aliases
    <3> QED BY <1>4, <2>m, <3>1 DEF Tracked
  <2> QED BY <1>4, <2>1, <2>2, <2>3 DEF ReaderStep
<1> QED BY <1>1, <1>2, <1>3, <1>4, AliasKinds DEF readers, aliases

\* The aliases of every session are tracked, for any number of sessions and
\* readers and also when a DCID is used again: no alias is left behind that
\* deleteSessionAliases would not find.
THEOREM AliasesSafe == Spec => []AliasesTracked
<1>1. Init => Reading /\ AliasesTracked
  BY DEF Init, Reading, AliasesTracked, Threads
<1> QED BY <1>1, TypeInvariant, IdentityInvariant, ReadingStep, AliasesStep, PTL DEF Spec

\* The readers of contexts, in every reachable state.
LEMMA ReadingInvariant == Spec => []Reading
<1>1. Init => Reading
  BY DEF Init, Reading, Threads
<1> QED BY <1>1, TypeInvariant, IdentityInvariant, ReadingStep, PTL DEF Spec

\* If clients do not reuse a DCID, an alias goes only after its session: the
\* end of one session does not cut off the packets of another.
THEOREM AliasEndSafe == ASSUME ~ReuseDCID PROVE Spec => AliasEndsWithSession
<1>1. ASSUME TypeInv, Reading, Gone, [Next]_vars, NEW s \in SCIDs, dcidAliases[s] # NoKey, dcidAliases'[s] = NoKey
      PROVE  sessions[dcidAliases[s]] = NoCtx
  <2>w. dcidAliases \in [SCIDs -> DCIDs \cup {NoKey}] /\ NoKey \notin DCIDs
    BY <1>1, ConstAssumption DEF TypeInv, TypeOK
  <2>1. ASSUME NEW c \in Ctxs, ReaderStep(c) PROVE FALSE
    <3>1. dcidAliases' = dcidAliases \/ (rd[c] = "store" /\ dcidAliases' = [dcidAliases EXCEPT ![rdScid[c]] = dcidOf[c]])
      BY <2>1 DEF ReaderStep, ServerPacket, DatagramDone, LearnServerSCID, StoreAlias, TrackSessionAlias, aliases
    <3>2. rd[c] = "store" => dcidOf[c] \in DCIDs
      BY <1>1, ReaderDCID
    <3> QED BY <1>1, <2>w, <3>1, <3>2
  <2>2. ASSUME NEW t \in Threads, DeleteSessionAliases(t) PROVE sessions[dcidAliases[s]] = NoCtx
    <3>1. pc[t] \in Removed /\ dcidAliases[s] = delKey[t]
      BY <1>1, <2>2, <2>w DEF DeleteSessionAliases, Removed
    <3> QED BY <1>1, <3>1 DEF Gone
  <2>3. ASSUME NEW w \in Workers, Dial(w) PROVE FALSE
    BY <1>1, <2>3 DEF Dial, aliases
  <2> QED BY <1>1, <2>1, <2>2, <2>3, AliasKinds DEF aliases
<1>2. TypeInv /\ Reading /\ Gone /\ [Next]_vars =>
        [\A s \in SCIDs : dcidAliases[s] # NoKey /\ dcidAliases'[s] = NoKey =>
           sessions[dcidAliases[s]] = NoCtx]_vars
  BY <1>1
<1>3. Apart => Gone
  BY DEF Apart
<1> QED BY <1>2, <1>3, TypeInvariant, ReadingInvariant, ApartInvariant, PTL DEF Spec, AliasEndsWithSession

-----------------------------------------------------------------------------
(* References to chains, and addresses.                                    *)

\* Labels of a worker whose context is in the table and not yet published.
Publishing == {"retain", "bindClient", "publish"}
\* Labels of a goroutine that is still to release the chain of its context.
Counted == {"uncount", "unalias", "release"}

\* No worker is creating the context c any more.
Past(c) == c \in Ctxs /\ c < nextCtx /\ \A v \in Workers : pc[v] \in Creating => cx[v] # c

\* What is deleted, dropped or chosen for eviction is past its creation, so a
\* session that is being stored is in the table.
PastInv ==
  /\ \A t \in Threads : pc[t] \in Deleting => Past(delCtx[t])
  /\ \A c \in droppable : Past(c)
  /\ \A w \in Workers : \A d \in victims[w] : \E c \in Ctxs : Past(c) /\ dcidOf[c] = d
  /\ \A w \in Workers : pc[w] \in Publishing => sessions[pktCid[w]] = cx[w]

-----------------------------------------------------------------------------
\* Contexts are created by NewContext and stay with their worker.
LEMMA CreatingStays ==
  ASSUME TypeInv, [Next]_vars
  PROVE  \/ /\ UNCHANGED <<nextCtx, dcidOf>>
            /\ \A v \in Workers : pc'[v] \in Creating => pc[v] \in Creating /\ cx'[v] = cx[v]
         \/ \E w \in Workers : NewContext(w)
<1> DEFINE Stays == /\ UNCHANGED <<nextCtx, dcidOf>>
                    /\ \A v \in Workers : pc'[v] \in Creating => pc[v] \in Creating /\ cx'[v] = cx[v]
<1>w. /\ Workers \subseteq Threads /\ Deleting \subseteq Creating /\ pc \in [Threads -> Labels]
      /\ cx \in [Workers -> Ctxs \cup {NoCtx}]
  BY DEF Threads, Creating, TypeInv, TypeOK
<1>1. CASE Still
  BY <1>1 DEF Still
<1>2. ASSUME NEW t \in Threads, Moves(t) PROVE Stays
  BY <1>2, <1>w DEF Moves, Steady, Onward
<1>3. ASSUME NEW t \in Threads, Begins(t) PROVE Stays
  <2>1. t \in Workers => pc[t] \in Creating
    BY <1>3 DEF Begins, Creating
  <2> QED BY <1>3, <2>1, <1>w DEF Begins, Steady, Onward
<1>4. ASSUME NEW t \in Threads, OnDisconnect(t) \/ DeleteSession(t) PROVE Stays
  <2>1. /\ UNCHANGED <<nextCtx, dcidOf, cx>> /\ pc[t] \in Deleting
        /\ \E l \in {"remove", "uncount"} : Goto(t, l)
    BY <1>4 DEF OnDisconnect, DeleteSession, contexts, created, locals, Deleting
  <2> QED BY <2>1, <1>w DEF Goto
<1>5. ASSUME NEW w \in Workers, Dial(w) \/ PutSession(w) PROVE Stays
  <2>1. /\ UNCHANGED <<nextCtx, dcidOf, cx>> /\ pc[w] \in Creating
        /\ \E l \in {"store", "retain"} : Goto(w, l)
    BY <1>5 DEF Dial, PutSession, contexts, created, locals, Creating, Reserving
  <2> QED BY <2>1, <1>w DEF Goto
<1>6. ASSUME NEW w \in Workers, SetDropSession(w) PROVE Stays
  <2>1. /\ UNCHANGED <<nextCtx, dcidOf>> /\ pc' = [pc EXCEPT ![w] = "idle"] /\ cx' = [cx EXCEPT ![w] = NoCtx]
        /\ "idle" \notin Creating
    BY <1>6 DEF SetDropSession, Finish, Goto, created, Creating, Reserving, Deleting
  <2> QED BY <2>1, <1>w
<1>7. ASSUME NEW w \in Workers, NEW a \in Addrs, NEW d \in DCIDs, ReceiveInitial(w, a, d) PROVE Stays
  <2>1. UNCHANGED <<nextCtx, dcidOf, cx>> /\ pc' = [pc EXCEPT ![w] = "connect"] /\ "connect" \notin Creating
    BY <1>7 DEF ReceiveInitial, Goto, contexts, created, Creating, Reserving, Deleting
  <2> QED BY <2>1, <1>w
<1> QED BY <1>1, <1>2, <1>3, <1>4, <1>5, <1>6, <1>7, StepKinds

\* A context past its creation stays so.
LEMMA PastStays ==
  ASSUME TypeInv, [Next]_vars, NEW c \in Ctxs, Past(c)
  PROVE  Past(c)' /\ dcidOf'[c] = dcidOf[c]
<1>1. CASE /\ UNCHANGED <<nextCtx, dcidOf>>
           /\ \A v \in Workers : pc'[v] \in Creating => pc[v] \in Creating /\ cx'[v] = cx[v]
  BY <1>1 DEF Past
<1>2. ASSUME NEW w \in Workers, NewContext(w) PROVE Past(c)' /\ dcidOf'[c] = dcidOf[c]
  <2>1. /\ nextCtx' = nextCtx + 1 /\ dcidOf' = [dcidOf EXCEPT ![nextCtx] = pktCid[w]]
        /\ pc' = [pc EXCEPT ![w] = "onConnect"] /\ cx' = [cx EXCEPT ![w] = nextCtx]
    BY <1>2 DEF NewContext, Goto
  <2>2. /\ c \in Int /\ c # nextCtx /\ c < nextCtx /\ nextCtx \in Int
        /\ pc \in [Threads -> Labels] /\ cx \in [Workers -> Ctxs \cup {NoCtx}] /\ Workers \subseteq Threads
        /\ dcidOf \in [Ctxs -> DCIDs \cup {NoKey}]
    BY DEF Past, Ctxs, TypeInv, TypeOK, Threads
  <2> QED BY <2>1, <2>2 DEF Past
<1> QED BY <1>1, <1>2, CreatingStays

\* A step takes victims off the lists, or one worker makes its list.
LEMMA VictimsMove ==
  ASSUME TypeInv, [Next]_vars
  PROVE  \/ \A w \in Workers : victims'[w] \subseteq victims[w]
         \/ \E w \in Workers : CollectOldest(w)
<1> DEFINE Fewer == \A w \in Workers : victims'[w] \subseteq victims[w]
<1>w. victims \in [Workers -> SUBSET DCIDs]
  BY DEF TypeInv, TypeOK
<1>1. ASSUME NEW w \in Workers, PacketStep(w) \/ WorkerExit(w) PROVE Fewer
  BY <1>1 DEF PacketStep, ReceivePacket, ReceiveInitial, WorkerExit, locals
<1>2. ASSUME NEW w \in Workers, WorkerStep(w), ~CollectOldest(w), ~EvictNext(w) PROVE Fewer
  BY <1>2 DEF WorkerStep, CheckAddr, BeginMigration, SetClientAddr, DeleteOldAddr, StoreNewAddr, NewContext,
       TryReserveSessionSlot, LimitReached, NoLimiter, Dial, ReleaseReservedSessionSlot, StoreSession,
       EvictDone, PutSession, RetainChain, StoreClientAddr, SetDropSession, Finish, locals
<1>3. ASSUME NEW w \in Workers, EvictNext(w) PROVE Fewer
  <2>1. PICK d \in victims[w] : victims' = [victims EXCEPT ![w] = @ \ {d}]
    BY <1>3 DEF EvictNext
  <2> QED BY <2>1, <1>w
<1>4. ASSUME NEW t \in Threads, DeleteStep(t) PROVE Fewer
  BY <1>4 DEF DeleteStep, OnDisconnect, DeleteSession, AlreadyDeleted, UncountSession, DeleteSessionAliases,
       ReleaseChain, DeleteClientAddr, locals
<1>5. ASSUME CleanupIdle \/ (\E t \in Droppers : Drop(t)) \/ ReloadStep \/ BeginStop \/ StopStep PROVE Fewer
  BY <1>5 DEF CleanupIdle, Drop, ReloadStep, SwapChain, RegisterChain, RetireChain,
       SetAllowConnectionMigration, BeginStop, StopStep, Drained, SweepNext, SweepDone,
       ShutdownRetiredChains, ShutdownCurrent, locals
<1>6. ASSUME NEW c \in Ctxs, ReaderStep(c) PROVE Fewer
  BY <1>6 DEF ReaderStep, ServerPacket, DatagramDone, LearnServerSCID, StoreAlias, TrackSessionAlias, locals
<1>7. CASE UNCHANGED vars
  BY <1>7 DEF vars, locals
<1> QED BY <1>1, <1>2, <1>3, <1>4, <1>5, <1>6, <1>7 DEF Next

\* A session of the table that no worker is storing is past its creation.
LEMMA StoredPast ==
  ASSUME TypeInv, Identity, NEW d \in Stored, \A w \in Workers : ~Storing(w, sessions[d])
  PROVE  Past(sessions[d]) /\ sessions[d] \in Ctxs /\ dcidOf[sessions[d]] = d
<1>1. d \in DCIDs /\ sessions[d] \in Ctxs /\ sessions[d] < nextCtx /\ dcidOf[sessions[d]] = d
  BY DEF Stored, TypeInv, TypeOK, Identity
<1>2. ASSUME NEW v \in Workers, pc[v] \in Creating, cx[v] = sessions[d] PROVE FALSE
  <2>1. pc[v] \in Early
    BY <1>2 DEF Storing, Early
  <2> QED BY <1>1, <1>2, <2>1 DEF Identity
<1> QED BY <1>1, <1>2 DEF Past

\* PastInv is inductive.
LEMMA PastStep ==
  Prompt /\ TypeInv /\ Identity /\ Unique /\ SweepInv /\ PastInv /\ [Next]_vars => PastInv'
<1> SUFFICES ASSUME Prompt, TypeInv, Identity, Unique, SweepInv, PastInv, [Next]_vars PROVE PastInv'
  OBVIOUS
<1>w. /\ Workers \subseteq Threads /\ Deleting \subseteq Creating /\ Publishing \subseteq Creating
      /\ pc \in [Threads -> Labels] /\ cx \in [Workers -> Ctxs \cup {NoCtx}]
      /\ victims \in [Workers -> SUBSET DCIDs] /\ sessions \in [DCIDs -> Ctxs \cup {NoCtx}]
      /\ droppable \subseteq Ctxs
      /\ \A t \in Threads : pc[t] \in Deleting => delCtx[t] \in Ctxs /\ delKey[t] \in DCIDs
      /\ \A w \in Workers : pc[w] \in Creating => cx[w] \in Ctxs /\ cx[w] < nextCtx /\ pktCid[w] \in DCIDs
  BY DEF Threads, Creating, Publishing, TypeInv, TypeOK, LocalsOK
<1>p. \A c \in Ctxs : Past(c) => Past(c)' /\ dcidOf'[c] = dcidOf[c]
  BY PastStays
\* The goroutines that delete.
<1>1. ASSUME NEW t \in Threads, Begins(t) PROVE Past(delCtx'[t])
  <2>1. ASSUME Chosen(t, delKey'[t]), delCtx'[t] = sessions[delKey'[t]] PROVE Past(delCtx'[t])
    <3> DEFINE d == delKey'[t]
    <3>1. d \in Stored /\ d \in DCIDs /\ sessions[d] \in Ctxs /\ sessions[d] < nextCtx /\ dcidOf[sessions[d]] = d
      BY <2>1, <1>w DEF Chosen, Stored, Identity
    <3>2. CASE d \in Settled
      BY <2>1, <3>1, <3>2, StoredPast DEF Settled
    <3>3. CASE t \in Workers /\ d \in victims[t]
      <4>1. PICK c \in Ctxs : Past(c) /\ dcidOf[c] = d
        BY <3>3 DEF PastInv
      <4>2. c = sessions[d]
        BY <3>1, <4>1 DEF Unique, Past
      <4> QED BY <2>1, <4>1, <4>2
    <3>4. CASE t = Signal /\ pc[t] = "sweep"
      <4>1. \A v \in Workers : pc[v] \notin Creating
        BY <3>4 DEF SweepInv, Creating, Reserving, Deleting
      <4> QED BY <2>1, <3>1, <4>1 DEF Past
    <3> QED BY <2>1, <3>2, <3>3, <3>4 DEF Chosen
  <2>2. ASSUME delCtx'[t] \in droppable PROVE Past(delCtx'[t])
    BY <2>2 DEF PastInv
  <2> QED BY <1>1, <2>1, <2>2 DEF Begins
<1>2. ASSUME NEW t \in Threads, pc'[t] \in Deleting
      PROVE  \/ pc[t] \in Deleting /\ delCtx'[t] = delCtx[t]
             \/ Past(delCtx'[t])
  <2> DEFINE Goal == (pc[t] \in Deleting /\ delCtx'[t] = delCtx[t]) \/ Past(delCtx'[t])
  <2>1. CASE Still
    BY <1>2, <2>1 DEF Still
  <2>2. ASSUME NEW u \in Threads, Moves(u) PROVE Goal
    BY <1>2, <2>2 DEF Moves, Steady, Removed, Deleting
  <2>3. ASSUME NEW u \in Threads, Begins(u) PROVE Goal
    <3>1. CASE u = t
      BY <1>1, <2>3, <3>1
    <3>2. CASE u # t
      BY <1>2, <2>3, <3>2 DEF Begins, Steady
    <3> QED BY <3>1, <3>2
  <2>4. ASSUME NEW u \in Threads, OnDisconnect(u) \/ DeleteSession(u) PROVE Goal
    <3>1. UNCHANGED delCtx /\ pc[u] \in Deleting /\ \E l \in {"remove", "uncount"} : Goto(u, l)
      BY <2>4 DEF OnDisconnect, DeleteSession, deletion, Deleting
    <3> QED BY <1>2, <3>1, <1>w DEF Goto
  <2>5. ASSUME NEW w \in Workers, Dial(w) \/ PutSession(w) \/ SetDropSession(w) \/ NewContext(w) PROVE Goal
    <3>1. UNCHANGED delCtx /\ \E l \in {"store", "retain", "idle", "onConnect"} : Goto(w, l)
      BY <2>5 DEF Dial, PutSession, SetDropSession, NewContext, Finish, deletion
    <3> QED BY <1>2, <3>1, <1>w DEF Goto, Deleting
  <2>6. ASSUME NEW w \in Workers, NEW a \in Addrs, NEW d \in DCIDs, ReceiveInitial(w, a, d) PROVE Goal
    <3>1. UNCHANGED delCtx /\ Goto(w, "connect")
      BY <2>6 DEF ReceiveInitial, deletion
    <3> QED BY <1>2, <3>1, <1>w DEF Goto, Deleting
  <2> QED BY <2>1, <2>2, <2>3, <2>4, <2>5, <2>6, StepKinds
<1>3. \A t \in Threads : pc'[t] \in Deleting => Past(delCtx[t])' 
  <2> SUFFICES ASSUME NEW t \in Threads, pc'[t] \in Deleting PROVE Past(delCtx[t])'
    OBVIOUS
  <2>1. Past(delCtx'[t]) /\ delCtx'[t] \in Ctxs
    BY <1>2 DEF PastInv, Past
  <2> DEFINE c == delCtx'[t]
  <2>2. c \in Ctxs /\ c < nextCtx' /\ \A v \in Workers : pc'[v] \in Creating => cx'[v] # c
    BY <1>p, <2>1 DEF Past
  <2> QED BY <2>2 DEF Past
\* Contexts that may be dropped.
<1>4. \A c \in droppable' : c \in Ctxs /\ Past(c)'
  <2>1. ASSUME droppable' \subseteq droppable PROVE \A c \in droppable' : c \in Ctxs /\ Past(c)'
    BY <2>1, <1>p, <1>w DEF PastInv
  <2>2. ASSUME NEW w \in Workers, SetDropSession(w) PROVE \A c \in droppable' : c \in Ctxs /\ Past(c)'
    <3>1. /\ droppable' = droppable \cup {cx[w]} /\ pc[w] = "publish" /\ nextCtx' = nextCtx
          /\ pc' = [pc EXCEPT ![w] = "idle"] /\ cx' = [cx EXCEPT ![w] = NoCtx]
      BY <2>2 DEF SetDropSession, Finish, Goto, created
    <3>2. cx[w] \in Ctxs /\ cx[w] < nextCtx /\ pc[w] \in Creating
      BY <3>1, <1>w DEF Creating
    <3>3. \A v \in Workers : pc'[v] \in Creating => v # w /\ pc[v] \in Creating /\ cx'[v] = cx[v] /\ cx[v] # cx[w]
      BY <3>1, <3>2, <1>w DEF Identity, Creating, Reserving, Deleting
    <3>4. \A c : c = cx[w] => Past(c)'
      BY <3>1, <3>2, <3>3 DEF Past
    <3> QED BY <3>1, <3>2, <3>4, <1>p, <1>w DEF PastInv
  <2>3. ASSUME NEW t \in Threads, OnDisconnect(t) \/ DeleteSession(t) PROVE droppable' \subseteq droppable
    BY <2>3 DEF OnDisconnect, DeleteSession, contexts
  <2>4. ASSUME NEW w \in Workers, Dial(w) \/ PutSession(w) \/ NewContext(w) PROVE droppable' \subseteq droppable
    BY <2>4 DEF Dial, PutSession, NewContext, contexts
  <2>5. ASSUME NEW w \in Workers, NEW a \in Addrs, NEW d \in DCIDs, ReceiveInitial(w, a, d)
        PROVE  droppable' \subseteq droppable
    BY <2>5 DEF ReceiveInitial, contexts
  <2>6. Still \/ (\E t \in Threads : Moves(t) \/ Begins(t)) => droppable' \subseteq droppable
    BY DEF Still, Moves, Begins
  <2> QED BY <2>1, <2>2, <2>3, <2>4, <2>5, <2>6, StepKinds
\* Victims.
<1>5. \A w \in Workers : \A d \in victims'[w] : \E c \in Ctxs : Past(c)' /\ dcidOf'[c] = d
  <2>1. ASSUME NEW w \in Workers, NEW d, d \in victims[w] PROVE \E c \in Ctxs : Past(c)' /\ dcidOf'[c] = d
    BY <2>1, <1>p DEF PastInv
  <2>2. ASSUME NEW v \in Workers, CollectOldest(v), NEW w \in Workers, NEW d, d \in victims'[w]
        PROVE  \E c \in Ctxs : Past(c)' /\ dcidOf'[c] = d
    <3>1. PICK S \in SUBSET Settled : victims' = [victims EXCEPT ![v] = S]
      BY <2>2 DEF CollectOldest
    <3>2. CASE w # v
      BY <2>1, <2>2, <3>1, <3>2, <1>w
    <3>3. CASE w = v
      <4>1. d \in Settled
        BY <2>2, <3>1, <3>3, <1>w
      <4>2. d \in Stored /\ \A x \in Workers : ~Storing(x, sessions[d])
        BY <4>1 DEF Settled
      <4>3. Past(sessions[d]) /\ sessions[d] \in Ctxs /\ dcidOf[sessions[d]] = d
        BY <4>2, StoredPast
      <4> QED BY <4>3, <1>p
    <3> QED BY <3>2, <3>3
  <2> QED BY <2>1, <2>2, VictimsMove
\* Sessions that are being stored.
<1>6. \A w \in Workers : pc'[w] \in Publishing => sessions'[pktCid'[w]] = cx'[w]
  <2>1. ASSUME UNCHANGED sessions,
               \A w \in Workers : pc'[w] \in Publishing => /\ pc[w] \in Publishing
                                                            /\ pktCid'[w] = pktCid[w] /\ cx'[w] = cx[w]
        PROVE  \A w \in Workers : pc'[w] \in Publishing => sessions'[pktCid'[w]] = cx'[w]
    BY <2>1 DEF PastInv
  <2>2. CASE Still
    BY <2>1, <2>2 DEF Still
  <2>3. ASSUME NEW t \in Threads, Moves(t) PROVE \A w \in Workers : pc'[w] \in Publishing => sessions'[pktCid'[w]] = cx'[w]
    <3>1. t \in Workers /\ pc'[t] \in Publishing => pc[t] \in Publishing /\ pktCid'[t] = pktCid[t] /\ cx'[t] = cx[t]
      BY <2>3, <1>w DEF Moves, Onward, Early, Publishing
    <3> QED BY <2>1, <2>3, <3>1, <1>w DEF Moves, Steady
  <2>4. ASSUME NEW t \in Threads, Begins(t) PROVE \A w \in Workers : pc'[w] \in Publishing => sessions'[pktCid'[w]] = cx'[w]
    BY <2>1, <2>4, <1>w DEF Begins, Steady, Publishing
  <2>5. ASSUME NEW t \in Threads, NEW l, Goto(t, l), l \notin Publishing, UNCHANGED sessions,
               \A w \in Workers : w # t => pktCid'[w] = pktCid[w] /\ cx'[w] = cx[w]
        PROVE  \A w \in Workers : pc'[w] \in Publishing => sessions'[pktCid'[w]] = cx'[w]
    BY <2>1, <2>5, <1>w DEF Goto
  <2>6. ASSUME NEW t \in Threads, OnDisconnect(t) PROVE \A w \in Workers : pc'[w] \in Publishing => sessions'[pktCid'[w]] = cx'[w]
    BY <2>5, <2>6 DEF OnDisconnect, table, locals, packet, Publishing
  <2>7. ASSUME NEW w \in Workers, Dial(w) \/ SetDropSession(w) \/ NewContext(w)
        PROVE  \A v \in Workers : pc'[v] \in Publishing => sessions'[pktCid'[v]] = cx'[v]
    <3>1. /\ UNCHANGED sessions /\ \E l \in {"store", "idle", "onConnect"} : Goto(w, l)
          /\ \A v \in Workers : v # w => pktCid'[v] = pktCid[v] /\ cx'[v] = cx[v]
      BY <2>7 DEF Dial, SetDropSession, NewContext, Finish, table, locals, packet, TypeInv, TypeOK
    <3> QED BY <2>5, <3>1, <1>w DEF Publishing
  <2>8. ASSUME NEW w \in Workers, NEW a \in Addrs, NEW d \in DCIDs, ReceiveInitial(w, a, d)
        PROVE  \A v \in Workers : pc'[v] \in Publishing => sessions'[pktCid'[v]] = cx'[v]
    <3>1. /\ UNCHANGED sessions /\ Goto(w, "connect")
          /\ \A v \in Workers : v # w => pktCid'[v] = pktCid[v] /\ cx'[v] = cx[v]
      BY <2>8 DEF ReceiveInitial, table, TypeInv, TypeOK
    <3> QED BY <2>5, <3>1, <1>w DEF Publishing
  <2>9. ASSUME NEW w \in Workers, PutSession(w), NEW v \in Workers, pc'[v] \in Publishing
        PROVE  sessions'[pktCid'[v]] = cx'[v]
    <3>1. /\ pc[w] = "put" /\ UNCHANGED <<cx, pktCid>> /\ pc' = [pc EXCEPT ![w] = "retain"]
          /\ sessions' = [sessions EXCEPT ![pktCid[w]] = cx[w]]
      BY <2>9 DEF PutSession, Goto, locals, packet
    <3>2. pc[w] \in Early /\ pc[w] \in Creating
      BY <3>1 DEF Early, Creating
    <3>3. pktCid[w] \in DCIDs /\ sessions[pktCid[w]] = NoCtx
      BY <3>2, KeyFree
    <3>4. CASE v = w
      BY <3>1, <3>3, <3>4, <1>w
    <3>5. CASE v # w
      <4>1. pc[v] \in Publishing /\ sessions[pktCid[v]] = cx[v] /\ cx[v] \in Ctxs /\ pktCid[v] \in DCIDs
        BY <2>9, <3>1, <3>5, <1>w DEF PastInv
      <4>2. pktCid[v] # pktCid[w]
        BY <3>3, <4>1 DEF Ctxs, NoCtx
      <4> QED BY <3>1, <3>3, <4>1, <4>2, <1>w
    <3> QED BY <3>4, <3>5
  <2>10. ASSUME NEW t \in Threads, DeleteSession(t), NEW v \in Workers, pc'[v] \in Publishing
         PROVE  sessions'[pktCid'[v]] = cx'[v]
    <3>1. /\ pc[t] = "remove" /\ UNCHANGED <<cx, pktCid>> /\ pc' = [pc EXCEPT ![t] = "uncount"]
          /\ sessions' = [sessions EXCEPT ![delKey[t]] = NoCtx]
      BY <2>10 DEF DeleteSession, Goto, locals, packet
    <3>2. pc[v] \in Publishing /\ pc[v] \in Creating /\ sessions[pktCid[v]] = cx[v] /\ pktCid[v] \in DCIDs
      BY <2>10, <3>1, <1>w DEF PastInv, Publishing
    <3>3. pc[t] \in Deleting /\ delKey[t] \in DCIDs /\ Past(delCtx[t]) /\ dcidOf[delCtx[t]] = delKey[t]
      BY <3>1, <1>w DEF PastInv, Identity, Deleting
    <3>4. delKey[t] # pktCid[v]
      <4>1. cx[v] # delCtx[t] /\ cx[v] \in Ctxs /\ cx[v] < nextCtx /\ dcidOf[cx[v]] = pktCid[v]
        BY <3>2, <3>3, <1>w DEF Past, Identity
      <4> QED BY <3>3, <4>1 DEF Unique, Past
    <3> QED BY <3>1, <3>2, <3>3, <3>4, <1>w
  <2> QED BY <2>2, <2>3, <2>4, <2>6, <2>7, <2>8, <2>9, <2>10, StepKinds
<1> QED BY <1>3, <1>4, <1>5, <1>6 DEF PastInv

-----------------------------------------------------------------------------
(* References.                                                             *)

\* The sessions that hold a reference to chain c, and the goroutines that have
\* taken such a session out of the table and are still to release it.
Referring(c) == {d \in Stored : Retained(d) /\ chainOf[sessions[d]] = c}
Releasing(c) == {t \in Threads : pc[t] \in Counted /\ chainOf[delCtx[t]] = c}

\* The counts are exact until Stop shuts the retired chains down.
RefsExact ==
  pc[Signal] \notin {"shutCurrent", "stopped"} =>
    \A c \in Chains : chainRefs[c] = Cardinality(Referring(c)) + Cardinality(Releasing(c))

\* A step that neither retains nor releases.
RefsLeft ==
  /\ chainRefs' = chainRefs
  /\ \A t \in Threads : pc[t] \in Counted => pc'[t] \in Counted
  /\ \A w \in Workers : pc[w] = "retain" => pc'[w] = "retain"
  /\ \A c \in Ctxs : c < nextCtx => chainOf'[c] = chainOf[c]
  /\ pc[Signal] \in {"shutCurrent", "stopped"} => pc'[Signal] \in {"shutCurrent", "stopped"}

\* Only these steps touch the counts.
LEMMA RefKinds ==
  ASSUME TypeInv, [Next]_vars
  PROVE  \/ RefsLeft
         \/ \E w \in Workers : RetainChain(w)
         \/ \E t \in Threads : ReleaseChain(t)
         \/ ShutdownRetiredChains
<1>w. /\ Workers \subseteq Threads /\ Droppers \subseteq Threads /\ Janitor \in Threads /\ Signal \in Threads
      /\ Signal \notin Workers /\ Signal \notin Droppers /\ Signal # Janitor
      /\ pc \in [Threads -> Labels] /\ chainOf \in [Ctxs -> Chains]
      /\ nextCtx \in Int
  BY ThreadAssumption DEF Threads, TypeInv, TypeOK
<1>1. ASSUME NEW t \in Threads, NEW l, Goto(t, l), chainRefs' = chainRefs, chainOf' = chainOf,
             pc[t] \in Counted => l \in Counted, pc[t] # "retain",
             t = Signal /\ pc[t] \in {"shutCurrent", "stopped"} => l \in {"shutCurrent", "stopped"}
      PROVE  RefsLeft
  BY <1>1, <1>w DEF RefsLeft, Goto
<1>2. ASSUME pc' = pc, chainRefs' = chainRefs, chainOf' = chainOf PROVE RefsLeft
  BY <1>2 DEF RefsLeft
<1>3. ASSUME NEW w \in Workers, PacketStep(w) \/ WorkerExit(w) PROVE RefsLeft
  <2>1. chainRefs' = chainRefs /\ chainOf' = chainOf /\ pc[w] = "idle"
    BY <1>3 DEF PacketStep, ReceivePacket, ReceiveInitial, WorkerExit, chains, contexts, created
  <2>2. \E l \in {"bind", "connect", "exited"} : Goto(w, l)
    BY <1>3 DEF PacketStep, ReceivePacket, ReceiveInitial, WorkerExit
  <2> QED BY <1>1, <2>1, <2>2, <1>w DEF Counted
<1>4. ASSUME NEW w \in Workers,
             \/ CheckAddr(w) \/ BeginMigration(w) \/ SetClientAddr(w) \/ DeleteOldAddr(w) \/ StoreNewAddr(w)
             \/ TryReserveSessionSlot(w) \/ LimitReached(w) \/ NoLimiter(w) \/ Dial(w)
             \/ ReleaseReservedSessionSlot(w) \/ StoreSession(w) \/ CollectOldest(w) \/ EvictDone(w)
             \/ PutSession(w) \/ StoreClientAddr(w) \/ SetDropSession(w)
      PROVE  RefsLeft
  <2>1. /\ chainRefs' = chainRefs /\ chainOf' = chainOf /\ pc[w] \notin Counted /\ pc[w] # "retain"
    BY <1>4 DEF CheckAddr, BeginMigration, SetClientAddr, DeleteOldAddr, StoreNewAddr,
         TryReserveSessionSlot, LimitReached, NoLimiter, Dial, ReleaseReservedSessionSlot, StoreSession,
         CollectOldest, EvictDone, PutSession, StoreClientAddr, SetDropSession, chains, contexts, created, Counted
  <2>2. \E l : Goto(w, l)
    BY <1>4 DEF CheckAddr, BeginMigration, SetClientAddr, DeleteOldAddr, StoreNewAddr,
         TryReserveSessionSlot, LimitReached, NoLimiter, Dial, ReleaseReservedSessionSlot, StoreSession,
         CollectOldest, EvictDone, PutSession, StoreClientAddr, SetDropSession, Finish
  <2> QED BY <1>1, <2>1, <2>2, <1>w
<1>5. ASSUME NEW w \in Workers, EvictNext(w) PROVE RefsLeft
  <2>1. /\ chainRefs' = chainRefs /\ chainOf' = chainOf /\ pc[w] = "evict"
        /\ Goto(w, "disconnect") \/ pc' = pc
    BY <1>5 DEF EvictNext, chains, contexts, created
  <2> QED BY <1>1, <1>2, <2>1, <1>w DEF Counted
<1>6. ASSUME NEW w \in Workers, NewContext(w) PROVE RefsLeft
  <2>1. /\ chainRefs' = chainRefs /\ chainOf' = [chainOf EXCEPT ![nextCtx] = chain]
        /\ pc[w] = "connect" /\ pc' = [pc EXCEPT ![w] = "onConnect"]
    BY <1>6 DEF NewContext, chains, Goto
  <2>2. \A c \in Ctxs : c < nextCtx => chainOf'[c] = chainOf[c]
    BY <2>1, <1>w DEF Ctxs
  <2> QED BY <2>1, <2>2, <1>w DEF RefsLeft, Counted
<1>7. ASSUME NEW t \in Threads,
             \/ OnDisconnect(t) \/ DeleteSession(t) \/ AlreadyDeleted(t) \/ UncountSession(t)
             \/ DeleteSessionAliases(t) \/ DeleteClientAddr(t)
      PROVE  RefsLeft
  <2>1. /\ chainRefs' = chainRefs /\ chainOf' = chainOf
        /\ pc[t] \notin {"retain", "shutCurrent", "stopped"}
    BY <1>7 DEF OnDisconnect, DeleteSession, AlreadyDeleted, UncountSession, DeleteSessionAliases,
         DeleteClientAddr, chains, contexts, created
  <2>2. \/ pc[t] \notin Counted /\ \E l : Goto(t, l)
        \/ \E l \in Counted : Goto(t, l)
    BY <1>7 DEF OnDisconnect, DeleteSession, AlreadyDeleted, UncountSession, DeleteSessionAliases,
         DeleteClientAddr, EndDelete, Counted
  <2> QED BY <1>1, <2>1, <2>2
<1>8. ASSUME CleanupIdle PROVE RefsLeft
  BY <1>1, <1>8, <1>w DEF CleanupIdle, BeginDelete, chains, contexts, created, Counted
<1>9. ASSUME NEW t \in Droppers, Drop(t) PROVE RefsLeft
  BY <1>1, <1>9, <1>w DEF Drop, BeginDelete, chains, created, Counted
<1>10. ASSUME \/ SwapChain \/ RegisterChain \/ RetireChain \/ SetAllowConnectionMigration \/ BeginStop
              \/ Drained \/ SweepNext \/ SweepDone \/ ShutdownCurrent
       PROVE  RefsLeft
  <2>1. /\ chainRefs' = chainRefs /\ chainOf' = chainOf /\ pc[Signal] \notin Counted /\ pc[Signal] # "retain"
    BY <1>10 DEF SwapChain, RegisterChain, RetireChain, SetAllowConnectionMigration, BeginStop,
         Drained, SweepNext, SweepDone, ShutdownCurrent, chains, contexts, created, Counted
  <2>2. \/ pc[Signal] \notin {"shutCurrent", "stopped"} /\ \E l : Goto(Signal, l)
        \/ Goto(Signal, "stopped")
    BY <1>10 DEF SwapChain, RegisterChain, RetireChain, SetAllowConnectionMigration, BeginStop,
         Drained, SweepNext, SweepDone, ShutdownCurrent, BeginDelete
  <2> QED BY <1>1, <2>1, <2>2, <1>w
<1>11. ASSUME NEW c \in Ctxs, ReaderStep(c) PROVE RefsLeft
  BY <1>2, <1>11 DEF ReaderStep, ServerPacket, DatagramDone, LearnServerSCID, StoreAlias, TrackSessionAlias,
       chains, contexts, created
<1>12. CASE UNCHANGED vars
  BY <1>2, <1>12 DEF vars, chains, contexts, created
<1> QED
  BY <1>3, <1>4, <1>5, <1>6, <1>7, <1>8, <1>9, <1>10, <1>11, <1>12
  DEF Next, WorkerStep, DeleteStep, StopStep, ReloadStep

\* The sessions and goroutines that are counted are finitely many.
LEMMA FiniteRefs ==
  ASSUME NEW c
  PROVE  /\ IsFiniteSet(Referring(c)) /\ IsFiniteSet(Releasing(c))
         /\ Cardinality(Referring(c)) \in Nat /\ Cardinality(Releasing(c)) \in Nat
<1>1. Referring(c) \subseteq DCIDs /\ Releasing(c) \subseteq Threads
  BY DEF Referring, Releasing, Stored
<1>2. IsFiniteSet(Referring(c)) /\ IsFiniteSet(Releasing(c))
  BY <1>1, FiniteAssumption, FS_Subset
<1> QED BY <1>2, FS_CardinalityType

\* Steps that change neither the counts nor what they count.
LEMMA RefsSame ==
  ASSUME TypeInv, Identity, RefsExact, RefsLeft, UNCHANGED sessions,
         \A t \in Threads : pc'[t] \in Counted => pc[t] \in Counted,
         \A t \in Threads : pc[t] \in Counted => delCtx'[t] = delCtx[t],
         \A w \in Workers : pc'[w] = "retain" => pc[w] = "retain",
         \A w \in Workers : pc[w] = "retain" => cx'[w] = cx[w]
  PROVE  RefsExact'
<1>1. \A d \in Stored : sessions[d] \in Ctxs /\ sessions[d] < nextCtx
  BY DEF Stored, TypeInv, TypeOK, Identity
<1>2. \A t \in Threads : pc[t] \in Counted => delCtx[t] \in Ctxs /\ delCtx[t] < nextCtx
  BY DEF Counted, Deleting, TypeInv, LocalsOK, Identity
<1>3. ASSUME NEW c \in Chains PROVE Referring(c)' = Referring(c)
  <2>1. Stored' = Stored
    BY DEF Stored
  <2>2. \A d \in Stored : Retained(d)' <=> Retained(d)
    BY <2>1 DEF Retained, RefsLeft
  <2>3. \A d \in Stored : chainOf'[sessions'[d]] = chainOf[sessions[d]]
    BY <1>1 DEF RefsLeft
  <2> QED BY <2>1, <2>2, <2>3 DEF Referring
<1>4. ASSUME NEW c \in Chains PROVE Releasing(c)' = Releasing(c)
  <2>1. \A t \in Threads : pc'[t] \in Counted <=> pc[t] \in Counted
    BY DEF RefsLeft
  <2>2. \A t \in Threads : pc[t] \in Counted => chainOf'[delCtx'[t]] = chainOf[delCtx[t]]
    BY <1>2 DEF RefsLeft
  <2> QED BY <2>1, <2>2 DEF Releasing
<1> QED BY <1>3, <1>4 DEF RefsExact, RefsLeft

\* RefsExact is inductive.
LEMMA RefsStep ==
  TypeInv /\ Identity /\ Unique /\ PastInv /\ RefsInv /\ RefsExact /\ [Next]_vars => RefsExact'
<1> SUFFICES ASSUME TypeInv, Identity, Unique, PastInv, RefsInv, RefsExact, [Next]_vars PROVE RefsExact'
  OBVIOUS
<1>w. /\ Workers \subseteq Threads /\ Signal \in Threads /\ Signal \notin Workers
      /\ pc \in [Threads -> Labels] /\ chainOf \in [Ctxs -> Chains]
      /\ cx \in [Workers -> Ctxs \cup {NoCtx}] /\ sessions \in [DCIDs -> Ctxs \cup {NoCtx}]
      /\ chainRefs \in [Chains -> Nat]
      /\ \A t \in Threads : pc[t] \in Deleting => delCtx[t] \in Ctxs /\ delKey[t] \in DCIDs
      /\ \A w \in Workers : pc[w] \in Creating => cx[w] \in Ctxs /\ cx[w] < nextCtx /\ pktCid[w] \in DCIDs
      /\ Counted \subseteq Deleting /\ NoCtx \notin Ctxs
  BY ThreadAssumption, SMTT(30) DEF Threads, TypeInv, TypeOK, LocalsOK, Counted, Deleting, NoCtx, Ctxs
<1>s. ASSUME NEW d \in Stored PROVE d \in DCIDs /\ sessions[d] \in Ctxs /\ sessions[d] < nextCtx /\ dcidOf[sessions[d]] = d
  BY <1>w DEF Stored, Identity
<1>1. ASSUME RefsLeft, Still PROVE RefsExact'
  BY <1>1, RefsSame DEF Still
<1>2. ASSUME RefsLeft, NEW t \in Threads, Moves(t) PROVE RefsExact'
  <2>1. \A u \in Threads : pc'[u] \in Counted => pc[u] \in Counted
    BY <1>2, <1>w DEF Moves, Steady, Removed, Counted
  <2>2. \A u \in Threads : pc[u] \in Counted => delCtx'[u] = delCtx[u]
    BY <1>2, <1>w DEF Moves, Steady, RefsLeft
  <2>3. \A w \in Workers : /\ pc'[w] = "retain" => pc[w] = "retain"
                           /\ pc[w] = "retain" => cx'[w] = cx[w]
    BY <1>2, <1>w DEF Moves, Steady, RefsLeft
  <2> QED BY <1>2, <2>1, <2>2, <2>3, RefsSame DEF Moves
<1>3. ASSUME RefsLeft, NEW t \in Threads, Begins(t) PROVE RefsExact'
  <2>1. \A u \in Threads : /\ pc'[u] \in Counted => pc[u] \in Counted
                           /\ pc[u] \in Counted => delCtx'[u] = delCtx[u]
    BY <1>3, <1>w DEF Begins, Steady, Counted
  <2>2. \A w \in Workers : /\ pc'[w] = "retain" => pc[w] = "retain"
                           /\ pc[w] = "retain" => cx'[w] = cx[w]
    BY <1>3, <1>w DEF Begins, Steady, Onward
  <2> QED BY <1>3, <2>1, <2>2, RefsSame DEF Begins
<1>4. ASSUME RefsLeft, NEW t \in Threads, NEW l, Goto(t, l), l \notin Counted, l # "retain",
             UNCHANGED <<sessions, delCtx>>, \A w \in Workers : w # t => cx'[w] = cx[w]
      PROVE  RefsExact'
  <2>1. \A u \in Threads : pc'[u] \in Counted => pc[u] \in Counted
    BY <1>4, <1>w DEF Goto
  <2>2. \A w \in Workers : /\ pc'[w] = "retain" => pc[w] = "retain"
                           /\ pc[w] = "retain" => cx'[w] = cx[w]
    BY <1>4, <1>w DEF Goto, RefsLeft
  <2> QED BY <1>4, <2>1, <2>2, RefsSame
<1>5. ASSUME RefsLeft, NEW t \in Threads, OnDisconnect(t) PROVE RefsExact'
  <2>1. Goto(t, "remove") /\ UNCHANGED <<sessions, delCtx, cx>>
    BY <1>5 DEF OnDisconnect, table, deletion, locals
  <2> QED BY <1>4, <1>5, <2>1 DEF Counted
<1>6. ASSUME RefsLeft, NEW w \in Workers, Dial(w) \/ SetDropSession(w) \/ NewContext(w) PROVE RefsExact'
  <2>1. /\ \E l \in {"store", "idle", "onConnect"} : Goto(w, l)
        /\ UNCHANGED <<sessions, delCtx>> /\ \A v \in Workers : v # w => cx'[v] = cx[v]
    BY <1>6, <1>w DEF Dial, SetDropSession, NewContext, Finish, table, deletion, locals
  <2> QED BY <1>4, <1>6, <2>1, <1>w DEF Counted
<1>7. ASSUME RefsLeft, NEW w \in Workers, NEW a \in Addrs, NEW d \in DCIDs, ReceiveInitial(w, a, d) PROVE RefsExact'
  <2>1. Goto(w, "connect") /\ UNCHANGED <<sessions, delCtx, cx>>
    BY <1>7 DEF ReceiveInitial, table, deletion
  <2> QED BY <1>4, <1>7, <2>1, <1>w DEF Counted
<1>8. ASSUME RefsLeft, NEW w \in Workers, PutSession(w) PROVE RefsExact'
  <2>1. /\ pc[w] = "put" /\ UNCHANGED <<cx, delCtx>> /\ pc' = [pc EXCEPT ![w] = "retain"]
        /\ sessions' = [sessions EXCEPT ![pktCid[w]] = cx[w]]
    BY <1>8 DEF PutSession, Goto, locals, deletion
  <2>2. pc[w] \in Early /\ cx[w] \in Ctxs
    BY <2>1, <1>w DEF Early, Creating
  <2>3. PICK k \in DCIDs : k = pktCid[w] /\ k \notin Stored
    BY <2>2, KeyFree DEF Stored
  <2>4. /\ sessions'[k] = cx[w] /\ Stored' = Stored \cup {k}
        /\ \A d \in Stored : d # k /\ sessions'[d] = sessions[d]
    BY <2>1, <2>2, <2>3, <1>w DEF Stored
  <2>5. ~Retained(k)'
    BY <2>1, <2>4, <1>w DEF Retained
  <2>6. \A d \in Stored : Retained(d)' <=> Retained(d)
    <3>1. \A d \in Stored : sessions[d] # cx[w]
      BY <2>2, <1>s DEF Identity
    <3>2. \A v \in Workers : v # w => pc'[v] = pc[v] /\ cx'[v] = cx[v]
      BY <2>1, <1>w
    <3>3. pc[w] # "retain"
      BY <2>1
    <3> QED BY <2>1, <2>4, <3>1, <3>2, <3>3 DEF Retained
  <2>7. ASSUME NEW c \in Chains PROVE Referring(c)' = Referring(c)
    <3>1. \A d \in Stored : chainOf'[sessions'[d]] = chainOf[sessions[d]]
      BY <1>8, <1>s, <2>4 DEF RefsLeft
    <3> QED BY <2>3, <2>4, <2>5, <2>6, <3>1 DEF Referring
  <2>8. ASSUME NEW c \in Chains PROVE Releasing(c)' = Releasing(c)
    <3>1. \A t \in Threads : pc'[t] \in Counted <=> pc[t] \in Counted
      BY <2>1, <1>w DEF Counted
    <3>2. \A t \in Threads : pc[t] \in Counted => chainOf'[delCtx'[t]] = chainOf[delCtx[t]]
      BY <1>8, <2>1, <1>w DEF RefsLeft, Identity
    <3> QED BY <3>1, <3>2 DEF Releasing
  <2> QED BY <1>8, <2>7, <2>8 DEF RefsExact, RefsLeft
<1>9. ASSUME RefsLeft, NEW t \in Threads, DeleteSession(t) PROVE RefsExact'
  <2>1. /\ pc[t] = "remove" /\ UNCHANGED <<cx, delCtx>> /\ pc' = [pc EXCEPT ![t] = "uncount"]
        /\ sessions[delKey[t]] # NoCtx /\ sessions' = [sessions EXCEPT ![delKey[t]] = NoCtx]
    BY <1>9 DEF DeleteSession, Goto, locals, deletion
  <2> DEFINE k == delKey[t]
             x == delCtx[t]
  <2>2. k \in Stored /\ k \in DCIDs /\ Past(x) /\ x \in Ctxs /\ x < nextCtx /\ dcidOf[x] = k
    BY <2>1, <1>w DEF PastInv, Identity, Stored, Deleting
  <2>3. sessions[k] = x
    BY <1>s, <2>2 DEF Unique
  <2>4. Retained(k)
    BY <2>2, <2>3 DEF Retained, Past, Creating
  <2>5. /\ Stored' = Stored \ {k} /\ \A d \in Stored' : sessions'[d] = sessions[d]
    BY <2>1, <2>2, <1>w DEF Stored
  <2>6. \A w \in Workers : (pc'[w] = "retain" <=> pc[w] = "retain") /\ cx'[w] = cx[w]
    BY <2>1, <1>w
  <2>7. \A d \in Stored' : (Retained(d)' <=> Retained(d)) /\ chainOf'[sessions'[d]] = chainOf[sessions[d]]
    <3>1. \A d \in Stored' : Retained(d)' <=> Retained(d)
      BY <2>5, <2>6 DEF Retained
    <3>2. \A d \in Stored' : chainOf'[sessions'[d]] = chainOf[sessions[d]]
      BY <1>9, <1>s, <2>5 DEF RefsLeft
    <3> QED BY <3>1, <3>2
  <2>8. \A u \in Threads : /\ pc'[u] \in Counted <=> u = t \/ pc[u] \in Counted
                           /\ pc'[u] \in Counted => chainOf'[delCtx'[u]] = chainOf[delCtx[u]]
    <3>1. \A u \in Threads : pc'[u] \in Counted <=> u = t \/ pc[u] \in Counted
      BY <2>1, <1>w DEF Counted
    <3>2. \A u \in Threads : pc'[u] \in Counted => delCtx[u] \in Ctxs /\ delCtx[u] < nextCtx
      BY <2>2, <3>1, <1>w DEF Identity
    <3> QED BY <1>9, <2>1, <3>1, <3>2 DEF RefsLeft
  <2>9. ASSUME NEW c \in Chains, c # chainOf[x] PROVE Referring(c)' = Referring(c) /\ Releasing(c)' = Releasing(c)
    <3>1. Referring(c)' = Referring(c)
      BY <2>3, <2>5, <2>7, <2>9 DEF Referring
    <3>2. Releasing(c)' = Releasing(c)
      BY <2>8, <2>9 DEF Releasing
    <3> QED BY <3>1, <3>2
  <2>10. ASSUME NEW c \in Chains, c = chainOf[x]
         PROVE  Cardinality(Referring(c)') + Cardinality(Releasing(c)') = Cardinality(Referring(c)) + Cardinality(Releasing(c))
    <3>1. Referring(c)' = Referring(c) \ {k} /\ k \in Referring(c)
      BY <2>2, <2>3, <2>4, <2>5, <2>7, <2>10 DEF Referring
    <3>2. Releasing(c)' = Releasing(c) \cup {t} /\ t \notin Releasing(c)
      BY <2>1, <2>8, <2>10, <1>w DEF Releasing, Counted
    <3>3. Cardinality(Referring(c)') = Cardinality(Referring(c)) - 1
      BY <3>1, FiniteRefs, FS_RemoveElement, ZenonT(60)
    <3>4. Cardinality(Releasing(c)') = Cardinality(Releasing(c)) + 1
      BY <3>2, FiniteRefs, FS_AddElement
    <3> QED BY <3>3, <3>4, FiniteRefs
  <2>11. ASSUME NEW c \in Chains
         PROVE  Cardinality(Referring(c)') + Cardinality(Releasing(c)') = Cardinality(Referring(c)) + Cardinality(Releasing(c))
    BY <2>9, <2>10
  <2> QED BY <1>9, <2>11 DEF RefsExact, RefsLeft
<1>10. ASSUME NEW w \in Workers, RetainChain(w) PROVE RefsExact'
  <2>1. /\ pc[w] = "retain" /\ UNCHANGED <<cx, delCtx, sessions, chainOf>> /\ pc' = [pc EXCEPT ![w] = "bindClient"]
        /\ chainRefs' = [chainRefs EXCEPT ![chainOf[cx[w]]] = @ + 1]
    BY <1>10 DEF RetainChain, Goto, locals, deletion, table, contexts, created
  <2>2. PICK k \in DCIDs, x \in Ctxs, b \in Chains :
          x = cx[w] /\ b = chainOf[x] /\ sessions[k] = x /\ k \in Stored /\ pc[w] \in Creating
    BY <2>1, <1>w DEF PastInv, Publishing, Creating, Stored
  <2>3. \A d \in Stored : d # k => sessions[d] # x
    BY <1>s, <2>2
  <2>4. Stored' = Stored /\ pc'[Signal] = pc[Signal]
    BY <2>1, <1>w DEF Stored
  <2>5. pc'[w] = "bindClient" /\ \A v \in Workers : v # w => pc'[v] = pc[v]
    BY <2>1, <1>w
  <2>6. Retained(k)' /\ ~Retained(k)
    <3>1. \A v \in Workers : v # w /\ pc[v] = "retain" => cx[v] # x
      BY <2>2 DEF Identity, Creating
    <3>2. ~Retained(k)
      BY <2>1, <2>2 DEF Retained
    <3>3. Retained(k)'
      BY <2>1, <2>2, <2>4, <2>5, <3>1 DEF Retained
    <3> QED BY <3>2, <3>3
  <2>7. \A d \in Stored : d # k => (Retained(d)' <=> Retained(d))
    BY <2>1, <2>2, <2>3, <2>4, <2>5 DEF Retained
  <2>8. \A c \in Chains : Releasing(c)' = Releasing(c)
    <3>1. \A t \in Threads : pc'[t] \in Counted <=> pc[t] \in Counted
      BY <2>1, <1>w DEF Counted
    <3> QED BY <2>1, <3>1 DEF Releasing
  <2>9. ASSUME NEW c \in Chains, c # b PROVE Referring(c)' = Referring(c) /\ chainRefs'[c] = chainRefs[c]
    <3>1. Referring(c)' = Referring(c)
      BY <2>1, <2>2, <2>4, <2>7, <2>9 DEF Referring
    <3> QED BY <2>1, <2>2, <2>9, <3>1, <1>w
  <2>10. Cardinality(Referring(b)') = Cardinality(Referring(b)) + 1 /\ chainRefs'[b] = chainRefs[b] + 1
    <3>1. Referring(b)' = Referring(b) \cup {k} /\ k \notin Referring(b)
      BY <2>1, <2>2, <2>4, <2>6, <2>7 DEF Referring
    <3>2. Cardinality(Referring(b)') = Cardinality(Referring(b)) + 1
      BY <3>1, FiniteRefs, FS_AddElement
    <3> QED BY <2>1, <2>2, <3>2, <1>w
  <2>11. ASSUME pc[Signal] \notin {"shutCurrent", "stopped"}, NEW c \in Chains
         PROVE  chainRefs'[c] = Cardinality(Referring(c)') + Cardinality(Releasing(c)')
    <3>1. chainRefs[c] = Cardinality(Referring(c)) + Cardinality(Releasing(c))
      BY <2>11 DEF RefsExact
    <3>2. CASE c = b
      BY <2>8, <2>10, <3>1, <3>2, FiniteRefs
    <3>3. CASE c # b
      BY <2>8, <2>9, <3>1, <3>3
    <3> QED BY <3>2, <3>3
  <2> QED BY <2>4, <2>11 DEF RefsExact
<1>11. ASSUME NEW t \in Threads, ReleaseChain(t) PROVE RefsExact'
  <2>1. /\ pc[t] = "release" /\ UNCHANGED <<cx, delCtx, sessions, chainOf>> /\ pc' = [pc EXCEPT ![t] = "unmap"]
    BY <1>11 DEF ReleaseChain, Goto, locals, deletion, table, contexts, created
  <2>2. PICK b \in Chains : b = chainOf[delCtx[t]] /\ t \in Releasing(b)
    BY <2>1, <1>w DEF Releasing, Counted, Deleting
  <2>3. Stored' = Stored /\ \A d : Retained(d)' <=> Retained(d)
    <3>1. Stored' = Stored
      BY <2>1 DEF Stored
    <3>2. \A v \in Workers : pc'[v] = "retain" <=> pc[v] = "retain"
      BY <2>1, <1>w
    <3> QED BY <2>1, <3>1, <3>2 DEF Retained
  <2>4. \A c \in Chains : Referring(c)' = Referring(c)
    BY <2>1, <2>3 DEF Referring
  <2>5. \A u \in Threads : pc'[u] \in Counted <=> u # t /\ pc[u] \in Counted
    BY <2>1, <1>w DEF Counted
  <2>6. ASSUME NEW c \in Chains, c # b PROVE Releasing(c)' = Releasing(c) /\ chainRefs'[c] = chainRefs[c]
    <3>1. Releasing(c)' = Releasing(c)
      BY <2>1, <2>2, <2>5, <2>6 DEF Releasing
    <3>2. chainRefs'[c] = chainRefs[c]
      BY <1>11, <2>2, <2>6, <1>w DEF ReleaseChain
    <3> QED BY <3>1, <3>2
  <2>7. Cardinality(Releasing(b)') = Cardinality(Releasing(b)) - 1 /\ Cardinality(Releasing(b)) > 0
    <3>1. \A u : u \in Releasing(b)' <=> u \in Releasing(b) \ {t}
      BY <2>1, <2>2, <2>5 DEF Releasing
    <3>2. Releasing(b)' = Releasing(b) \ {t}
      BY <3>1
    <3>3. Cardinality(Releasing(b)') = Cardinality(Releasing(b)) - 1
      BY <2>2, <3>2, FiniteRefs, FS_RemoveElement, ZenonT(60)
    <3>4. Cardinality(Releasing(b)) # 0
      BY <2>2, FiniteRefs, FS_EmptySet
    <3> QED BY <3>3, <3>4, FiniteRefs
  <2>8. ASSUME pc'[Signal] \notin {"shutCurrent", "stopped"} PROVE chainRefs'[b] = chainRefs[b] - 1
    <3>1. pc[Signal] \notin {"shutCurrent", "stopped"}
      BY <2>1, <2>8, <1>w
    <3>2. chainRefs[b] > 0 /\ b \in tracked
      BY <2>2, <2>7, <3>1, FiniteRefs DEF RefsExact, RefsInv
    <3>3. chainRefs' = [chainRefs EXCEPT ![b] = chainRefs[b] - 1]
      BY <1>11, <2>2, <3>2 DEF ReleaseChain
    <3> QED BY <2>2, <3>3, <1>w
  <2>9. pc'[Signal] \notin {"shutCurrent", "stopped"} => pc[Signal] \notin {"shutCurrent", "stopped"}
    BY <2>1, <1>w
  <2>10. ASSUME pc'[Signal] \notin {"shutCurrent", "stopped"}, NEW c \in Chains
         PROVE  chainRefs'[c] = Cardinality(Referring(c)') + Cardinality(Releasing(c)')
    <3>1. chainRefs[c] = Cardinality(Referring(c)) + Cardinality(Releasing(c))
      BY <2>9, <2>10 DEF RefsExact
    <3>2. CASE c = b
      BY <2>4, <2>7, <2>8, <2>10, <3>1, <3>2, FiniteRefs
    <3>3. CASE c # b
      BY <2>4, <2>6, <3>1, <3>3
    <3> QED BY <3>2, <3>3
  <2> QED BY <2>10 DEF RefsExact
<1>12. ASSUME ShutdownRetiredChains PROVE RefsExact'
  BY <1>12, <1>w DEF ShutdownRetiredChains, Goto, RefsExact
<1> QED
  BY <1>1, <1>2, <1>3, <1>5, <1>6, <1>7, <1>8, <1>9, <1>10, <1>11, <1>12, StepKinds, RefKinds

\* No session, no reference, no goroutine at work.
LEMMA RefsInit == Init => PastInv /\ RefsExact
<1> SUFFICES ASSUME Init PROVE PastInv /\ RefsExact
  OBVIOUS
<1>1. /\ (\A t \in Threads : pc[t] = "idle") /\ Workers \subseteq Threads /\ droppable = {}
      /\ \A w \in Workers : victims[w] = {}
  BY DEF Init, Threads
<1>2. PastInv
  BY <1>1 DEF PastInv, Deleting, Publishing
<1>3. ASSUME NEW c \in Chains PROVE Referring(c) = {} /\ Releasing(c) = {} /\ chainRefs[c] = 0
  BY <1>1 DEF Init, Referring, Releasing, Stored, Counted
<1>4. ASSUME NEW c \in Chains PROVE chainRefs[c] = Cardinality(Referring(c)) + Cardinality(Releasing(c))
  BY <1>3, FS_EmptySet
<1> QED BY <1>2, <1>4 DEF RefsExact

\* The counts are exact in every reachable state.
LEMMA RefsInvariant == ASSUME ~ReuseDCID, Prompt PROVE Spec => [](PastInv /\ RefsExact)
<1>1. TypeInv /\ Apart /\ SweepInv /\ RefsInv /\ PastInv /\ RefsExact /\ [Next]_vars => PastInv' /\ RefsExact'
  BY PastStep, RefsStep DEF Apart
<1> QED BY <1>1, RefsInit, TypeInvariant, ApartInvariant, SweepInvariant, ChainInvariant, PTL DEF Spec

\* The references of a chain are its sessions whenever nothing is in progress,
\* and a retired chain has some, if clients do not reuse a DCID and no session
\* is deleted while it is being stored: no session end takes a reference that
\* another session holds, and none is left behind.
THEOREM RefsSafe == ASSUME ~ReuseDCID, Prompt PROVE Spec => []RefsMatchSessions
<1>1. TypeInv /\ RefsInv /\ RefsExact => RefsMatchSessions
  <2> SUFFICES ASSUME TypeInv, RefsInv, RefsExact, Quiet, pc[Signal] = "idle", NEW c \in Chains
               PROVE  chainRefs[c] = Cardinality({d \in Stored : chainOf[sessions[d]] = c})
    BY DEF RefsMatchSessions, RefsInv
  <2>1. /\ \A t \in Threads : pc[t] \notin Counted
        /\ \A w \in Workers : pc[w] # "retain"
    BY DEF Quiet, Counted, Threads
  <2>2. Referring(c) = {d \in Stored : chainOf[sessions[d]] = c} /\ Releasing(c) = {}
    BY <2>1 DEF Referring, Releasing, Retained
  <2>3. Cardinality(Releasing(c)) = 0
    BY <2>2, FS_EmptySet
  <2>4. chainRefs[c] = Cardinality(Referring(c)) + Cardinality(Releasing(c))
    BY DEF RefsExact
  <2> QED BY <2>2, <2>3, <2>4, FiniteRefs
<1> QED BY <1>1, TypeInvariant, ChainInvariant, RefsInvariant, PTL

\* "Existing sessions continue": under the same conditions no reload and no end
\* of another session shuts down the chain of a session that has retained it.
THEOREM ReloadSafe == ASSUME ~ReuseDCID, Prompt PROVE Spec => ReloadKeepsRetained
<1>1. ASSUME TypeInv, RefsInv, SweepInv, RefsExact, [Next]_vars,
             NEW c \in Chains, shutdowns'[c] # shutdowns[c]
      PROVE  ~ \E d \in Stored : Retained(d) /\ chainOf[sessions[d]] = c
  <2>w. /\ shutdowns \in [Chains -> Nat] /\ chainOf \in [Ctxs -> Chains] /\ chainRefs \in [Chains -> Nat]
        /\ \A t \in Threads : pc[t] = "release" => delCtx[t] \in Ctxs
    BY <1>1 DEF TypeInv, TypeOK, LocalsOK, Deleting
  <2>s. ASSUME pc[Signal] \in {"shutRetired", "shutCurrent", "stopped"} PROVE Stored = {}
    BY <1>1, <2>s DEF SweepInv
  <2>1. ASSUME pc[Signal] \notin {"shutCurrent", "stopped"}, Cardinality(Referring(c)) = 0
        PROVE  ~ \E d \in Stored : Retained(d) /\ chainOf[sessions[d]] = c
    <3>1. Referring(c) = {}
      BY <2>1, FiniteRefs, FS_EmptySet
    <3> QED BY <3>1 DEF Referring
  <2>2. ASSUME NEW t \in Threads, ReleaseChain(t) PROVE ~ \E d \in Stored : Retained(d) /\ chainOf[sessions[d]] = c
    <3>1. /\ pc[t] = "release" /\ c = chainOf[delCtx[t]] /\ c \in retiredChains
          /\ (IF chainRefs[c] > 0 THEN chainRefs[c] - 1 ELSE 0) = 0
      BY <1>1, <2>2, <2>w DEF ReleaseChain
    <3>2. chainRefs[c] = 1
      BY <1>1, <3>1, <2>w DEF RefsInv, RetiredHaveRefs
    <3>3. t \in Releasing(c)
      BY <3>1 DEF Releasing, Counted
    <3>4. Cardinality(Releasing(c)) # 0
      BY <3>3, FiniteRefs, FS_EmptySet
    <3>5. CASE pc[Signal] \notin {"shutCurrent", "stopped"}
      <4>1. chainRefs[c] = Cardinality(Referring(c)) + Cardinality(Releasing(c))
        BY <1>1, <3>5 DEF RefsExact
      <4>2. Cardinality(Referring(c)) = 0
        BY <3>2, <3>4, <4>1, FiniteRefs
      <4> QED BY <2>1, <3>5, <4>2
    <3>6. CASE pc[Signal] \in {"shutCurrent", "stopped"}
      BY <2>s, <3>6
    <3> QED BY <3>5, <3>6
  <2>3. ASSUME RetireChain PROVE ~ \E d \in Stored : Retained(d) /\ chainOf[sessions[d]] = c
    <3>1. pc[Signal] = "registered" /\ chainRefs[c] = 0
      BY <1>1, <2>3, <2>w DEF RetireChain
    <3>2. chainRefs[c] = Cardinality(Referring(c)) + Cardinality(Releasing(c))
      BY <1>1, <3>1 DEF RefsExact
    <3>3. Cardinality(Referring(c)) = 0
      BY <3>1, <3>2, FiniteRefs
    <3> QED BY <2>1, <3>1, <3>3
  <2>4. ASSUME ShutdownRetiredChains \/ ShutdownCurrent PROVE Stored = {}
    BY <2>s, <2>4 DEF ShutdownRetiredChains, ShutdownCurrent
  <2>5. ASSUME NEW w \in Workers, PacketStep(w) \/ WorkerStep(w) \/ WorkerExit(w) PROVE FALSE
    BY <1>1, <2>5 DEF PacketStep, ReceivePacket, ReceiveInitial, WorkerExit, WorkerStep, CheckAddr,
         BeginMigration, SetClientAddr, DeleteOldAddr, StoreNewAddr, NewContext, TryReserveSessionSlot,
         LimitReached, NoLimiter, Dial, ReleaseReservedSessionSlot, StoreSession, CollectOldest, EvictNext,
         EvictDone, PutSession, RetainChain, StoreClientAddr, SetDropSession, chains
  <2>6. ASSUME NEW t \in Threads, DeleteStep(t), ~ReleaseChain(t) PROVE FALSE
    BY <1>1, <2>6 DEF DeleteStep, OnDisconnect, DeleteSession, AlreadyDeleted, UncountSession,
         DeleteSessionAliases, DeleteClientAddr, chains
  <2>7. ASSUME \/ CleanupIdle \/ (\E t \in Droppers : Drop(t)) \/ SwapChain \/ RegisterChain
               \/ SetAllowConnectionMigration \/ BeginStop \/ Drained \/ SweepNext \/ SweepDone
        PROVE  FALSE
    BY <1>1, <2>7 DEF CleanupIdle, Drop, SwapChain, RegisterChain, SetAllowConnectionMigration, BeginStop,
         Drained, SweepNext, SweepDone, chains
  <2>8. ASSUME NEW b \in Ctxs, ReaderStep(b) PROVE FALSE
    BY <1>1, <2>8 DEF ReaderStep, ServerPacket, DatagramDone, LearnServerSCID, StoreAlias, TrackSessionAlias,
         chains
  <2>9. CASE UNCHANGED vars
    BY <1>1, <2>9 DEF vars, chains
  <2> QED BY <1>1, <2>2, <2>3, <2>4, <2>5, <2>6, <2>7, <2>8, <2>9 DEF Next, ReloadStep, StopStep
<1>2. TypeInv /\ RefsInv /\ SweepInv /\ RefsExact /\ [Next]_vars =>
        [\A c \in Chains : shutdowns'[c] # shutdowns[c] =>
           ~ \E d \in Stored : Retained(d) /\ chainOf[sessions[d]] = c]_vars
  BY <1>1
<1> QED BY <1>2, TypeInvariant, ChainInvariant, SweepInvariant, RefsInvariant, PTL DEF Spec, ReloadKeepsRetained

-----------------------------------------------------------------------------
(* Addresses, when no configuration allows migration.                      *)

\* No session changes its address.
Fixed == ~allowMigration /\ \A w \in Workers : pc[w] \notin {"rebind", "unbindOld", "bindNew"}

\* The entry of address a for d has a session at a, or one that is leaving.
Named(d, a) ==
  \/ d \in Stored /\ addrOf[sessions[d]] = a
  \/ \E t \in Threads : pc[t] \in Removed /\ delKey[t] = d /\ addrOf[delCtx[t]] = a

AddrInv ==
  /\ \A w \in Workers : pc[w] \in Creating => addrOf[cx[w]] = pktAddr[w]
  /\ \A a \in Addrs : clientSessions[a] # NoKey => Named(clientSessions[a], a)

\* A step that does not touch the addresses or finish a deletion.
AddrLeft ==
  /\ UNCHANGED <<clientSessions, addrOf>>
  /\ \A t \in Threads : pc[t] \in Removed => pc'[t] \in Removed /\ delKey'[t] = delKey[t] /\ delCtx'[t] = delCtx[t]
  /\ \A w \in Workers : pc'[w] \in Creating => pktAddr'[w] = pktAddr[w]

\* Without migration only these steps touch the addresses.
LEMMA AddrKinds ==
  ASSUME TypeInv, Fixed, [Next]_vars
  PROVE  \/ AddrLeft
         \/ \E w \in Workers : NewContext(w) \/ StoreClientAddr(w)
         \/ \E t \in Threads : DeleteClientAddr(t)
<1>w. /\ Workers \subseteq Threads /\ Droppers \subseteq Threads /\ Janitor \in Threads /\ Signal \in Threads
      /\ Signal \notin Workers /\ Janitor \notin Workers /\ Droppers \cap Workers = {}
      /\ pc \in [Threads -> Labels] /\ delKey \in [Threads -> DCIDs \cup {NoKey}]
      /\ delCtx \in [Threads -> Ctxs \cup {NoCtx}] /\ pktAddr \in [Workers -> Addrs \cup {NoKey}]
  BY ThreadAssumption DEF Threads, TypeInv, TypeOK
<1>1. ASSUME NEW t \in Threads, NEW l, Goto(t, l), UNCHANGED <<clientSessions, addrOf, deletion>>,
             pc[t] \in Removed => l \in Removed,
             \A w \in Workers : w # t \/ l \in Creating => pktAddr'[w] = pktAddr[w]
      PROVE  AddrLeft
  BY <1>1, <1>w DEF AddrLeft, Goto, deletion
<1>2. ASSUME NEW t \in Threads, NEW d, NEW c, BeginDelete(t, d, c), pc[t] \notin Removed,
             UNCHANGED <<clientSessions, addrOf, pktAddr>>
      PROVE  AddrLeft
  BY <1>2, <1>w DEF AddrLeft, BeginDelete, Goto
<1>3. ASSUME pc' = pc, UNCHANGED <<clientSessions, addrOf, pktAddr, deletion>> PROVE AddrLeft
  BY <1>3 DEF AddrLeft, deletion
<1>4. ASSUME NEW w \in Workers, PacketStep(w) \/ WorkerExit(w) PROVE AddrLeft
  <2>1. /\ UNCHANGED <<clientSessions, addrOf, deletion>> /\ pc[w] = "idle"
        /\ \A v \in Workers : v # w => pktAddr'[v] = pktAddr[v]
    BY <1>4, <1>w DEF PacketStep, ReceivePacket, ReceiveInitial, WorkerExit, table, contexts, locals, packet
  <2>2. \E l \in {"bind", "connect", "exited"} : Goto(w, l)
    BY <1>4 DEF PacketStep, ReceivePacket, ReceiveInitial, WorkerExit
  <2> QED BY <1>1, <2>1, <2>2, <1>w DEF Removed, Creating, Reserving, Deleting
<1>5. ASSUME NEW w \in Workers,
             \/ CheckAddr(w) \/ LimitReached(w) \/ ReleaseReservedSessionSlot(w) \/ SetDropSession(w)
      PROVE  AddrLeft
  <2>1. /\ UNCHANGED <<clientSessions, addrOf, deletion>> /\ Goto(w, "idle") /\ pc[w] \notin Removed
        /\ \A v \in Workers : v # w => pktAddr'[v] = pktAddr[v]
    BY <1>5, <1>w DEF CheckAddr, LimitReached, ReleaseReservedSessionSlot, SetDropSession, Finish, table,
         contexts, Removed
  <2> QED BY <1>1, <2>1, <1>w DEF Creating, Reserving, Deleting
<1>6. ASSUME NEW w \in Workers,
             \/ TryReserveSessionSlot(w) \/ NoLimiter(w) \/ Dial(w) \/ StoreSession(w)
             \/ CollectOldest(w) \/ EvictDone(w) \/ PutSession(w) \/ RetainChain(w)
      PROVE  AddrLeft
  <2>1. UNCHANGED <<clientSessions, addrOf, deletion, pktAddr>> /\ pc[w] \notin Removed
    BY <1>6 DEF TryReserveSessionSlot, NoLimiter, Dial, StoreSession, CollectOldest, EvictDone, PutSession,
         RetainChain, table, contexts, locals, packet, Removed
  <2>2. \E l : Goto(w, l)
    BY <1>6 DEF TryReserveSessionSlot, NoLimiter, Dial, StoreSession, CollectOldest, EvictDone, PutSession,
         RetainChain
  <2> QED BY <1>1, <2>1, <2>2, <1>w
<1>7. ASSUME NEW w \in Workers, BeginMigration(w) \/ SetClientAddr(w) \/ DeleteOldAddr(w) \/ StoreNewAddr(w)
      PROVE  FALSE
  BY <1>7 DEF Fixed, BeginMigration, SetClientAddr, DeleteOldAddr, StoreNewAddr
<1>8. ASSUME NEW w \in Workers, EvictNext(w) PROVE AddrLeft
  <2>1. UNCHANGED <<clientSessions, addrOf, pktAddr>> /\ pc[w] = "evict"
    BY <1>8 DEF EvictNext, table, contexts, packet
  <2>2. (\E d, c : BeginDelete(w, d, c)) \/ UNCHANGED <<deletion, pc>>
    BY <1>8 DEF EvictNext, BeginDelete
  <2> QED BY <1>2, <1>3, <2>1, <2>2, <1>w DEF Removed
<1>9. ASSUME NEW t \in Threads,
             \/ OnDisconnect(t) \/ DeleteSession(t) \/ UncountSession(t) \/ DeleteSessionAliases(t)
             \/ ReleaseChain(t)
      PROVE  AddrLeft
  <2>1. UNCHANGED <<clientSessions, addrOf, deletion, pktAddr>>
    BY <1>9 DEF OnDisconnect, DeleteSession, UncountSession, DeleteSessionAliases, ReleaseChain, table,
         contexts, locals, packet
  <2>2. \/ pc[t] \notin Removed /\ \E l : Goto(t, l)
        \/ \E l \in Removed : Goto(t, l)
    BY <1>9 DEF OnDisconnect, DeleteSession, UncountSession, DeleteSessionAliases, ReleaseChain, Removed
  <2> QED BY <1>1, <2>1, <2>2
<1>10. ASSUME NEW t \in Threads, AlreadyDeleted(t) PROVE AddrLeft
  <2>1. UNCHANGED <<clientSessions, addrOf, pktAddr>> /\ pc[t] \notin Removed /\ EndDelete(t)
    BY <1>10 DEF AlreadyDeleted, table, contexts, locals, packet, Removed
  <2> QED BY <2>1, <1>w DEF AddrLeft, EndDelete, Goto
<1>11. ASSUME CleanupIdle PROVE AddrLeft
  <2>1. UNCHANGED <<clientSessions, addrOf, pktAddr>> /\ pc[Janitor] \notin Removed /\ \E d, c : BeginDelete(Janitor, d, c)
    BY <1>11 DEF CleanupIdle, table, contexts, locals, packet, Removed
  <2> QED BY <1>2, <2>1, <1>w
<1>12. ASSUME NEW t \in Droppers, Drop(t) PROVE AddrLeft
  <2>1. UNCHANGED <<clientSessions, addrOf, pktAddr>> /\ pc[t] \notin Removed /\ \E d, c : BeginDelete(t, d, c)
    BY <1>12 DEF Drop, table, locals, packet, Removed
  <2> QED BY <1>2, <2>1, <1>w
<1>13. ASSUME SweepNext PROVE AddrLeft
  <2>1. UNCHANGED <<clientSessions, addrOf, pktAddr>> /\ pc[Signal] \notin Removed /\ \E d, c : BeginDelete(Signal, d, c)
    BY <1>13 DEF SweepNext, table, contexts, locals, packet, Removed
  <2> QED BY <1>2, <2>1, <1>w
<1>14. ASSUME \/ SwapChain \/ RegisterChain \/ RetireChain \/ SetAllowConnectionMigration \/ BeginStop
              \/ Drained \/ SweepDone \/ ShutdownRetiredChains \/ ShutdownCurrent
       PROVE  AddrLeft
  <2>1. UNCHANGED <<clientSessions, addrOf, deletion, pktAddr>> /\ pc[Signal] \notin Removed
    BY <1>14 DEF SwapChain, RegisterChain, RetireChain, SetAllowConnectionMigration, BeginStop, Drained,
         SweepDone, ShutdownRetiredChains, ShutdownCurrent, table, contexts, locals, packet, Removed
  <2>2. \E l : Goto(Signal, l)
    BY <1>14 DEF SwapChain, RegisterChain, RetireChain, SetAllowConnectionMigration, BeginStop, Drained,
         SweepDone, ShutdownRetiredChains, ShutdownCurrent
  <2> QED BY <1>1, <2>1, <2>2, <1>w
<1>15. ASSUME NEW c \in Ctxs, ReaderStep(c) PROVE AddrLeft
  BY <1>3, <1>15 DEF ReaderStep, ServerPacket, DatagramDone, LearnServerSCID, StoreAlias, TrackSessionAlias,
       table, contexts, locals, packet
<1>16. CASE UNCHANGED vars
  BY <1>3, <1>16 DEF vars, table, contexts, locals, packet
<1> QED
  BY <1>4, <1>5, <1>6, <1>7, <1>8, <1>9, <1>10, <1>11, <1>12, <1>13, <1>14, <1>15, <1>16
  DEF Next, WorkerStep, DeleteStep, StopStep, ReloadStep

\* Migration stays off.
LEMMA FixedStep == Settings \subseteq {FALSE} /\ TypeInv /\ Fixed /\ [Next]_vars => Fixed'
<1> SUFFICES ASSUME Settings \subseteq {FALSE}, TypeInv, Fixed, [Next]_vars PROVE Fixed'
  OBVIOUS
<1> DEFINE Moving == {"rebind", "unbindOld", "bindNew"}
<1>w. Workers \subseteq Threads /\ Signal \in Threads /\ Signal \notin Workers /\ pc \in [Threads -> Labels]
  BY ThreadAssumption DEF Threads, TypeInv, TypeOK
<1>1. allowMigration' = allowMigration \/ allowMigration' \in Settings
  <2>1. ASSUME NEW w \in Workers, PacketStep(w) \/ WorkerStep(w) \/ WorkerExit(w) PROVE UNCHANGED allowMigration
    BY <2>1 DEF PacketStep, ReceivePacket, ReceiveInitial, WorkerExit, WorkerStep, CheckAddr,
         BeginMigration, SetClientAddr, DeleteOldAddr, StoreNewAddr, NewContext, TryReserveSessionSlot,
         LimitReached, NoLimiter, Dial, ReleaseReservedSessionSlot, StoreSession, CollectOldest, EvictNext,
         EvictDone, PutSession, RetainChain, StoreClientAddr, SetDropSession
  <2>2. ASSUME NEW t \in Threads, DeleteStep(t) PROVE UNCHANGED allowMigration
    BY <2>2 DEF DeleteStep, OnDisconnect, DeleteSession, AlreadyDeleted, UncountSession,
         DeleteSessionAliases, ReleaseChain, DeleteClientAddr
  <2>3. ASSUME \/ CleanupIdle \/ (\E t \in Droppers : Drop(t)) \/ SwapChain \/ RegisterChain \/ RetireChain
               \/ BeginStop \/ StopStep
        PROVE  UNCHANGED allowMigration
    BY <2>3 DEF CleanupIdle, Drop, SwapChain, RegisterChain, RetireChain, BeginStop, StopStep,
         Drained, SweepNext, SweepDone, ShutdownRetiredChains, ShutdownCurrent
  <2>4. ASSUME NEW c \in Ctxs, ReaderStep(c) PROVE UNCHANGED allowMigration
    BY <2>4 DEF ReaderStep, ServerPacket, DatagramDone, LearnServerSCID, StoreAlias, TrackSessionAlias
  <2>5. SetAllowConnectionMigration => allowMigration' \in Settings
    BY DEF SetAllowConnectionMigration
  <2>6. UNCHANGED vars => UNCHANGED allowMigration
    BY DEF vars
  <2> QED BY <2>1, <2>2, <2>3, <2>4, <2>5, <2>6 DEF Next, ReloadStep
<1>2. ~allowMigration'
  BY <1>1 DEF Fixed
<1>3. ASSUME NEW t \in Threads, NEW l, Goto(t, l), l \notin Moving PROVE \A w \in Workers : pc'[w] \notin Moving
  BY <1>3, <1>w DEF Fixed, Goto
<1>4. ASSUME pc' = pc PROVE \A w \in Workers : pc'[w] \notin Moving
  BY <1>4 DEF Fixed
<1>5. \/ pc' = pc
      \/ \E t \in Threads : \E l : Goto(t, l) /\ l \notin Moving
  <2>1. ASSUME NEW w \in Workers, PacketStep(w) \/ WorkerExit(w) PROVE \E l : Goto(w, l) /\ l \notin Moving
    <3>1. \E l \in {"bind", "connect", "exited"} : Goto(w, l)
      BY <2>1 DEF PacketStep, ReceivePacket, ReceiveInitial, WorkerExit
    <3> QED BY <3>1
  <2>2. ASSUME NEW w \in Workers, WorkerStep(w)
        PROVE  pc' = pc \/ \E l : Goto(w, l) /\ l \notin Moving
    <3>1. ASSUME BeginMigration(w) \/ SetClientAddr(w) \/ DeleteOldAddr(w) \/ StoreNewAddr(w) PROVE FALSE
      BY <3>1 DEF Fixed, BeginMigration, SetClientAddr, DeleteOldAddr, StoreNewAddr
    <3>2. \/ pc' = pc
          \/ \E l \in {"idle", "onConnect", "dial", "store", "collect", "evict", "put", "disconnect", "retain",
                       "bindClient", "publish"} : Goto(w, l)
      BY <2>2, <3>1 DEF WorkerStep, CheckAddr, NewContext, TryReserveSessionSlot,
           LimitReached, NoLimiter, Dial, ReleaseReservedSessionSlot, StoreSession, CollectOldest, EvictNext,
           EvictDone, PutSession, RetainChain, StoreClientAddr, SetDropSession, Finish
    <3> QED BY <3>2
  <2>3. ASSUME NEW t \in Threads, DeleteStep(t) PROVE \E l : Goto(t, l) /\ l \notin Moving
    <3>1. \E l \in Deleting \cup {"evict", "sweep", "idle"} : Goto(t, l)
      BY <2>3 DEF DeleteStep, OnDisconnect, DeleteSession, AlreadyDeleted, UncountSession,
           DeleteSessionAliases, ReleaseChain, DeleteClientAddr, EndDelete, Deleting
    <3> QED BY <3>1 DEF Deleting
  <2>4. ASSUME CleanupIdle PROVE Goto(Janitor, "disconnect")
    BY <2>4 DEF CleanupIdle, BeginDelete
  <2>5. ASSUME NEW t \in Droppers, Drop(t) PROVE Goto(t, "disconnect")
    BY <2>5 DEF Drop, BeginDelete
  <2>6. ASSUME ReloadStep \/ BeginStop \/ StopStep PROVE \E l : Goto(Signal, l) /\ l \notin Moving
    <3>1. \E l \in {"idle", "swapped", "registered", "retired", "disconnect"} \cup Stopping : Goto(Signal, l)
      BY <2>6 DEF ReloadStep, SwapChain, RegisterChain, RetireChain, SetAllowConnectionMigration, BeginStop,
           StopStep, Drained, SweepNext, SweepDone, ShutdownRetiredChains, ShutdownCurrent, BeginDelete, Stopping
    <3> QED BY <3>1 DEF Stopping
  <2>7. ASSUME NEW c \in Ctxs, ReaderStep(c) PROVE pc' = pc
    BY <2>7 DEF ReaderStep, ServerPacket, DatagramDone, LearnServerSCID, StoreAlias, TrackSessionAlias
  <2>8. UNCHANGED vars => pc' = pc
    BY DEF vars
  <2> QED BY <2>1, <2>2, <2>3, <2>4, <2>5, <2>6, <2>7, <2>8, <1>w DEF Next, Threads
<1> QED BY <1>2, <1>3, <1>4, <1>5 DEF Fixed

\* An entry keeps its session, or its deleter, until the deleter removes it.
LEMMA NamedStays ==
  ASSUME TypeInv, Identity, Unique, Fixed, [Next]_vars, NEW d \in DCIDs, NEW a \in Addrs, Named(d, a)
  PROVE  Named(d, a)' \/ \E t \in Threads : DeleteClientAddr(t) /\ addrOf[delCtx[t]] = a
<1>w. /\ Workers \subseteq Threads /\ pc \in [Threads -> Labels] /\ nextCtx \in Int
      /\ sessions \in [DCIDs -> Ctxs \cup {NoCtx}] /\ addrOf \in [Ctxs -> Addrs \cup {NoKey}]
      /\ delKey \in [Threads -> DCIDs \cup {NoKey}] /\ delCtx \in [Threads -> Ctxs \cup {NoCtx}]
      /\ \A t \in Threads : pc[t] \in Deleting =>
           delCtx[t] \in Ctxs /\ delKey[t] \in DCIDs /\ delCtx[t] < nextCtx /\ dcidOf[delCtx[t]] = delKey[t]
      /\ Removed \subseteq Deleting
  BY DEF Threads, TypeInv, TypeOK, LocalsOK, Identity, Removed, Deleting
<1>1. \A c \in Ctxs : c < nextCtx => addrOf'[c] = addrOf[c]
  <2>1. ASSUME NEW w \in Workers, NewContext(w) PROVE \A c \in Ctxs : c < nextCtx => addrOf'[c] = addrOf[c]
    <3>1. addrOf' = [addrOf EXCEPT ![nextCtx] = pktAddr[w]]
      BY <2>1 DEF NewContext
    <3> QED BY <3>1, <1>w DEF Ctxs
  <2>2. ASSUME NEW w \in Workers, StoreClientAddr(w) PROVE UNCHANGED addrOf
    BY <2>2 DEF StoreClientAddr, contexts
  <2>3. ASSUME NEW t \in Threads, DeleteClientAddr(t) PROVE UNCHANGED addrOf
    BY <2>3 DEF DeleteClientAddr, contexts
  <2> QED BY <2>1, <2>2, <2>3, AddrKinds DEF AddrLeft
<1>2. ASSUME NEW t \in Threads, pc[t] \in Removed, delKey[t] = d, addrOf[delCtx[t]] = a
      PROVE  Named(d, a)' \/ DeleteClientAddr(t)
  <2>1. ASSUME pc'[t] \in Removed, delKey'[t] = delKey[t], delCtx'[t] = delCtx[t] PROVE Named(d, a)'
    BY <1>1, <1>2, <2>1, <1>w DEF Named
  <2>2. ASSUME NEW w \in Workers, NewContext(w) \/ StoreClientAddr(w) PROVE Named(d, a)'
    <3>1. UNCHANGED deletion /\ pc[w] \notin Removed /\ \E l : Goto(w, l)
      BY <2>2 DEF NewContext, StoreClientAddr, Removed
    <3> QED BY <1>2, <2>1, <3>1, <1>w DEF Goto, deletion
  <2>3. ASSUME NEW u \in Threads, DeleteClientAddr(u), u # t PROVE Named(d, a)'
    <3>1. EndDelete(u)
      BY <2>3 DEF DeleteClientAddr
    <3> QED BY <1>2, <2>1, <2>3, <3>1, <1>w DEF EndDelete, Goto
  <2> QED BY <1>2, <2>1, <2>2, <2>3, AddrKinds DEF AddrLeft
<1>3. ASSUME d \in Stored, addrOf[sessions[d]] = a PROVE Named(d, a)'
  <2>0. sessions[d] \in Ctxs /\ sessions[d] < nextCtx /\ dcidOf[sessions[d]] = d
    BY <1>3, <1>w DEF Stored, Identity
  <2>1. ASSUME sessions'[d] = sessions[d] PROVE Named(d, a)'
    BY <1>1, <1>3, <2>0, <2>1 DEF Named, Stored
  <2>2. ASSUME NEW w \in Workers, PutSession(w) PROVE sessions'[d] = sessions[d]
    <3>1. pc[w] = "put" /\ sessions' = [sessions EXCEPT ![pktCid[w]] = cx[w]]
      BY <2>2 DEF PutSession
    <3>2. pktCid[w] \in DCIDs /\ sessions[pktCid[w]] = NoCtx
      BY <3>1, KeyFree DEF Early, Creating
    <3> QED BY <1>3, <3>1, <3>2, <1>w DEF Stored
  <2>3. ASSUME NEW t \in Threads, DeleteSession(t) PROVE Named(d, a)'
    <3>1. /\ pc[t] = "remove" /\ UNCHANGED <<delKey, delCtx>> /\ pc' = [pc EXCEPT ![t] = "uncount"]
          /\ sessions' = [sessions EXCEPT ![delKey[t]] = NoCtx]
      BY <2>3 DEF DeleteSession, Goto, deletion
    <3>2. CASE delKey[t] # d
      BY <2>1, <3>1, <3>2, <1>w
    <3>3. CASE delKey[t] = d
      <4>1. delCtx[t] = sessions[d]
        BY <2>0, <3>1, <3>3, <1>w DEF Unique, Deleting
      <4>2. pc'[t] \in Removed /\ delKey'[t] = d /\ addrOf'[delCtx'[t]] = a
        BY <1>1, <1>3, <2>0, <3>1, <3>3, <4>1, <1>w DEF Removed
      <4> QED BY <4>2 DEF Named
    <3> QED BY <3>2, <3>3
  <2>4. ASSUME NEW t \in Threads, OnDisconnect(t) PROVE UNCHANGED sessions
    BY <2>4 DEF OnDisconnect, table
  <2>5. ASSUME NEW w \in Workers, Dial(w) \/ SetDropSession(w) \/ NewContext(w) PROVE UNCHANGED sessions
    BY <2>5 DEF Dial, SetDropSession, NewContext, table
  <2>6. ASSUME NEW w \in Workers, NEW b \in Addrs, NEW k \in DCIDs, ReceiveInitial(w, b, k) PROVE UNCHANGED sessions
    BY <2>6 DEF ReceiveInitial, table
  <2> QED BY <2>1, <2>2, <2>3, <2>4, <2>5, <2>6, StepKinds DEF Still, Moves, Begins
<1> QED BY <1>2, <1>3 DEF Named

\* AddrInv is inductive.
LEMMA AddrStep ==
  TypeInv /\ Identity /\ Unique /\ PastInv /\ Fixed /\ AddrInv /\ [Next]_vars => AddrInv'
<1> SUFFICES ASSUME TypeInv, Identity, Unique, PastInv, Fixed, AddrInv, [Next]_vars PROVE AddrInv'
  OBVIOUS
<1>w. /\ Workers \subseteq Threads /\ pc \in [Threads -> Labels] /\ cx \in [Workers -> Ctxs \cup {NoCtx}]
      /\ clientSessions \in [Addrs -> DCIDs \cup {NoKey}] /\ addrOf \in [Ctxs -> Addrs \cup {NoKey}]
      /\ nextCtx \in Int
      /\ \A w \in Workers : pc[w] \in Creating => cx[w] \in Ctxs /\ cx[w] < nextCtx /\ pktCid[w] \in DCIDs
  BY DEF Threads, TypeInv, TypeOK, LocalsOK
<1>1. ASSUME NEW v \in Workers, pc'[v] \in Creating PROVE addrOf'[cx'[v]] = pktAddr'[v]
  <2>1. ASSUME NEW w \in Workers, NewContext(w) PROVE addrOf'[cx'[v]] = pktAddr'[v]
    <3>1. /\ addrOf' = [addrOf EXCEPT ![nextCtx] = pktAddr[w]] /\ pc' = [pc EXCEPT ![w] = "onConnect"]
          /\ cx' = [cx EXCEPT ![w] = nextCtx] /\ UNCHANGED pktAddr /\ nextCtx \in Ctxs
      BY <2>1 DEF NewContext, Goto, packet, Ctxs, TypeInv, TypeOK
    <3>2. CASE v = w
      BY <3>1, <3>2, <1>w
    <3>3. CASE v # w
      <4>1. pc[v] \in Creating /\ cx'[v] = cx[v]
        BY <1>1, <3>1, <3>3, <1>w
      <4>2. cx[v] \in Ctxs /\ cx[v] # nextCtx
        BY <4>1, <1>w DEF Ctxs
      <4> QED BY <3>1, <4>1, <4>2, <1>w DEF AddrInv
    <3> QED BY <3>2, <3>3
  <2>2. ASSUME \A u \in Workers : pc'[u] \in Creating => pc[u] \in Creating /\ cx'[u] = cx[u]
        PROVE  addrOf'[cx'[v]] = pktAddr'[v]
    <3>1. ASSUME NEW w \in Workers, StoreClientAddr(w) PROVE UNCHANGED <<addrOf, pktAddr>>
      BY <3>1 DEF StoreClientAddr, contexts, locals, packet
    <3>2. ASSUME NEW t \in Threads, DeleteClientAddr(t) PROVE UNCHANGED <<addrOf, pktAddr>>
      BY <3>2 DEF DeleteClientAddr, contexts, locals, packet
    <3>3. addrOf[cx[v]] = pktAddr[v] /\ cx'[v] = cx[v]
      BY <1>1, <2>2 DEF AddrInv
    <3> QED BY <1>1, <2>1, <3>1, <3>2, <3>3, AddrKinds DEF AddrLeft
  <2> QED BY <2>1, <2>2, CreatingStays
<1>2. ASSUME NEW a \in Addrs, clientSessions'[a] = clientSessions[a], clientSessions[a] # NoKey,
             ~ \E t \in Threads : DeleteClientAddr(t) /\ addrOf[delCtx[t]] = a
      PROVE  Named(clientSessions[a], a)'
  <2>1. PICK d \in DCIDs : d = clientSessions[a]
    BY <1>2, <1>w
  <2>2. Named(d, a)
    BY <1>2, <2>1 DEF AddrInv
  <2>3. Named(d, a)'
    BY <1>2, <2>2, NamedStays
  <2> QED BY <1>2, <2>1, <2>3 DEF Named
<1>3. ASSUME NEW w \in Workers, StoreClientAddr(w), NEW a \in Addrs, clientSessions'[a] # NoKey
      PROVE  Named(clientSessions[a], a)'
  <2>1. /\ pc[w] = "bindClient" /\ clientSessions' = [clientSessions EXCEPT ![pktAddr[w]] = pktCid[w]]
        /\ UNCHANGED <<sessions, addrOf>>
    BY <1>3 DEF StoreClientAddr, contexts
  <2>2. pktCid[w] \in DCIDs /\ sessions[pktCid[w]] = cx[w] /\ cx[w] \in Ctxs /\ addrOf[cx[w]] = pktAddr[w]
    BY <2>1, <1>w DEF PastInv, Publishing, AddrInv, Creating
  <2>3. CASE a = pktAddr[w]
    BY <2>1, <2>2, <2>3, <1>w DEF Named, Stored, Ctxs, NoCtx
  <2>4. CASE a # pktAddr[w]
    <3>1. clientSessions'[a] = clientSessions[a] /\ clientSessions[a] # NoKey
      BY <1>3, <2>1, <2>4, <1>w
    <3>2. ASSUME NEW t \in Threads, DeleteClientAddr(t) PROVE FALSE
      <4>1. pc[t] = "unmap" /\ pc'[t] # "unmap"
        BY <3>2, <1>w DEF DeleteClientAddr, EndDelete, Goto
      <4>2. pc' = [pc EXCEPT ![w] = "publish"]
        BY <1>3 DEF StoreClientAddr, Goto
      <4> QED BY <2>1, <4>1, <4>2, <1>w
    <3> QED BY <1>2, <3>1, <3>2
  <2> QED BY <2>3, <2>4
<1>4. ASSUME NEW t \in Threads, DeleteClientAddr(t), NEW a \in Addrs, clientSessions'[a] # NoKey
      PROVE  Named(clientSessions[a], a)'
  <2>1. /\ clientSessions' = [clientSessions EXCEPT ![addrOf[delCtx[t]]] = NoKey]
        /\ pc[t] = "unmap" /\ EndDelete(t)
    BY <1>4 DEF DeleteClientAddr
  <2>2. addrOf[delCtx[t]] # a /\ clientSessions'[a] = clientSessions[a]
    BY <1>4, <2>1, <1>w
  <2>3. ASSUME NEW u \in Threads, DeleteClientAddr(u) PROVE u = t
    <3>1. pc[u] = "unmap" /\ pc'[u] # "unmap"
      BY <2>3, <1>w DEF DeleteClientAddr, EndDelete, Goto
    <3> QED BY <2>1, <3>1, <1>w DEF EndDelete, Goto
  <2> QED BY <1>2, <1>4, <2>2, <2>3
<1>5. ASSUME UNCHANGED clientSessions, ~ \E t \in Threads : DeleteClientAddr(t), NEW a \in Addrs, clientSessions'[a] # NoKey
      PROVE  Named(clientSessions[a], a)'
  BY <1>2, <1>5
<1>6. ASSUME NEW a \in Addrs, clientSessions'[a] # NoKey PROVE Named(clientSessions[a], a)'
  <2>1. ASSUME NEW w \in Workers, NewContext(w) PROVE UNCHANGED clientSessions
    BY <2>1 DEF NewContext, table
  <2> QED BY <1>3, <1>4, <1>5, <1>6, <2>1, AddrKinds DEF AddrLeft
<1> QED BY <1>1, <1>6 DEF AddrInv

\* Where no configuration allows migration, an address entry names a session of
\* the table or one that is being deleted, if clients do not reuse a DCID and
\* no session is deleted while it is being stored: findSession's fallback
\* never collects entries of clients that have left.
THEOREM AddrSafe ==
  ASSUME ~ReuseDCID, Prompt, Settings \subseteq {FALSE}
  PROVE  Spec => []AddrEntriesNameSessions
<1>1. Init => Fixed /\ AddrInv
  <2> SUFFICES ASSUME Init PROVE Fixed /\ AddrInv
    OBVIOUS
  <2>1. ~allowMigration /\ (\A w \in Workers : pc[w] = "idle") /\ \A a \in Addrs : clientSessions[a] = NoKey
    BY DEF Init, Threads
  <2> QED BY <2>1 DEF Fixed, AddrInv, Creating, Reserving, Deleting
<1>2. TypeInv /\ Apart /\ PastInv /\ Fixed /\ AddrInv /\ [Next]_vars => Fixed' /\ AddrInv'
  BY FixedStep, AddrStep DEF Apart
<1>3. AddrInv => AddrEntriesNameSessions
  BY DEF AddrInv, Named, AddrEntriesNameSessions, Removed
<1> QED BY <1>1, <1>2, <1>3, TypeInvariant, ApartInvariant, RefsInvariant, PTL DEF Spec
=============================================================================
