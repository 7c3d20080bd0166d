------------------------------ MODULE Sessions ------------------------------
(***************************************************************************)
(* The session table of the relay (internal/proxy/proxy.go): the maps      *)
(* sessions, clientSessions, dcidAliases and sessionAliases, the counter   *)
(* sessionCount, and the reference counts that keep a handler chain alive  *)
(* across hot reloads.                                                     *)
(*                                                                         *)
(* Every operation on a sync.Map, every atomic operation and every         *)
(* critical section under chainRefsMu is one step; goroutines interleave   *)
(* between steps.  The goroutines are the pool's workers (handlePacket),   *)
(* the cleanup ticker (cleanupSessions), the signal goroutine (ReloadChain *)
(* and Stop), goroutines of handlers that call Context.Drop, and one       *)
(* backendToClient reader per session.                                     *)
(*                                                                         *)
(* Time is abstracted: any stored session may be found idle by a tick.     *)
(* Only packets that reach the table appear here; assembling a ClientHello *)
(* and buffering early packets are the modules Assemblers and              *)
(* PendingPackets.                                                         *)
(***************************************************************************)
EXTENDS Integers, FiniteSets

CONSTANTS
  Workers,     \* goroutines of the worker pool
  Janitor,     \* the cleanupSessions goroutine
  Signal,      \* the signal goroutine of cmd/proxy: reloads, then stops
  Droppers,    \* goroutines of handlers that call Context.Drop
  Addrs,       \* client addresses (IP:port)
  WorkerOf,    \* hashAddr: the worker that serves an address
  DCIDs,       \* connection IDs chosen by clients: the session keys
  SCIDs,       \* connection IDs chosen by servers: the aliases
  Chains,      \* handler chains built from successive configurations
  FirstChain,  \* the chain New is called with
  Limit,       \* max_parallel_connections of a chain, 0 = no rate limiter
  Settings,    \* values a reload may give allow_connection_migration
  ReuseDCID,   \* may a DCID open more than one session?
  Prompt,      \* is a session never found idle, or the oldest, while it is
               \* being stored?
  MaxCtx,      \* bound: connection attempts that reach OnConnect
  EvictAt,     \* maxSessions*9/10: eviction starts at this count
  EvictDiv,    \* eviction removes count/EvictDiv sessions (10 in the code)
  NoKey        \* no connection ID, no address

NoCtx == 0
Ctxs == 1..MaxCtx
Threads == Workers \cup {Janitor, Signal} \cup Droppers

ASSUME ThreadAssumption ==
  /\ Janitor # Signal
  /\ {Janitor, Signal} \cap (Workers \cup Droppers) = {}
  /\ Workers \cap Droppers = {}
  /\ WorkerOf \in [Addrs -> Workers]

ASSUME FiniteAssumption ==
  IsFiniteSet(Threads) /\ IsFiniteSet(DCIDs)

ASSUME ConstAssumption ==
  /\ NoKey \notin DCIDs \cup SCIDs \cup Addrs
  /\ FirstChain \in Chains
  /\ Limit \in [Chains -> Nat]
  /\ Settings \subseteq BOOLEAN
  /\ ReuseDCID \in BOOLEAN /\ Prompt \in BOOLEAN
  /\ MaxCtx \in Nat
  /\ EvictAt \in Nat
  /\ EvictDiv \in Nat \ {0}

VARIABLES
  sessions,        \* DCID -> context, NoCtx when absent
  sessionCount,    \* the atomic counter
  clientSessions,  \* client address -> DCID, NoKey when absent
  dcidAliases,     \* server SCID -> DCID, NoKey when absent
  sessionAliases,  \* DCID -> the SCIDs tracked for it
  chain,           \* the current chain (atomic pointer)
  chainRefs,       \* the counts in the chainRefs map, 0 when absent
  tracked,         \* the keys of the chainRefs map
  retiredChains,   \* replaced chains that still have references
  shutdowns,       \* how often Shutdown was called on a chain
  unbuilt,         \* configurations that no reload has loaded yet
  allowMigration,  \* allowConnectionMigration (atomic)
  nextCtx,         \* the next context to be created
  dcidOf, chainOf, \* DCID and "_chain" of a context
  addrOf,          \* the session's client address (atomic)
  reserved,        \* "_session_reserved"
  open,            \* the session has a backend socket and is not closed
  droppable,       \* contexts whose DropSession is set and not yet called
  pc, cx, old, quota, victims,  \* a worker's locals
  pktAddr, pktCid, \* the packet a worker is handling
  delKey, delCtx,  \* arguments of the deleteSession call in progress
  oldChain,        \* local of ReloadChain
  rd, rdScid       \* the backend readers and the SCID each is learning

table == <<sessions, sessionCount, clientSessions>>
aliases == <<dcidAliases, sessionAliases>>
chains == <<chain, chainRefs, tracked, retiredChains, shutdowns, unbuilt, oldChain>>
created == <<nextCtx, dcidOf, chainOf>>
contexts == <<created, addrOf, reserved, open, droppable>>
packet == <<pktAddr, pktCid>>
locals == <<cx, packet, old, quota, victims>>
deletion == <<delKey, delCtx>>
readers == <<rd, rdScid>>
vars == <<table, aliases, chains, allowMigration, contexts, pc, locals, deletion, readers>>

Stored == {d \in DCIDs : sessions[d] # NoCtx}
Goto(t, label) == pc' = [pc EXCEPT ![t] = label]

\* Labels inside deleteSession; a worker is there only while it evicts.
Deleting == {"disconnect", "remove", "uncount", "unalias", "release", "unmap"}
\* w has stored context c and still has to retain its chain and publish it.
Storing(w, c) == cx[w] = c /\ pc[w] \in {"retain", "bindClient", "publish"}
\* Sessions that a tick may find idle and an eviction may find the oldest.
Settled == {d \in Stored : Prompt => \A w \in Workers : ~Storing(w, sessions[d])}
\* Labels of the signal goroutine from Stop on.
Stopping == {"draining", "sweep", "shutRetired", "shutCurrent", "stopped"}
Labels == {"idle", "bind", "rebind", "unbindOld", "bindNew", "connect", "onConnect", "dial",
           "store", "collect", "evict", "put", "retain", "bindClient", "publish",
           "exited", "swapped", "registered", "retired"} \cup Deleting \cup Stopping

\* Type invariant of the tables, counters, chains and goroutine locals.
TypeOK ==
  /\ sessions \in [DCIDs -> Ctxs \cup {NoCtx}]
  /\ sessionCount \in Int
  /\ clientSessions \in [Addrs -> DCIDs \cup {NoKey}]
  /\ dcidAliases \in [SCIDs -> DCIDs \cup {NoKey}]
  /\ sessionAliases \in [DCIDs -> SUBSET SCIDs]
  /\ chain \in Chains
  /\ chainRefs \in [Chains -> Nat]
  /\ tracked \in SUBSET Chains
  /\ retiredChains \in SUBSET Chains
  /\ shutdowns \in [Chains -> Nat]
  /\ unbuilt \in SUBSET Chains
  /\ allowMigration \in BOOLEAN
  /\ dcidOf \in [Ctxs -> DCIDs \cup {NoKey}]
  /\ chainOf \in [Ctxs -> Chains]
  /\ addrOf \in [Ctxs -> Addrs \cup {NoKey}]
  /\ reserved \in [Ctxs -> BOOLEAN]
  /\ open \in [Ctxs -> BOOLEAN]
  /\ nextCtx \in 1..(MaxCtx + 1)
  /\ droppable \in SUBSET Ctxs
  /\ pc \in [Threads -> Labels]
  /\ cx \in [Workers -> Ctxs \cup {NoCtx}]
  /\ pktAddr \in [Workers -> Addrs \cup {NoKey}]
  /\ pktCid \in [Workers -> DCIDs \cup SCIDs \cup {NoKey}]
  /\ old \in [Workers -> Addrs \cup {NoKey}]
  /\ quota \in [Workers -> Nat]
  /\ victims \in [Workers -> SUBSET DCIDs]
  /\ delKey \in [Threads -> DCIDs \cup {NoKey}]
  /\ delCtx \in [Threads -> Ctxs \cup {NoCtx}]
  /\ oldChain \in Chains
  /\ rd \in [Ctxs -> {"off", "read", "check", "store", "track", "more"}]
  /\ rdScid \in [Ctxs -> SCIDs \cup {NoKey}]

-----------------------------------------------------------------------------
(* New: an empty table and one live chain. *)
Init ==
  /\ sessions = [d \in DCIDs |-> NoCtx]
  /\ sessionCount = 0
  /\ clientSessions = [a \in Addrs |-> NoKey]
  /\ dcidAliases = [s \in SCIDs |-> NoKey]
  /\ sessionAliases = [d \in DCIDs |-> {}]
  /\ chain = FirstChain
  /\ chainRefs = [c \in Chains |-> 0]
  /\ tracked = {FirstChain}
  /\ retiredChains = {}
  /\ shutdowns = [c \in Chains |-> 0]
  /\ unbuilt = Chains \ {FirstChain}
  /\ allowMigration \in Settings
  /\ dcidOf = [c \in Ctxs |-> NoKey]
  /\ chainOf = [c \in Ctxs |-> FirstChain]
  /\ addrOf = [c \in Ctxs |-> NoKey]
  /\ reserved = [c \in Ctxs |-> FALSE]
  /\ open = [c \in Ctxs |-> FALSE]
  /\ nextCtx = 1
  /\ droppable = {}
  /\ pc = [t \in Threads |-> "idle"]
  /\ cx = [w \in Workers |-> NoCtx]
  /\ pktAddr = [w \in Workers |-> NoKey]
  /\ pktCid = [w \in Workers |-> NoKey]
  /\ old = [w \in Workers |-> NoKey]
  /\ quota = [w \in Workers |-> 0]
  /\ victims = [w \in Workers |-> {}]
  /\ delKey = [t \in Threads |-> NoKey]
  /\ delCtx = [t \in Threads |-> NoCtx]
  /\ oldChain = FirstChain
  /\ rd = [c \in Ctxs |-> "off"]
  /\ rdScid = [c \in Ctxs |-> NoKey]

-----------------------------------------------------------------------------
(* handlePacket, first half: look the session up, check the address.       *)

\* findSession: by DCID, then by alias, then by client address.  The loads
\* happen back to back in one goroutine and are taken as one step.
FindSession(cid, a) ==
  LET byDCID == IF cid \in DCIDs THEN sessions[cid] ELSE NoCtx
      Resolve(d) == IF d = NoKey THEN NoCtx ELSE sessions[d]
      byAlias == IF cid \in SCIDs THEN Resolve(dcidAliases[cid]) ELSE NoCtx
  IN  IF byDCID # NoCtx THEN byDCID
      ELSE IF byAlias # NoCtx THEN byAlias ELSE Resolve(clientSessions[a])

\* A packet is taken from the queue of a's worker.  cid = NoKey stands for a
\* connection ID the relay has never seen (NEW_CONNECTION_ID).
ReceivePacket(w, a, cid) ==
  /\ pc[w] = "idle"
  /\ WorkerOf[a] = w
  /\ FindSession(cid, a) # NoCtx
  /\ pktAddr' = [pktAddr EXCEPT ![w] = a]
  /\ pktCid' = [pktCid EXCEPT ![w] = cid]
  /\ cx' = [cx EXCEPT ![w] = FindSession(cid, a)]
  /\ Goto(w, "bind")
  /\ UNCHANGED <<table, aliases, chains, allowMigration, contexts, old, quota, victims,
                 deletion, readers>>

\* No session: an Initial whose ClientHello is complete opens one.  (Other
\* packets are buffered or discarded and leave the table alone.)
ReceiveInitial(w, a, d) ==
  /\ pc[w] = "idle"
  /\ WorkerOf[a] = w
  /\ FindSession(d, a) = NoCtx
  /\ nextCtx + Cardinality({v \in Workers : pc[v] = "connect"}) <= MaxCtx
  /\ ReuseDCID \/ \A c \in 1..(nextCtx - 1) : dcidOf[c] # d
  /\ ReuseDCID \/ \A v \in Workers : pktCid[v] # d
  /\ pktAddr' = [pktAddr EXCEPT ![w] = a]
  /\ pktCid' = [pktCid EXCEPT ![w] = d]
  /\ Goto(w, "connect")
  /\ UNCHANGED <<table, aliases, chains, allowMigration, contexts, cx, old, quota, victims,
                 deletion, readers>>

\* The worker is done with its packet.
Finish(w) ==
  /\ Goto(w, "idle")
  /\ cx' = [cx EXCEPT ![w] = NoCtx]
  /\ pktAddr' = [pktAddr EXCEPT ![w] = NoKey]
  /\ pktCid' = [pktCid EXCEPT ![w] = NoKey]
  /\ old' = [old EXCEPT ![w] = NoKey]
  /\ UNCHANGED <<quota, victims>>

\* Same address, or migration disabled: forward or drop the packet.
CheckAddr(w) ==
  /\ pc[w] = "bind"
  /\ addrOf[cx[w]] = pktAddr[w] \/ ~allowMigration
  /\ Finish(w)
  /\ UNCHANGED <<table, aliases, chains, allowMigration, contexts, deletion, readers>>

\* A new address and migration allowed: remember the old address.
BeginMigration(w) ==
  /\ pc[w] = "bind"
  /\ addrOf[cx[w]] # pktAddr[w]
  /\ allowMigration
  /\ old' = [old EXCEPT ![w] = addrOf[cx[w]]]
  /\ Goto(w, "rebind")
  /\ UNCHANGED <<table, aliases, chains, allowMigration, contexts, cx, packet, quota, victims,
                 deletion, readers>>

SetClientAddr(w) ==
  /\ pc[w] = "rebind"
  /\ addrOf' = [addrOf EXCEPT ![cx[w]] = pktAddr[w]]
  /\ Goto(w, "unbindOld")
  /\ UNCHANGED <<table, aliases, chains, allowMigration, created, reserved, open, droppable, locals,
                 deletion, readers>>

DeleteOldAddr(w) ==
  /\ pc[w] = "unbindOld"
  /\ clientSessions' = [clientSessions EXCEPT ![old[w]] = NoKey]
  /\ Goto(w, "bindNew")
  /\ UNCHANGED <<sessions, sessionCount, aliases, chains, allowMigration, contexts, locals,
                 deletion, readers>>

StoreNewAddr(w) ==
  /\ pc[w] = "bindNew"
  /\ clientSessions' = [clientSessions EXCEPT ![pktAddr[w]] = dcidOf[cx[w]]]
  /\ Finish(w)
  /\ UNCHANGED <<sessions, sessionCount, aliases, chains, allowMigration, contexts,
                 deletion, readers>>

-----------------------------------------------------------------------------
(* handlePacket, second half: create the context, run OnConnect, store.    *)

\* The current chain is loaded once and kept in the context ("_chain").
NewContext(w) ==
  /\ pc[w] = "connect"
  /\ nextCtx <= MaxCtx
  /\ dcidOf' = [dcidOf EXCEPT ![nextCtx] = pktCid[w]]
  /\ addrOf' = [addrOf EXCEPT ![nextCtx] = pktAddr[w]]
  /\ chainOf' = [chainOf EXCEPT ![nextCtx] = chain]
  /\ cx' = [cx EXCEPT ![w] = nextCtx]
  /\ nextCtx' = nextCtx + 1
  /\ Goto(w, "onConnect")
  /\ UNCHANGED <<table, aliases, chains, allowMigration, reserved, open, droppable, packet, old, quota,
                 victims, deletion, readers>>

LimitOf(w) == Limit[chainOf[cx[w]]]

\* tryReserveSessionSlot: the compare-and-swap loop takes effect in one step.
TryReserveSessionSlot(w) ==
  /\ pc[w] = "onConnect"
  /\ LimitOf(w) > 0
  /\ sessionCount < LimitOf(w)
  /\ sessionCount' = sessionCount + 1
  /\ reserved' = [reserved EXCEPT ![cx[w]] = TRUE]
  /\ Goto(w, "dial")
  /\ UNCHANGED <<sessions, clientSessions, aliases, chains, allowMigration, created, addrOf, open,
                 droppable, locals, deletion, readers>>

\* The limiter drops the connection; nothing was reserved.
LimitReached(w) ==
  /\ pc[w] = "onConnect"
  /\ LimitOf(w) > 0
  /\ sessionCount >= LimitOf(w)
  /\ Finish(w)
  /\ UNCHANGED <<table, aliases, chains, allowMigration, contexts, deletion, readers>>

\* A chain without a rate limiter.
NoLimiter(w) ==
  /\ pc[w] = "onConnect"
  /\ LimitOf(w) = 0
  /\ Goto(w, "dial")
  /\ UNCHANGED <<table, aliases, chains, allowMigration, contexts, locals, deletion, readers>>

\* ForwarderHandler.OnConnect opens the backend socket and starts the reader.
Dial(w) ==
  /\ pc[w] = "dial"
  /\ open' = [open EXCEPT ![cx[w]] = TRUE]
  /\ rd' = [rd EXCEPT ![cx[w]] = "read"]
  /\ Goto(w, "store")
  /\ UNCHANGED <<table, aliases, chains, allowMigration, created, addrOf, reserved, droppable,
                 locals, deletion, rdScid>>

\* A later handler drops the connection: releaseReservedSessionSlot.
ReleaseReservedSessionSlot(w) ==
  /\ pc[w] = "dial"
  /\ sessionCount' = IF reserved[cx[w]] THEN sessionCount - 1 ELSE sessionCount
  /\ reserved' = [reserved EXCEPT ![cx[w]] = FALSE]
  /\ Finish(w)
  /\ UNCHANGED <<sessions, clientSessions, aliases, chains, allowMigration, created, addrOf, open,
                 droppable, deletion, readers>>

\* Mutant: counts a session that has a reserved slot once more.
StoreCountsAgain(w) ==
  /\ pc[w] = "store"
  /\ sessionCount' = sessionCount + 1
  /\ Goto(w, "put")
  /\ UNCHANGED <<sessions, clientSessions, aliases, chains, allowMigration, contexts, locals,
                 deletion, readers>>

\* storeSession, the counter: a reserved slot is already counted.
StoreSession(w) ==
  LET count == IF reserved[cx[w]] THEN sessionCount ELSE sessionCount + 1
      n == count \div EvictDiv
  IN  /\ pc[w] = "store"
      /\ sessionCount' = count
      /\ \/ /\ count >= EvictAt /\ n > 0
            /\ quota' = [quota EXCEPT ![w] = n]
            /\ Goto(w, "collect")
         \/ /\ ~(count >= EvictAt /\ n > 0)
            /\ quota' = quota
            /\ Goto(w, "put")
      /\ UNCHANGED <<sessions, clientSessions, aliases, chains, allowMigration, contexts,
                     cx, packet, old, victims, deletion, readers>>

\* cleanupOldestSessions, first loop: the n oldest sessions, or all if fewer.
CollectOldest(w) ==
  /\ pc[w] = "collect"
  /\ \E S \in SUBSET Settled :
       /\ Cardinality(S) = quota[w] \/ (S = Settled /\ Cardinality(S) < quota[w])
       /\ victims' = [victims EXCEPT ![w] = S]
  /\ quota' = [quota EXCEPT ![w] = 0]
  /\ Goto(w, "evict")
  /\ UNCHANGED <<table, aliases, chains, allowMigration, contexts, cx, packet, old,
                 deletion, readers>>

\* cleanupOldestSessions, second loop: look each victim up again.
EvictNext(w) ==
  /\ pc[w] = "evict"
  /\ \E d \in victims[w] :
       /\ victims' = [victims EXCEPT ![w] = @ \ {d}]
       /\ \/ /\ sessions[d] # NoCtx
             /\ delKey' = [delKey EXCEPT ![w] = d]
             /\ delCtx' = [delCtx EXCEPT ![w] = sessions[d]]
             /\ Goto(w, "disconnect")
          \/ /\ sessions[d] = NoCtx
             /\ UNCHANGED <<deletion, pc>>
  /\ UNCHANGED <<table, aliases, chains, allowMigration, contexts, cx, packet, old, quota, readers>>

EvictDone(w) ==
  /\ pc[w] = "evict"
  /\ victims[w] = {}
  /\ Goto(w, "put")
  /\ UNCHANGED <<table, aliases, chains, allowMigration, contexts, locals, deletion, readers>>

\* storeSession, the map: an unconditional Store.
PutSession(w) ==
  /\ pc[w] = "put"
  /\ sessions' = [sessions EXCEPT ![pktCid[w]] = cx[w]]
  /\ Goto(w, "retain")
  /\ UNCHANGED <<sessionCount, clientSessions, aliases, chains, allowMigration, contexts, locals,
                 deletion, readers>>

\* Mutant: retains the chain that is current now, not the session's.
RetainCurrent(w) ==
  /\ pc[w] = "retain"
  /\ chainRefs' = [chainRefs EXCEPT ![chain] = @ + 1]
  /\ tracked' = tracked \cup {chain}
  /\ Goto(w, "bindClient")
  /\ UNCHANGED <<table, aliases, chain, retiredChains, shutdowns, unbuilt, oldChain,
                 allowMigration, contexts, locals, deletion, readers>>

RetainChain(w) ==
  LET c == chainOf[cx[w]]
  IN  /\ pc[w] = "retain"
      /\ chainRefs' = [chainRefs EXCEPT ![c] = @ + 1]
      /\ tracked' = tracked \cup {c}
      /\ Goto(w, "bindClient")
      /\ UNCHANGED <<table, aliases, chain, retiredChains, shutdowns, unbuilt, oldChain,
                     allowMigration, contexts, locals, deletion, readers>>

StoreClientAddr(w) ==
  /\ pc[w] = "bindClient"
  /\ clientSessions' = [clientSessions EXCEPT ![pktAddr[w]] = pktCid[w]]
  /\ Goto(w, "publish")
  /\ UNCHANGED <<sessions, sessionCount, aliases, chains, allowMigration, contexts, locals,
                 deletion, readers>>

\* The last assignment: from now on handlers may drop the session.
SetDropSession(w) ==
  /\ pc[w] = "publish"
  /\ droppable' = droppable \cup {cx[w]}
  /\ Finish(w)
  /\ UNCHANGED <<table, aliases, chains, allowMigration, created, addrOf, reserved, open, deletion, readers>>

-----------------------------------------------------------------------------
(* OnDisconnect followed by deleteSession(key, ctx), from any goroutine.   *)

BeginDelete(t, d, c) ==
  /\ delKey' = [delKey EXCEPT ![t] = d]
  /\ delCtx' = [delCtx EXCEPT ![t] = c]
  /\ Goto(t, "disconnect")

\* Where a goroutine continues after deleteSession.
EndDelete(t) ==
  /\ delKey' = [delKey EXCEPT ![t] = NoKey]
  /\ delCtx' = [delCtx EXCEPT ![t] = NoCtx]
  /\ Goto(t, IF t \in Workers THEN "evict" ELSE IF t = Signal THEN "sweep" ELSE "idle")

\* cleanupSessions visits a session that has been idle for too long.  A scan
\* that was under way when Stop cancelled the context runs to its end.
CleanupIdle ==
  /\ pc[Janitor] = "idle"
  /\ \E d \in Settled : BeginDelete(Janitor, d, sessions[d])
  /\ UNCHANGED <<table, aliases, chains, allowMigration, contexts, locals, readers>>

\* Context.Drop: at most once per context.
Drop(t) ==
  /\ t \in Droppers
  /\ pc[t] = "idle"
  /\ \E c \in droppable : /\ droppable' = droppable \ {c}
                          /\ BeginDelete(t, dcidOf[c], c)
  /\ UNCHANGED <<table, aliases, chains, allowMigration, created, addrOf, reserved, open, locals, readers>>

\* Mutant: the session is deleted without OnDisconnect.
SkipDisconnect(t) ==
  /\ pc[t] = "disconnect"
  /\ Goto(t, "remove")
  /\ UNCHANGED <<table, aliases, chains, allowMigration, contexts, locals, deletion, readers>>

\* The chain's OnDisconnect closes the backend socket once.
OnDisconnect(t) ==
  /\ pc[t] = "disconnect"
  /\ open' = [open EXCEPT ![delCtx[t]] = FALSE]
  /\ Goto(t, "remove")
  /\ UNCHANGED <<table, aliases, chains, allowMigration, created, addrOf, reserved, droppable,
                 locals, deletion, readers>>

\* sessions.LoadAndDelete(key): by key, whichever context is stored there.
DeleteSession(t) ==
  /\ pc[t] = "remove"
  /\ sessions[delKey[t]] # NoCtx
  /\ sessions' = [sessions EXCEPT ![delKey[t]] = NoCtx]
  /\ Goto(t, "uncount")
  /\ UNCHANGED <<sessionCount, clientSessions, aliases, chains, allowMigration, contexts, locals,
                 deletion, readers>>

\* Mutant: the counter goes down although another goroutine deleted the key.
UncountAnyway(t) ==
  /\ pc[t] = "remove"
  /\ sessions[delKey[t]] = NoCtx
  /\ sessionCount' = sessionCount - 1
  /\ EndDelete(t)
  /\ UNCHANGED <<sessions, clientSessions, aliases, chains, allowMigration, contexts, locals,
                 readers>>

\* Mutant: waits for the key to be there.
RetryDelete(t) ==
  /\ pc[t] = "remove"
  /\ sessions[delKey[t]] = NoCtx
  /\ UNCHANGED vars

AlreadyDeleted(t) ==
  /\ pc[t] = "remove"
  /\ sessions[delKey[t]] = NoCtx
  /\ EndDelete(t)
  /\ UNCHANGED <<table, aliases, chains, allowMigration, contexts, locals, readers>>

UncountSession(t) ==
  /\ pc[t] = "uncount"
  /\ sessionCount' = sessionCount - 1
  /\ Goto(t, "unalias")
  /\ UNCHANGED <<sessions, clientSessions, aliases, chains, allowMigration, contexts, locals,
                 deletion, readers>>

\* Mutant: deletes every tracked alias, whichever session it leads to.
DeleteAliasesBlindly(t) ==
  /\ pc[t] = "unalias"
  /\ dcidAliases' = [s \in SCIDs |-> IF s \in sessionAliases[delKey[t]] THEN NoKey
                                     ELSE dcidAliases[s]]
  /\ sessionAliases' = [sessionAliases EXCEPT ![delKey[t]] = {}]
  /\ Goto(t, "release")
  /\ UNCHANGED <<table, chains, allowMigration, contexts, locals, deletion, readers>>

\* Mutant: drops the alias set and forgets the aliases.
DeleteAliasSetOnly(t) ==
  /\ pc[t] = "unalias"
  /\ sessionAliases' = [sessionAliases EXCEPT ![delKey[t]] = {}]
  /\ Goto(t, "release")
  /\ UNCHANGED <<table, dcidAliases, chains, allowMigration, contexts, locals, deletion, readers>>

\* deleteSessionAliases: only aliases that still map to this key.
DeleteSessionAliases(t) ==
  LET d == delKey[t]
  IN  /\ pc[t] = "unalias"
      /\ dcidAliases' = [s \in SCIDs |-> IF s \in sessionAliases[d] /\ dcidAliases[s] = d
                                         THEN NoKey ELSE dcidAliases[s]]
      /\ sessionAliases' = [sessionAliases EXCEPT ![d] = {}]
      /\ Goto(t, "release")
      /\ UNCHANGED <<table, chains, allowMigration, contexts, locals, deletion, readers>>

\* Mutant: no check that the count is positive.
ReleaseUnchecked(t) ==
  /\ pc[t] = "release"
  /\ chainRefs' = [chainRefs EXCEPT ![chainOf[delCtx[t]]] = @ - 1]
  /\ Goto(t, "unmap")
  /\ UNCHANGED <<table, aliases, chain, tracked, retiredChains, shutdowns, unbuilt, oldChain,
                 allowMigration, contexts, locals, deletion, readers>>

\* Mutant: shuts the chain down and leaves it in retiredChains.
ReleaseKeepsRetired(t) ==
  LET c == chainOf[delCtx[t]]
      left == IF chainRefs[c] > 0 THEN chainRefs[c] - 1 ELSE 0
      last == c \in tracked /\ left = 0 /\ c \in retiredChains
  IN  /\ pc[t] = "release"
      /\ chainRefs' = IF c \in tracked THEN [chainRefs EXCEPT ![c] = left] ELSE chainRefs
      /\ shutdowns' = IF last THEN [shutdowns EXCEPT ![c] = @ + 1] ELSE shutdowns
      /\ Goto(t, "unmap")
      /\ UNCHANGED <<table, aliases, chain, tracked, retiredChains, unbuilt, oldChain,
                     allowMigration, contexts, locals, deletion, readers>>

\* releaseChain: the last reference to a retired chain shuts it down.
ReleaseChain(t) ==
  LET c == chainOf[delCtx[t]]
      left == IF chainRefs[c] > 0 THEN chainRefs[c] - 1 ELSE 0
      last == c \in tracked /\ left = 0 /\ c \in retiredChains
  IN  /\ pc[t] = "release"
      /\ chainRefs' = IF c \in tracked THEN [chainRefs EXCEPT ![c] = left] ELSE chainRefs
      /\ tracked' = IF last THEN tracked \ {c} ELSE tracked
      /\ retiredChains' = IF last THEN retiredChains \ {c} ELSE retiredChains
      /\ shutdowns' = IF last THEN [shutdowns EXCEPT ![c] = @ + 1] ELSE shutdowns
      /\ Goto(t, "unmap")
      /\ UNCHANGED <<table, aliases, chain, unbuilt, oldChain, allowMigration, contexts, locals,
                     deletion, readers>>

\* Mutant: the address entry is left behind.
KeepClientAddr(t) ==
  /\ pc[t] = "unmap"
  /\ EndDelete(t)
  /\ UNCHANGED <<table, aliases, chains, allowMigration, contexts, locals, readers>>

\* clientSessions.Delete with the context's current address.
DeleteClientAddr(t) ==
  /\ pc[t] = "unmap"
  /\ clientSessions' = [clientSessions EXCEPT ![addrOf[delCtx[t]]] = NoKey]
  /\ EndDelete(t)
  /\ UNCHANGED <<sessions, sessionCount, aliases, chains, allowMigration, contexts, locals,
                 readers>>

-----------------------------------------------------------------------------
(* The signal goroutine: SIGHUP reloads, SIGTERM stops.                    *)

\* ReloadChain: swap the pointer ...
SwapChain ==
  /\ pc[Signal] = "idle"
  /\ \E c \in unbuilt : chain' = c /\ unbuilt' = unbuilt \ {c}
  /\ oldChain' = chain
  /\ Goto(Signal, "swapped")
  /\ UNCHANGED <<table, aliases, chainRefs, tracked, retiredChains, shutdowns, allowMigration,
                 contexts, locals, deletion, readers>>

\* ... make sure the new chain has an entry ...
RegisterChain ==
  /\ pc[Signal] = "swapped"
  /\ tracked' = tracked \cup {chain}
  /\ Goto(Signal, "registered")
  /\ UNCHANGED <<table, aliases, chain, chainRefs, retiredChains, shutdowns, unbuilt, oldChain,
                 allowMigration, contexts, locals, deletion, readers>>

\* Mutant: the replaced chain is shut down at once.
RetireNow ==
  /\ pc[Signal] = "registered"
  /\ tracked' = tracked \ {oldChain}
  /\ shutdowns' = [shutdowns EXCEPT ![oldChain] = @ + 1]
  /\ Goto(Signal, "retired")
  /\ UNCHANGED <<table, aliases, chain, chainRefs, retiredChains, unbuilt, oldChain,
                 allowMigration, contexts, locals, deletion, readers>>

\* ... and retire the old one, at once if nothing refers to it.
RetireChain ==
  /\ pc[Signal] = "registered"
  /\ \/ /\ chainRefs[oldChain] = 0
        /\ tracked' = tracked \ {oldChain}
        /\ shutdowns' = [shutdowns EXCEPT ![oldChain] = @ + 1]
        /\ UNCHANGED retiredChains
     \/ /\ chainRefs[oldChain] > 0
        /\ retiredChains' = retiredChains \cup {oldChain}
        /\ UNCHANGED <<tracked, shutdowns>>
  /\ Goto(Signal, "retired")
  /\ UNCHANGED <<table, aliases, chain, chainRefs, unbuilt, oldChain, allowMigration, contexts,
                 locals, deletion, readers>>

\* SetAllowConnectionMigration with the new configuration's value.
SetAllowConnectionMigration ==
  /\ pc[Signal] = "retired"
  /\ allowMigration' \in Settings
  /\ Goto(Signal, "idle")
  /\ UNCHANGED <<table, aliases, chains, contexts, locals, deletion, readers>>

\* Stop: cancel, close the listener, close the queues ...
BeginStop ==
  /\ pc[Signal] = "idle"
  /\ Goto(Signal, "draining")
  /\ UNCHANGED <<table, aliases, chains, allowMigration, contexts, locals, deletion, readers>>

\* ... each worker handles what is left in its queue and exits ...
WorkerExit(w) ==
  /\ pc[w] = "idle"
  /\ pc[Signal] = "draining"
  /\ Goto(w, "exited")
  /\ UNCHANGED <<table, aliases, chains, allowMigration, contexts, locals, deletion, readers>>

\* Mutant: Stop does not wait for the workers.
StopWithoutWait ==
  /\ pc[Signal] = "draining"
  /\ Goto(Signal, "sweep")
  /\ UNCHANGED <<table, aliases, chains, allowMigration, contexts, locals, deletion, readers>>

\* ... Stop waits for all of them ...
Drained ==
  /\ pc[Signal] = "draining"
  /\ \A w \in Workers : pc[w] = "exited"
  /\ Goto(Signal, "sweep")
  /\ UNCHANGED <<table, aliases, chains, allowMigration, contexts, locals, deletion, readers>>

\* ... delete the remaining sessions ...
SweepNext ==
  /\ pc[Signal] = "sweep"
  /\ \E d \in Stored : BeginDelete(Signal, d, sessions[d])
  /\ UNCHANGED <<table, aliases, chains, allowMigration, contexts, locals, readers>>

SweepDone ==
  /\ pc[Signal] = "sweep"
  /\ Stored = {}
  /\ Goto(Signal, "shutRetired")
  /\ UNCHANGED <<table, aliases, chains, allowMigration, contexts, locals, deletion, readers>>

\* ... and shut down the retired chains and the current one.
ShutdownRetiredChains ==
  /\ pc[Signal] = "shutRetired"
  /\ shutdowns' = [c \in Chains |-> IF c \in retiredChains THEN shutdowns[c] + 1 ELSE shutdowns[c]]
  /\ chainRefs' = [c \in Chains |-> IF c \in retiredChains THEN 0 ELSE chainRefs[c]]
  /\ tracked' = tracked \ retiredChains
  /\ retiredChains' = {}
  /\ Goto(Signal, "shutCurrent")
  /\ UNCHANGED <<table, aliases, chain, unbuilt, oldChain, allowMigration, contexts, locals,
                 deletion, readers>>

ShutdownCurrent ==
  /\ pc[Signal] = "shutCurrent"
  /\ shutdowns' = [shutdowns EXCEPT ![chain] = @ + 1]
  /\ Goto(Signal, "stopped")
  /\ UNCHANGED <<table, aliases, chain, chainRefs, tracked, retiredChains, unbuilt, oldChain,
                 allowMigration, contexts, locals, deletion, readers>>

-----------------------------------------------------------------------------
(* backendToClient calls learnServerSCID for long-header datagrams; each    *)
(* coalesced packet of the datagram contributes one SCID.                   *)

\* A SCID to learn: the first of a datagram that arrived while the session
\* was not closed, or the next of a datagram already accepted.
ServerPacket(c, s) ==
  /\ \/ rd[c] = "read" /\ open[c]
     \/ rd[c] = "more"
  /\ s # dcidOf[c]
  /\ rd' = [rd EXCEPT ![c] = "check"]
  /\ rdScid' = [rdScid EXCEPT ![c] = s]
  /\ UNCHANGED <<table, aliases, chains, allowMigration, contexts, pc, locals, deletion>>

DatagramDone(c) ==
  /\ rd[c] = "more"
  /\ rd' = [rd EXCEPT ![c] = "read"]
  /\ rdScid' = [rdScid EXCEPT ![c] = NoKey]
  /\ UNCHANGED <<table, aliases, chains, allowMigration, contexts, pc, locals, deletion>>

\* An alias that exists already is kept, whichever session it leads to.
LearnServerSCID(c) ==
  /\ rd[c] = "check"
  /\ rd' = [rd EXCEPT ![c] = IF dcidAliases[rdScid[c]] = NoKey THEN "store" ELSE "more"]
  /\ UNCHANGED <<table, aliases, chains, allowMigration, contexts, pc, locals, deletion, rdScid>>

StoreAlias(c) ==
  /\ rd[c] = "store"
  /\ dcidAliases' = [dcidAliases EXCEPT ![rdScid[c]] = dcidOf[c]]
  /\ rd' = [rd EXCEPT ![c] = "track"]
  /\ UNCHANGED <<table, sessionAliases, chains, allowMigration, contexts, pc, locals, deletion,
                 rdScid>>

TrackSessionAlias(c) ==
  /\ rd[c] = "track"
  /\ sessionAliases' = [sessionAliases EXCEPT ![dcidOf[c]] = @ \cup {rdScid[c]}]
  /\ rd' = [rd EXCEPT ![c] = "more"]
  /\ UNCHANGED <<table, dcidAliases, chains, allowMigration, contexts, pc, locals, deletion,
                 rdScid>>

-----------------------------------------------------------------------------
\* What a worker does on its own once it has a packet.
WorkerStep(w) ==
  \/ CheckAddr(w) \/ BeginMigration(w) \/ SetClientAddr(w) \/ DeleteOldAddr(w) \/ StoreNewAddr(w)
  \/ NewContext(w) \/ TryReserveSessionSlot(w) \/ LimitReached(w) \/ NoLimiter(w) \/ Dial(w)
  \/ ReleaseReservedSessionSlot(w) \/ StoreSession(w) \/ CollectOldest(w) \/ EvictNext(w)
  \/ EvictDone(w) \/ PutSession(w) \/ RetainChain(w) \/ StoreClientAddr(w) \/ SetDropSession(w)

DeleteStep(t) ==
  \/ OnDisconnect(t) \/ DeleteSession(t) \/ AlreadyDeleted(t) \/ UncountSession(t)
  \/ DeleteSessionAliases(t) \/ ReleaseChain(t) \/ DeleteClientAddr(t)

StopStep ==
  \/ Drained \/ SweepNext \/ SweepDone \/ ShutdownRetiredChains \/ ShutdownCurrent

ReloadStep ==
  \/ SwapChain \/ RegisterChain \/ RetireChain \/ SetAllowConnectionMigration

ReaderStep(c) ==
  \/ \E s \in SCIDs : ServerPacket(c, s)
  \/ DatagramDone(c) \/ LearnServerSCID(c) \/ StoreAlias(c) \/ TrackSessionAlias(c)

PacketStep(w) ==
  \E a \in Addrs : \/ \E cid \in DCIDs \cup SCIDs \cup {NoKey} : ReceivePacket(w, a, cid)
                   \/ \E d \in DCIDs : ReceiveInitial(w, a, d)

Next ==
  \/ \E w \in Workers : PacketStep(w) \/ WorkerStep(w) \/ WorkerExit(w)
  \/ \E t \in Threads : DeleteStep(t)
  \/ CleanupIdle
  \/ \E t \in Droppers : Drop(t)
  \/ ReloadStep \/ BeginStop \/ StopStep
  \/ \E c \in Ctxs : ReaderStep(c)

Spec == Init /\ [][Next]_vars

\* A worker and the signal goroutine keep running once they have something to
\* do; packets, ticks, signals, backend traffic and the goroutines that delete
\* sessions under Stop are not promised.  A closed queue holds finitely many
\* packets: a worker that comes back to it again and again finds it empty at
\* last (strong fairness of WorkerExit).
Fairness ==
  /\ \A w \in Workers : SF_vars(WorkerExit(w)) /\ WF_vars(WorkerStep(w) \/ DeleteStep(w))
  /\ WF_vars(StopStep \/ DeleteStep(Signal))

FairSpec == Spec /\ Fairness

-----------------------------------------------------------------------------
(* The counter.                                                            *)

\* Workers whose session is counted and not yet in the map.
SlotHolders ==
  {w \in Workers : \/ pc[w] \in {"dial", "store"} /\ reserved[cx[w]]
                   \/ pc[w] \in {"collect", "evict", "put"} \cup Deleting}
\* Goroutines that removed a session and have not yet uncounted it.
Debtors == {t \in Threads : pc[t] = "uncount"}

\* sessionCount never falls below what it has to account for: the sessions in
\* the map, the slots reserved or added ahead of Store, and the removed
\* sessions whose Add(-1) is still to come.  So the limiter never admits a
\* connection on the strength of a slot that is still in use.
SlotAccounting ==
  sessionCount >= Cardinality(Stored) + Cardinality(SlotHolders) + Cardinality(Debtors)

\* When every chain has a global rate limit, reservations and eviction
\* together never let more sessions into the map than the largest limit.
LimitRespected ==
  (\A c \in Chains : Limit[c] > 0) =>
     \E c \in Chains : sessionCount <= Limit[c] /\ Cardinality(Stored) <= Limit[c]

\* Every goroutine is between operations.
Quiet ==
  /\ \A t \in Threads : pc[t] \in {"idle", "exited", "stopped"}
  /\ \A c \in Ctxs : rd[c] \in {"off", "read"}

\* Whenever nothing is in progress, SessionCount() is the number of sessions.
CountMatchesTable == Quiet => sessionCount = Cardinality(Stored)

-----------------------------------------------------------------------------
(* Handler chains.                                                         *)

\* A session whose storing worker has retained its chain.
Retained(d) == d \in Stored /\ \A w \in Workers : ~(cx[w] = sessions[d] /\ pc[w] = "retain")

\* shutdownChain is reached by releaseChain, retireChain, shutdownRetiredChains
\* and Stop, in any order: no chain is shut down twice, and the chain that
\* serves new connections is not shut down before Stop reaches it.
ShutdownOnce ==
  /\ \A c \in Chains : shutdowns[c] <= 1
  /\ pc[Signal] # "stopped" => shutdowns[chain] = 0

\* A chain leaves retiredChains with its last reference: releaseChain never
\* strands a retired chain that nobody refers to.
RetiredHaveRefs == \A c \in retiredChains : c \in tracked /\ chainRefs[c] > 0

\* A reload or the end of another session never shuts down the chain of a
\* session that holds a reference to it ("existing sessions continue").
ReloadKeepsRetained ==
  [][\A c \in Chains : shutdowns'[c] # shutdowns[c] =>
       ~ \E d \in Stored : Retained(d) /\ chainOf[sessions[d]] = c]_vars

\* With nothing in progress, the references of a chain are its sessions; at any
\* time a retired chain has some.
RefsMatchSessions ==
  /\ RetiredHaveRefs
  /\ Quiet /\ pc[Signal] = "idle" =>
       \A c \in Chains : chainRefs[c] = Cardinality({d \in Stored : chainOf[sessions[d]] = c})

\* When Stop has returned, no session is left and every chain that was ever
\* installed has been shut down, the retired ones too.
StoppedClean ==
  pc[Signal] = "stopped" => Stored = {} /\ \A c \in Chains \ unbuilt : shutdowns[c] = 1

\* The handler chain of a session in the table has not been shut down.
SessionOnLiveChain ==
  pc[Signal] # "stopped" => \A d \in Stored : shutdowns[chainOf[sessions[d]]] = 0

-----------------------------------------------------------------------------
(* Lookup tables and sockets.                                              *)

\* An open backend socket belongs to a session in the table or to a
\* worker that is about to store it: nothing else would ever close it.
NoBackendLeak ==
  \A c \in Ctxs : open[c] =>
    \/ dcidOf[c] \in Stored /\ sessions[dcidOf[c]] = c
    \/ \E w \in Workers : cx[w] = c /\ pc[w] \in {"store", "collect", "evict", "put"} \cup Deleting

\* Every alias is in the alias set of the session it leads to, where
\* deleteSessionAliases finds it, or its reader is about to put it there.
AliasesTracked ==
  \A s \in SCIDs : dcidAliases[s] # NoKey =>
    \/ s \in sessionAliases[dcidAliases[s]]
    \/ \E c \in Ctxs : rd[c] = "track" /\ rdScid[c] = s /\ dcidOf[c] = dcidAliases[s]

\* An alias is removed only when the session it leads to has left the table:
\* the end of one session does not cut off another one's packets, also when
\* both learned the same server SCID.
AliasEndsWithSession ==
  [][\A s \in SCIDs : dcidAliases[s] # NoKey /\ dcidAliases'[s] = NoKey =>
       sessions[dcidAliases[s]] = NoCtx]_vars

\* Without migration, an address entry outlives its session only while that
\* session's deleteSession is on its way: the fallback of findSession does not
\* collect entries of clients that have left.
AddrEntriesNameSessions ==
  \A a \in Addrs :
    \/ clientSessions[a] \in Stored \cup {NoKey}
    \/ \E t \in Threads : /\ pc[t] \in {"uncount", "unalias", "release", "unmap"}
                          /\ delKey[t] = clientSessions[a]

-----------------------------------------------------------------------------
\* Stop returns: the workers drain, and the sweep ends although the cleanup
\* ticker and handlers delete sessions under it.
StopTerminates == pc[Signal] = "draining" ~> pc[Signal] = "stopped"
=============================================================================
