# TLA+ model of quic-relay

quic-relay is a UDP relay for QUIC. It reads the ClientHello of a new
connection, lets a chain of handlers route it, and forwards the packets of the
connection to a backend and back. This directory models the relay's own state
and concurrency in TLA+, checks it with TLC on small instances and proves its
safety properties with TLAPS.

## 1. Inventory

| Component | State | Operations | Code |
|---|---|---|---|
| Session table | `sessions`, `sessionCount`, `clientSessions` | find, store, evict oldest, idle cleanup, delete, migrate | `internal/proxy/proxy.go` |
| Server SCID aliases | `dcidAliases`, `sessionAliases` | learn, track, delete with the session | `proxy.go` |
| Handler chains | `chain`, `chainRefs`, `retiredChains` | reload, retain, release, retire, shut down | `proxy.go`, `cmd/proxy/main.go` |
| Global rate limiter | a reserved slot in `sessionCount` | reserve, release | `handler/ratelimit_global.go`, `proxy.go` |
| ClientHello assemblers | `assemblers`, `assemblerCount`, per assembler frames, `complete`, age | load or create, replace, add frame, parse, delete, cleanup | `proxy.go` |
| Pending packets | `pendingPackets`, `pendingCount` | buffer, flush, expire | `proxy.go` |
| Worker pool, read loop, shutdown | queues, packet buffers, context, listener, process | read, submit, handle, stop | `pool.go`, `proxy.go`, `main.go`, `handler/bufpool.go` |
| Forwarder | per session: socket, `closed`, `LastActivity`, reader goroutine | connect, packet in, packet out, disconnect | `handler/forwarder.go`, `handler/context.go` |
| QUIC parser | none (pure functions) | classify, extract connection IDs, walk coalesced packets, decrypt, CRYPTO frames, ClientHello | `parser.go` |
| Routers, logging handlers, registry | round-robin counters, routes, `backend` in the context | OnConnect | `handler/sni_router.go`, `simple_router.go`, `registry.go` |
| Terminator handler | backend per DCID in an external TLS terminator | register, remove, shut down | `handler/terminator_handler.go` |
| Protocol library | `PacketReader`'s buffer, offset and count | read, write, reset; VarInt, string, Connect, Disconnect | `pkg/protohytale` |

**How they interact.** `main` starts `Run` on its own goroutine and a signal
goroutine that calls `ReloadChain` and `Stop`. `Run` reads datagrams and submits
them to the worker of the client's shard. A worker runs `handlePacket`: it looks
the session up, and either passes the packet to the session's chain, or buffers
it, or collects frames until a ClientHello is complete and then runs `OnConnect`
of the current chain and stores the session. The forwarder starts one reader
goroutine per session, which calls back into the proxy (`OnServerPacket`) to
learn server SCIDs. A ticker goroutine removes idle sessions, expired assemblers
and expired buffers. Handlers may call `Context.Drop` from any goroutine. All of
them share `sync.Map`s and atomics; only the chain references, the alias sets,
the buffers and the assemblers have a mutex.

**What is hard.** A `sync.Map` and its counter are two steps; a check and the
action it justifies are two steps; deletion goes by key although the decision
was made about a value; four goroutines may end a session; a reload or a
shutdown can fall anywhere. The relay consumes Initials it does not keep and
depends on the client to repeat them; it guesses the length of connection IDs
and reads those of the server out of datagrams whose packets it must skip. The
packet reader moves and grows a buffer under reads of any size. `PROJECT.json`
lists these hazards line by line.

**What makes it correct.** The counter never admits more than the limit; maps
stay within their caps; a chain is shut down once, and not under its sessions;
aliases and sockets live as long as their session; packets of a client stay in
order; buffers have one owner; shutdown ends and leaves nothing behind. The
handlers see the ClientHello the client sent, the connection goes to a backend
its configuration names, and later packets find its session. The packet reader
returns what was written.

## 2. Modules

| Module | Models | Composition |
|---|---|---|
| `Sessions` | session table, aliases, chains, limiter | core module |
| `MCSessions` | TLC instances | extends `Sessions` |
| `SessionsProofs` | theorems: types, slots, limit, life of a chain, Stop | extends `Sessions` |
| `SessionsLookupProofs` | theorems: counter, sockets, aliases, chain references, addresses | extends `SessionsProofs` |
| `BoundedMap` | abstract map with a cap | implemented by the next two |
| `Assemblers`, `MCAssemblers` | assembler map and the middle of `handlePacket` | instance of `BoundedMap` |
| `PendingPackets`, `MCPending` | early packets | instance of `BoundedMap` |
| `BoundedMapProofs` | theorems | extends `Assemblers` |
| `PendingProofs` | theorems | extends `PendingPackets` |
| `WorkerPool`, `MCPool` | pool, read loop, shutdown | `handlePacket` is one operation here |
| `PoolProofs` | theorems | extends `WorkerPool` |
| `Routing` | the handlers of a chain up to the forwarder | |
| `Forwarder`, `MCForwarder` | one connection, from the first handler to the end of its session | extends `Routing` |
| `ForwarderProofs` | theorems | extends `Forwarder` |
| `QuicParser` | `parser.go` as operators on bytes | |
| `Handshake`, `MCHandshake` | one connection at byte level: Initials, assembler, server SCIDs, lookup | extends `QuicParser` |
| `HandshakeProofs` | theorems: assembly, walk over datagrams, lookup | extends `Handshake` |
| `HytaleCodec` | VarInts, strings, Connect and Disconnect as operators on bytes | |
| `HytaleStream`, `MCHytale` | packet writer and reader on a stream | extends `HytaleCodec` |
| `HytaleProofs` | theorems: framing, buffer, errors, VarInts, packets | extends `HytaleStream` |

An action is one operation on a shared map, counter, mutex-protected object or
socket, named after the function it belongs to; the label in `pc` says where in
the function the goroutine is. `PROJECT.json` maps every definition to its
lines. Each module ends with its properties. Operators marked *Mutant* are
plausible faulty versions of the operation that follows them; each one breaks
the property it is listed with.

### Sessions

`pc[t]` is the position of goroutine `t`: a worker in `handlePacket`, the
ticker, a dropping handler or the signal goroutine. A context is a number; its
fields are the functions `dcidOf`, `chainOf`, `addrOf`, `reserved`, `open`.
`findSession` is one step (consecutive loads of one goroutine), everything that
writes is a step of its own. `tracked` is the key set of the `chainRefs` map,
which the code tests. Readers (`rd`) learn SCIDs one at a time, and keep going
through a datagram accepted before the session was closed, as the code does.

Two constants restrict the environment where a property needs it: `ReuseDCID`
(may a DCID open two sessions; `FALSE` means that connection IDs do not repeat
and the Initials of one come from one address) and `Prompt` (a session is not
found idle, and not evicted as one of the oldest, while its own worker is still
storing it; that takes microseconds, against a timeout of seconds and an eviction
that takes the oldest tenth of a table at nine tenths of its limit). A theorem
that needs one of them has it as a hypothesis.

### Assemblers and PendingPackets

Both maps have the same discipline: take a slot by compare-and-swap, then
`LoadOrStore`; `LoadAndDelete`, then `Add(-1)`. `ServedBy` says which workers
get the packets of a DCID, so one or two client addresses per DCID can be
checked. The bytes of a ClientHello are a set of fragments, the age of an
assembler is young, old (2 s) or expired (5 s). Both refine `BoundedMap` with
`present` = the keys in the map and `spare` = the goroutines that hold a slot
without an entry. In `PendingPackets`, `waiting` records the packets that a
buffer in the map has accepted and that are neither passed on nor dropped by the
ticker with their buffer.

### QuicParser and Handshake

The operators of `QuicParser` follow the code's offsets; a read behind the end
of the data, which the code would answer with a panic, has no value and stops
TLC. An Initial is its bytes, of which the encrypted payload is opaque, the
DCID its keys were derived from and the frames inside; decryption succeeds if
the keys fit. `MCHandshake` encodes the clients' and servers' packets from the
RFCs, independently of the parser.

In `Handshake` a client's Initials arrive any number of times in any order.
`assembler` is the buffer, the set of written offsets, `maxOffset` and whether
five seconds have passed; `seen` records which Initials are in it, `forwarded`
which ones the backend got. One worker serves the client, so a packet is one
step; what several workers do to one assembler is in `Assemblers`. A second
session with a DCID that is a prefix of the first one's is in the table all the
time. `BufferSize` stands for the code's 8192 bytes, so that ClientHellos of
exactly the size of the buffer and of one byte more can be checked.

### HytaleCodec and HytaleStream

`wire` is everything written to the stream, `taken` how much of it the reader
has; `buf` is the valid part of the reader's buffer, `size` its length. The
first half of `ensureBytes` (compaction and growth) is `Prepare`, a step with
what precedes it; each `Read` of the stream is a step. Errors of the stream
other than its end are passed on by the code unchanged and are not modelled.
Group size, word size, header size and limits are constants: with two bits per
byte of a VarInt and words of five bits all values can be checked, including
those whose last group is cut off. What a message means is not taken from the
parser: `ConnectMeans` and `DisconnectMeans` say how the peer has put it into the
packet.

### WorkerPool

Buffers are identities, so that leaking one or returning it twice is visible.
A send on a closed queue is the step `SubmitClosed`, which ends the process, as
a Go panic does. `MainReturns` ends the process when `Run` has returned.
`CloseQueue` closes the queues in any order, the code in index order.

### Routing and Forwarder

`Routing` runs `Chain.OnConnect` handler by handler: routers put a backend into
the context, the terminator registers it under the DCID and puts its own
listener there. `Chains` is any set of chains, valid or not, with routers and
terminators in any number and order; `RoutingAssumption` says what the
constructors check, that no list of backends is empty. The rate limiter
may refuse at any time (`Sessions` says when). The counters start where other
connections left them. `Forwarder` starts when the chain reaches it.

`now` is real time in seconds, `coarse` the clock that `Touch` uses; it lags by
at most one tick. `lastTraffic` records when the last relayed packet arrived.

## 3. Runs

One run per question; each instance is chosen so that all its properties are at
stake in it. Passing runs:

| Run | Instance | Properties |
|---|---|---|
| `sessions_limit` | two workers, a DCID may come from two addresses, limit 1 raised to 2 by a reload, eviction at two sessions, ticker and Stop | `TypeOK`, `SlotAccounting`, `LimitRespected` |
| `sessions_reload` | two sessions, two chains, a handler that drops, ticker, Stop, fair scheduling | `ShutdownOnce`, `RefsMatchSessions`, `StoppedClean`, `AddrEntriesNameSessions`, `ReloadKeepsRetained`, `StopTerminates` |
| `sessions_lookup` | two sessions, two addresses, migration allowed, one server SCID that both may learn | `AliasesTracked`, `NoBackendLeak`, `CountMatchesTable`, `AliasEndsWithSession` |
| `assemblers` | two workers that share a DCID, an expired assembler of a silent client in the second of two slots, fair ticker | `CountExact`, `CompleteLeaves`, `RefinesBoundedMap`, `ExpiredRemoved` |
| `pending` | one DCID with one address, one with two, cap 2, two packets per buffer | `CountExact`, `InOrder`, `RefinesBoundedMap`, `FlushedAll` |
| `pool` | three clients on two shards, queues of one, three packets, fair scheduling | `BufferOwnedOnce`, `SerialPerClient`, `SweepAfterDrain`, `QueuedIsHandled` |
| `forwarder` | five chains (two that forward, one of them through the terminator, three that drop), a worker, the ticker and a second closer, four seconds, fair scheduling | `ClosedOnce`, `RoutedAsConfigured`, `IdleMeansIdle`, `ReaderEnds` |
| `handshake` | 14 ways to send a ClientHello, with every order, loss and repetition of its Initials; two of six server datagrams; a second session | `HelloFaithful`, `OpensWhenCovered`, `AliasesExact`, `RoutesToOwner`, `ServerGetsHello` |
| `hytale` | five kinds of packets at the limits, two streams, all ways to cut them into reads | `NothingLost`, `BufferFits`, `ErrorsJustified`, `MeaningKept`, `VarIntsRoundTrip`, `EventuallyReturned` |

Outside `Sessions` the type invariant is a conjunct of one invariant of the run;
`RetiredHaveRefs` is a conjunct of `RefsMatchSessions`.

Together they show that the counters admit nothing beyond their limits in any
interleaving, that a chain is shut down exactly once and not under a session
that has retained it, that the end of a session leaves no socket and no foreign
alias behind, that buffers and packets are neither duplicated nor reordered, and
that Stop, expiry, the drain and the readers come to their end. A ClientHello is
understood as sent however its bytes travel, the backend gets all of it in the
end, and connection IDs lead to their owner; a stream of packets survives every
way to cut it.

Runs that find the code at odds with what it says; `PROJECT.json` quotes the
line for each:

| Run | Property | What happens |
|---|---|---|
| `sessions_reload_race` | `SessionOnLiveChain` | reload between loading and retaining the chain: the session is stored on a chain that is shut down |
| `pool_panic` | `NoSendOnClosed` | a packet is submitted after Stop closed the queues |
| `handshake_coalesced` | `LearnsAllSCIDs` | the token field of an Initial is read as its length; SCIDs behind an Initial are not learnt |

Other behaviour met while modelling that the properties above are stated to
allow:

* one DCID opened by two workers: `Store` overwrites the first entry, and the
  counter stays too high (`SlotAccounting` bounds it from below only;
  `CountMatchesTable` is checked where DCIDs do not repeat);
* the end of an old session removes the address entry of a newer one
  (`AddrEntriesNameSessions` only excludes entries that stay behind);
* an Initial of a new connection from an address with a live session goes to the
  old session through the address fallback (`proxy.go:649`), although
  `proxy.go:393` says "Uses QUIC Connection ID (DCID) for session lookup instead
  of IP:Port." and the repository's README "Routes connections based on the
  domain (SNI) players connect to.";
* the reader gives up after five minutes without a packet from the backend
  (`forwarder.go:142`) while the session lives on and accepts client packets;
  `docs/handlers.md:132` says "Copies packets bidirectionally";
* a connection that is dropped behind the terminator (the dial fails) leaves the
  terminator's entry behind: `handlePacket` calls `OnDisconnect` only for
  sessions;
* `ReadPacket` returns `io.EOF` with a complete packet in the buffer when the
  stream delivers its last bytes together with its end, as quic-go does; calling
  it once more returns the packet;
* a Connect packet with an identity token of more than 256 bytes parses without
  an error, with the token and all that follows empty ("Partial parse OK");
* the walk over server datagrams assumes that a server Initial has an empty token
  and a length field of two bytes; with a field of four bytes it reads payload
  bytes as a packet header (`AliasesExact` is checked for the two-byte form
  that QUIC implementations use in Initials);
* some tests of `parser_test.go` expect oversized SCIDs and tokens to be rejected
  and the raw ClientHello to be copied, which this version of the parser does
  not do; the modelled packets are well-formed;
* an SCID learned while its session is deleted stays in the alias map;
* a session that is evicted or found idle between `storeSession` and
  `retainChain` leaves a reference behind, so its chain is shut down only by
  Stop. In the code eviction takes the oldest tenth of the table and the timeout
  is seconds, so `sessions_reload` has no eviction and sets `Prompt`;
* the ticker may delete the fresh replacement of an assembler, or of a pending
  buffer, that it found expired; the packets in that buffer are lost
  (`FlushedAll` excepts what the ticker drops);
* with two client addresses on one DCID, both workers may be handed the same
  ClientHello, and a packet may be appended to a buffer that was just flushed
  (`InOrder` and `FlushedAll` speak of DCIDs with one address);
* buffered packets run through the chain current at the flush, which a reload
  may have replaced;
* the process ends when `Run` returns, even if Stop is still at work;
* a write may reach a socket closed after the check of `closed`; it fails and
  the packet is dropped.

**Bounds.** Workers, the ticker, a dropping handler and the signal goroutine
give every pair of goroutines that can meet in `deleteSession` or in the chain
counts, and two sessions are what it takes to confuse one with
another. Two chains show a reload against old and new sessions; caps of one or
two are reached at once; an Initial without frames leaves an assembler
incomplete. `assemblers` starts with a silent client's assembler in the map, as a
run that has seen that client can be; so two slots are enough both for a
full map and for two workers that store the same DCID. One packet
more than a queue or buffer holds reaches its limit. `MaxCtx`, `MaxObj`,
`MaxBuf`, `MaxConn`, `MaxPkts`, `MaxNow`, `MaxIn`, `MaxReplies`, `MaxSent` and
`MaxStreams` only bound how often something new is created or how long time
runs. `MaxExpiry` bounds how often an assembler expires under a client, which
for `ServerGetsHello` also means a client that repeats its Initials within five
seconds at last. The scaled sizes (`BufferSize`, `HeaderSize`, `MaxPacketSize`,
`InitSize`, the VarInt and string limits) keep the order of the code's and are
reached and exceeded by some input. `sessions_reload` and
`sessions_lookup` have one worker: what they ask about happens between a worker
and the other goroutines. Runs whose instance may
stop (all packets used, process ended) do not check for deadlock;
`Assemblers` and `PendingPackets` do, their ticker always has a next step.

**Fairness.** Liveness assumes that a goroutine in the middle of an operation is
scheduled (weak fairness of its steps). In `Sessions` this is asked only of the
workers and the signal goroutine: Stop returns even if the ticker and the
handlers that delete sessions under its sweep are never scheduled again. A
worker that returns to a closed queue again and again finds it empty at last,
since nothing is added to it (strong fairness of `WorkerExit`). In `Assemblers`
the ticker keeps firing. In `Handshake` a client repeats an Initial until the
server has it, and the network does not lose every copy; this is weak fairness of
`Receive`, written with the predicate `Awaited` in place of `ENABLED`. In
`HytaleStream` the caller calls again until there is an error, the writer
finishes its packet and the stream delivers what is written. Elsewhere packets,
signals, backend traffic and the passage of time are never promised.

## 4. Proofs

The theorems hold for every value of the constants that satisfies the named
assumptions of the module: any number of workers, addresses, DCIDs, chains,
slots, buffers; ClientHellos, packets and streams of any length. Every safety
invariant and action property of a passing run is a theorem. The inductive
invariants were checked by TLC before they were proved. A module's assumptions
are evaluated by TLC in its runs.

**Sessions.** Without hypotheses on the environment:

* `TypeCorrect`: `TypeOK` always holds. `TypeOK` alone is not inductive: a
  worker past `NewContext` needs a context, a goroutine in `deleteSession` needs
  a key, a migrating worker needs an old address. `TypeInv` adds these facts
  about the labels.
* `SlotsSafe`: `SlotAccounting`. The inductive invariant adds that a context is
  in the hands of at most one worker until it is stored, so that releasing a
  reservation frees exactly one holder's slot; the rest is arithmetic on finite
  cardinalities, one lemma per way the sets change.
* `LimitSafe`: `LimitRespected`, from `SlotAccounting` and the fact that when
  every chain has a limiter, a worker that is about to store has a reservation.
* `ChainsSafe`: `ShutdownOnce` and `RetiredHaveRefs`. `ChainInv` relates
  `chain`, `oldChain`, `unbuilt`, `retiredChains`, `tracked` and `shutdowns` at
  every label of the signal goroutine: a chain is unbuilt, current, being
  retired, retired or shut down, and exactly one of these.
* `StopSafe`: `StoppedClean`. `SweepInv` adds that after the drain no worker
  holds a session, so the table only shrinks, and `Accounted` that every chain
  installed before is shut down, retired or current.
* `AliasesSafe`: `AliasesTracked`. A reader runs only for a context that was
  dialled (`Reading`); an alias is in its session's set, or its reader is between
  storing and tracking it.

If DCIDs do not repeat (`~ReuseDCID`; otherwise `PutSession` overwrites a session
of the same DCID, and these properties fail as section 3 says):

* `CountSafe`: `CountMatchesTable`, and `LeakSafe`: `NoBackendLeak`. `deleteSession`
  decides about a context and deletes a key; that the two belong together
  is `Identity` (every context is where its DCID says), `Unique` (no two contexts
  have one DCID) and `Gone` (a DCID taken out of the table does not come back).
  With them the inequality of `SlotAccounting` is an equation (`Exact`), and an
  open socket belongs to a session in the table or to a worker that is about to
  store it (`LeakInv`).
* `AliasEndSafe`: `AliasEndsWithSession`, from `Gone` and `Reading`.

If moreover no session ends while it is being stored (`Prompt`; otherwise the
worker takes a reference for a session that has given its reference back already):

* `RefsSafe`: `RefsMatchSessions`, and `ReloadSafe`: `ReloadKeepsRetained`.
  `PastInv` says that what is deleted, dropped or chosen for eviction is past its
  creation; `RefsExact` that the count of a chain is at every moment the number
  of sessions that have retained it plus the number of deleters that have yet to
  release it. A deleter that shuts a chain down has brought that number to zero.
* `AddrSafe`: `AddrEntriesNameSessions`, where the configuration never allows
  migration (`Settings \subseteq {FALSE}`), as in the run: a migrating worker may
  bind a session's new address after its deleter has unbound the old one. Without
  migration no worker gets there (`Fixed`), and a deleter removes the entry that
  the session's worker stored (`AddrInv`).

The steps of `Sessions` are classified once (`StepKinds`): most only move a
goroutine, and the invariants above look only at the few kinds that create,
store, delete or close.

**Assemblers and PendingPackets.** `AssemblerCount` and `PendingCount` show that
the counters are exact, `AssemblersRefine` and `PendingRefine` that both maps
implement `BoundedMap`, `AssemblersWithinCap` that the cap holds. The inductive
invariant is `Ready`, what a goroutine at each label holds, together with the
exact count. Every step has one of five effects on keys and slots (none, slot
taken, slot filled, entry emptied, slot given back), and each effect is a step or
a stutter of `BoundedMap`. `CompleteSafe` (`CompleteLeaves`) adds who owns an
assembler that is not in the map yet.

`OrderSafe` (`InOrder`) and `FlushSafe` (`FlushedAll`) speak of a DCID with one
client address, so with one worker. `BuffersApart` says that no two DCIDs share a
buffer, `SessionFirst` that once there is a session only the worker about to
flush it finds a buffer, `OrderedFor` that packet numbers grow from what
`OnPacket` got through the batch and the buffer to the packet at hand, and
`WaitingKept` that a packet that waits is in the buffer in the map or with the
flushing worker.

**WorkerPool.** `DrainSafe` (`SweepAfterDrain`): a worker leaves only when its
queue is closed and empty (`DrainInv`). `SerialSafe` (`SerialPerClient`): packets
stay on the shard of their client (`OwnShard`), and numbers grow from what was
begun through the queue to what `Run` is about to submit (`Numbered`).
`BufferSafe` (`BufferOwnedOnce`): every buffer has an owner (`Owned`) and no two
(`Exclusive`). `BufferOwnedOnce` counts the owners; the two-part form can be
followed step by step.

**Forwarder and Routing.** `CloseSafe` (`ClosedOnce`): until `Session.Close` has a
winner the socket is open, afterwards it is the winner's to close or closed once
(`CloseInv`). `IdleSafe` (`IdleMeansIdle`): the coarse clock lags by at most a
second, and so does the recorded activity (`ClockInv`). `RouteSafe`
(`RoutedAsConfigured`), for chains of any length and order: the backend in the
context is what the last router or terminator in front chose, and the
terminator's entry what was chosen before the last terminator (`RouteInv`).

**Handshake and QuicParser.** The invariant is `HandshakeInv`.

* `HelloIsFaithful` (`HelloFaithful`) and `OpensAsSoonAsCovered`
  (`OpensWhenCovered`) rest on `AssemblerInv`. Its core (`Collects`) says that the
  bitset marks exactly the offsets covered by the Initials in `seen`, that the
  buffer holds the ClientHello's byte at each of them, and that `maxOffset` is
  the end of the last. `TryParse` succeeds exactly when the bytes that the length
  in the first four announces are all marked, so there is never a hole in what it
  hands on and never a wait for a byte that is there.
* `PacketsReachTheirOwner` (`RoutesToOwner`) rests on `TableInv`: the length of
  every known connection ID is among the candidate lengths, so `findSession`
  tries it, and every alias leads to the client's session.
* `AliasesStayExact` (`AliasesExact`) follows the loop of `ExtractAllSCIDs` over
  a datagram. Up to the first packet with a token field each round starts where
  a packet starts (`WalkPacket`); at that packet the walk reads the token's length,
  which is 0, for the packet's, goes on at the length field and stops there
  (`WalkStops`), so it never reads payload as a header. That last step needs the
  layout that `LaidOut` states, an empty token and a length field of two bytes
  (section 3). `AliasInv` relates what a datagram yields to what is in the table.

`FlightAssumption` says of the client that its frames carry pieces of its
ClientHello, that decryption with its DCID's keys yields these frames, and what
`parseTLSClientHello` finds in the whole ClientHello; `ReplyAssumption` says of
the server how its datagrams are laid out. What the TLS parser computes is thus
checked by TLC, on the ClientHellos of the instance, and not proved.

**HytaleStream and HytaleCodec.** The invariant is `StreamInv`.

* `NothingIsLost` (`NothingLost`): what is on the wire, with what the writer has
  still to hand over, is the sequence of the frames sent (`WireInv`); what the
  reader has taken is the frames it has returned and what is unread. If enough
  is unread for a header, or a packet, it is therefore the next frame's
  (`FrameRead`), and the packets returned are those sent (`PacketsInv`).
* `BufferAlwaysFits` (`BufferFits`): a call that waits has made room from offset
  0 on (`CallInv`); the buffer doubles at most until it holds a packet of
  `MaxPacketSize`.
* `ErrorsAlwaysJustified` (`ErrorsJustified`), from `ErrorInv`: at the end of the
  stream less than a frame is unread.
* `VarIntsSurviveEncoding` (`VarIntsRoundTrip`), from the lemma `RoundTrip`, for
  any sizes of groups and words that `CodecAssumption` and `WeightAssumption`
  allow: after i groups the reader has the value less what the writer has left
  times `Weight[i]` (`ReadBack`).
* `MeaningIsKept` (`MeaningKept`): `ReadString` reads back what `WriteString`
  writes (`StringRead`) and refuses what is no string (`NothingRead`); by
  induction over the strings in a packet `ReadStrings` finds all of them and then
  the first that is missing or broken (`StringsRead`), and the parsers find what
  `MessageAssumption` says the peer has put in.

Recursive definitions are recursive functions here, and induction is over sets:
`SetInduction` and `IntervalInduction`, proved from the well-foundedness of the
natural numbers, say that a set of numbers that has the first and the
successor of each of its numbers has them all. So the proofs cover what the loops of
the code compute for every input.

In this version of the prover the translation of an expanded `CHOOSE` to SMT is
not reliable. The leaves that expand one are given to Zenon. It knows nothing
about powers with a variable exponent: `Weight` is a recursive function, and that
the group and the word are powers of two that fit it is `WeightAssumption`.

Only model-checked:

* liveness (`StopTerminates`, `ExpiredRemoved`, `QueuedIsHandled`, `ReaderEnds`,
  `ServerGetsHello`, `EventuallyReturned`), which is out of the prover's reach;
* what `parseTLSClientHello` and the decryption of Initials yield
  (`FlightAssumption`), on the instance's ClientHellos;
* the three properties that the code does not keep (section 3).

## 5. Not modelled, and the plan

Left out for good:

* key derivation, header protection and AEAD (library cryptography; whether a
  payload opens is modelled), Zstd, and the TLS terminator library, of which only
  the calls the relay makes are modelled;
* decoding of the JSON configuration, the handler registry, logging, and the
  manual test tools in `cmd/client` and `cmd/echo`;
* functions nothing calls: `InitCrypto`, `HasCrypto`, `GetCrypto`, `parseFrames`,
  `reassembleCryptoData`, `ExtractSCID`, the fixed-width and floating-point
  readers of `encoding.go`.

Not done yet, the most useful first:

1. A composition of `Sessions` with `PendingPackets` (which chain a flush runs
   through) and with `WorkerPool` (Stop as one protocol); two limiters in one
   chain; the choice of the oldest sessions.
2. A `BuildChain` that fails after it has created a terminator.
