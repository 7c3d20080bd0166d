----------------------------- MODULE WorkerPool -----------------------------
(***************************************************************************)
(* The life of a datagram between the listener and handlePacket, and the   *)
(* end of the process: the read loop of Proxy.Run, the sharded worker pool *)
(* (internal/proxy/pool.go), the packet buffers (handler/bufpool.go),      *)
(* Proxy.Stop and the two goroutines of cmd/proxy/main.go that call Run    *)
(* and Stop.  handlePacket itself is Sessions, Assemblers and              *)
(* PendingPackets; here it is one uninterpreted operation.                 *)
(*                                                                         *)
(* Datagrams are numbered in the order in which Run reads them.            *)
(***************************************************************************)
EXTENDS Integers, FiniteSets, Sequences

CONSTANTS
  Shards,    \* the pool's workers, each with a queue of its own
  Addrs,     \* client addresses
  ShardOf,   \* hashAddr(addr) % workers
  QueueCap,  \* queuePerShard
  Buffers,   \* buffers the sync.Pool can hand out
  NoBuffer,  \* nil
  MaxPkts    \* bound: datagrams

ASSUME PoolAssumption ==
  /\ ShardOf \in [Addrs -> Shards]
  /\ QueueCap \in Nat \ {0} /\ MaxPkts \in Nat
  /\ IsFiniteSet(Shards) /\ IsFiniteSet(Buffers)
  /\ NoBuffer \notin Buffers
  /\ Cardinality(Buffers) > (QueueCap + 1) * Cardinality(Shards)

Items == [num : 1..MaxPkts, addr : Addrs, buf : Buffers]
NoItem == [num |-> 0]

VARIABLES
  process,    \* "up", "exited" (main returned) or "panicked"
  run,        \* label of Run
  rbuf, ritem,  \* buffer and work item of Run
  nextNum,    \* number of the next datagram
  cancelled,  \* the proxy's context
  listening,  \* the listener is open
  queues, closed,  \* per shard: the channel
  dropped,    \* per shard: packets refused by a full queue
  worker, item,    \* per shard: label of the worker, item it handles
  pool,       \* buffers in the sync.Pool
  stop,       \* label of the signal goroutine in Stop
  started     \* address -> datagrams whose handling has begun, in order

channels == <<queues, closed, dropped>>
reader == <<run, rbuf, ritem, nextNum>>
workers == <<worker, item, started>>
vars == <<process, reader, cancelled, listening, channels, workers, pool, stop>>

Up == process = "up"

\* Type invariant of the queues, buffers and goroutines.
TypeOK ==
  /\ process \in {"up", "exited", "panicked"}
  /\ run \in {"check", "read", "submit", "returned"}
  /\ rbuf \in Buffers \cup {NoBuffer}
  /\ ritem \in Items \cup {NoItem}
  /\ nextNum \in 1..(MaxPkts + 1)
  /\ cancelled \in BOOLEAN /\ listening \in BOOLEAN
  /\ queues \in [Shards -> Seq(Items)]
  /\ \A s \in Shards : Len(queues[s]) <= QueueCap
  /\ closed \in SUBSET Shards
  /\ dropped \in [Shards -> Nat]
  /\ worker \in [Shards -> {"receive", "handle", "exited"}]
  /\ item \in [Shards -> Items \cup {NoItem}]
  /\ pool \in SUBSET Buffers
  /\ stop \in {"none", "cancelled", "closing", "waiting", "sweeping", "done"}
  /\ started \in [Addrs -> Seq(1..MaxPkts)]

Init ==
  /\ process = "up"
  /\ run = "check"
  /\ rbuf = NoBuffer /\ ritem = NoItem
  /\ nextNum = 1
  /\ cancelled = FALSE /\ listening = TRUE
  /\ queues = [s \in Shards |-> <<>>]
  /\ closed = {}
  /\ dropped = [s \in Shards |-> 0]
  /\ worker = [s \in Shards |-> "receive"]
  /\ item = [s \in Shards |-> NoItem]
  /\ pool = Buffers
  /\ stop = "none"
  /\ started = [a \in Addrs |-> <<>>]

-----------------------------------------------------------------------------
(* Proxy.Run on the main goroutine.                                        *)

\* The context is checked once per iteration; then a buffer is taken.
GetBuffer ==
  /\ Up /\ run = "check" /\ ~cancelled
  /\ \E b \in pool : rbuf' = b /\ pool' = pool \ {b}
  /\ run' = "read"
  /\ UNCHANGED <<process, ritem, nextNum, cancelled, listening, channels, workers, stop>>

RunReturns ==
  /\ Up /\ run = "check" /\ cancelled
  /\ run' = "returned"
  /\ listening' = FALSE
  /\ UNCHANGED <<process, rbuf, ritem, nextNum, cancelled, channels, workers, pool, stop>>

ReadFromUDP(a) ==
  /\ Up /\ run = "read" /\ listening
  /\ nextNum <= MaxPkts
  /\ ritem' = [num |-> nextNum, addr |-> a, buf |-> rbuf]
  /\ nextNum' = nextNum + 1
  /\ rbuf' = NoBuffer
  /\ run' = "submit"
  /\ UNCHANGED <<process, cancelled, listening, channels, workers, pool, stop>>

\* The one-second deadline passes or the socket is closed.
ReadFails ==
  /\ Up /\ run = "read"
  /\ pool' = pool \cup {rbuf}
  /\ rbuf' = NoBuffer
  /\ run' = "check"
  /\ UNCHANGED <<process, ritem, nextNum, cancelled, listening, channels, workers, stop>>

Submitted ==
  /\ ritem' = NoItem
  /\ run' = "check"
  /\ UNCHANGED <<process, rbuf, nextNum, cancelled, listening, closed, workers, stop>>

\* Mutant: any shard with room will do.
SubmitAnywhere ==
  /\ Up /\ run = "submit"
  /\ \E s \in Shards \ closed :
       /\ Len(queues[s]) < QueueCap
       /\ queues' = [queues EXCEPT ![s] = Append(@, ritem)]
  /\ Submitted
  /\ UNCHANGED <<dropped, pool>>

\* WorkerPool.Submit: the client's shard has room ...
Submit ==
  LET s == ShardOf[ritem.addr]
  IN  /\ Up /\ run = "submit"
      /\ s \notin closed
      /\ Len(queues[s]) < QueueCap
      /\ queues' = [queues EXCEPT ![s] = Append(@, ritem)]
      /\ Submitted
      /\ UNCHANGED <<dropped, pool>>

\* Mutant: the buffer of a refused packet is not returned.
SubmitFullLeaks ==
  LET s == ShardOf[ritem.addr]
  IN  /\ Up /\ run = "submit"
      /\ s \notin closed
      /\ Len(queues[s]) >= QueueCap
      /\ dropped' = [dropped EXCEPT ![s] = @ + 1]
      /\ Submitted
      /\ UNCHANGED <<queues, pool>>

\* ... or it has not, and the packet is counted and dropped ...
SubmitFull ==
  LET s == ShardOf[ritem.addr]
  IN  /\ Up /\ run = "submit"
      /\ s \notin closed
      /\ Len(queues[s]) >= QueueCap
      /\ dropped' = [dropped EXCEPT ![s] = @ + 1]
      /\ pool' = pool \cup {ritem.buf}
      /\ Submitted
      /\ UNCHANGED queues

\* ... or Stop has closed it: a send on a closed channel panics.
SubmitClosed ==
  /\ Up /\ run = "submit"
  /\ ShardOf[ritem.addr] \in closed
  /\ process' = "panicked"
  /\ UNCHANGED <<reader, cancelled, listening, channels, workers, pool, stop>>

\* main returns when Run does, and the process ends.
MainReturns ==
  /\ Up /\ run = "returned"
  /\ process' = "exited"
  /\ UNCHANGED <<reader, cancelled, listening, channels, workers, pool, stop>>

-----------------------------------------------------------------------------
(* WorkerPool.worker, one goroutine per shard.                             *)

Receive(s) ==
  /\ Up /\ worker[s] = "receive"
  /\ queues[s] # <<>>
  /\ item' = [item EXCEPT ![s] = Head(queues[s])]
  /\ queues' = [queues EXCEPT ![s] = Tail(@)]
  /\ started' = [started EXCEPT ![Head(queues[s]).addr] = Append(@, Head(queues[s]).num)]
  /\ worker' = [worker EXCEPT ![s] = "handle"]
  /\ UNCHANGED <<process, reader, cancelled, listening, closed, dropped, pool, stop>>

\* Mutant: the worker handles one packet and leaves.
HandledOnce(s) ==
  /\ Up /\ worker[s] = "handle"
  /\ pool' = pool \cup {item[s].buf}
  /\ item' = [item EXCEPT ![s] = NoItem]
  /\ worker' = [worker EXCEPT ![s] = "exited"]
  /\ UNCHANGED <<process, reader, cancelled, listening, channels, started, stop>>

\* handlePacket returns; the buffer goes back to the pool.
Handled(s) ==
  /\ Up /\ worker[s] = "handle"
  /\ pool' = pool \cup {item[s].buf}
  /\ item' = [item EXCEPT ![s] = NoItem]
  /\ worker' = [worker EXCEPT ![s] = "receive"]
  /\ UNCHANGED <<process, reader, cancelled, listening, channels, started, stop>>

\* The range over the queue ends when it is closed and empty.
WorkerExits(s) ==
  /\ Up /\ worker[s] = "receive"
  /\ s \in closed /\ queues[s] = <<>>
  /\ worker' = [worker EXCEPT ![s] = "exited"]
  /\ UNCHANGED <<process, reader, cancelled, listening, channels, item, started, pool, stop>>

-----------------------------------------------------------------------------
(* Proxy.Stop on the signal goroutine.                                     *)

Cancel ==
  /\ Up /\ stop = "none"
  /\ cancelled' = TRUE
  /\ stop' = "cancelled"
  /\ UNCHANGED <<process, reader, listening, channels, workers, pool>>

CloseListener ==
  /\ Up /\ stop = "cancelled"
  /\ listening' = FALSE
  /\ stop' = "closing"
  /\ UNCHANGED <<process, reader, cancelled, channels, workers, pool>>

\* WorkerPool.Stop closes the queues one after the other and waits.
CloseQueue ==
  /\ Up /\ stop = "closing"
  /\ \E s \in Shards \ closed : closed' = closed \cup {s}
  /\ UNCHANGED <<process, reader, cancelled, listening, queues, dropped, workers, pool, stop>>

QueuesClosed ==
  /\ Up /\ stop = "closing"
  /\ closed = Shards
  /\ stop' = "waiting"
  /\ UNCHANGED <<process, reader, cancelled, listening, channels, workers, pool>>

\* Mutant: waits for the first worker only.
WaitForOne ==
  /\ Up /\ stop = "waiting"
  /\ \E s \in Shards : worker[s] = "exited"
  /\ stop' = "sweeping"
  /\ UNCHANGED <<process, reader, cancelled, listening, channels, workers, pool>>

Wait ==
  /\ Up /\ stop = "waiting"
  /\ \A s \in Shards : worker[s] = "exited"
  /\ stop' = "sweeping"
  /\ UNCHANGED <<process, reader, cancelled, listening, channels, workers, pool>>

\* Sessions are disconnected and chains shut down (module Sessions).
Sweep ==
  /\ Up /\ stop = "sweeping"
  /\ stop' = "done"
  /\ UNCHANGED <<process, reader, cancelled, listening, channels, workers, pool>>

-----------------------------------------------------------------------------
RunStep == \/ GetBuffer \/ RunReturns \/ ReadFails \/ Submit \/ SubmitFull \/ SubmitClosed
           \/ \E a \in Addrs : ReadFromUDP(a)

WorkerStep(s) == Receive(s) \/ Handled(s) \/ WorkerExits(s)

StopStep == CloseListener \/ CloseQueue \/ QueuesClosed \/ Wait \/ Sweep

Next == RunStep \/ MainReturns \/ (\E s \in Shards : WorkerStep(s)) \/ Cancel \/ StopStep

Spec == Init /\ [][Next]_vars

\* Goroutines are scheduled; a read returns within its one-second deadline.
\* The signal that starts Stop is not promised.
FairSpec ==
  /\ Spec
  /\ WF_vars(RunStep) /\ WF_vars(MainReturns) /\ WF_vars(StopStep)
  /\ \A s \in Shards : WF_vars(WorkerStep(s))

-----------------------------------------------------------------------------
\* Where a buffer can be: the pool, Run's hands, a queue, a worker's hands.
Holders(b) ==
  (IF b \in pool THEN 1 ELSE 0) + (IF rbuf = b THEN 1 ELSE 0)
  + (IF ritem # NoItem /\ ritem.buf = b THEN 1 ELSE 0)
  + Cardinality({s \in Shards : item[s] # NoItem /\ item[s].buf = b})
  + Cardinality({p \in Shards \X (1..QueueCap) :
                   p[2] <= Len(queues[p[1]]) /\ queues[p[1]][p[2]].buf = b})

\* Every buffer has one owner: it is neither leaked nor in the pool while a
\* packet in it is queued or being handled ("Caller must return it via
\* PutBuffer after use").  The owners are those TypeOK allows.
BufferOwnedOnce == TypeOK /\ \A b \in Buffers : Holders(b) = 1

\* The packets of a client are handled one at a time and in the order they
\* were read, whatever the other shards do: Sessions relies on it.
SerialPerClient ==
  \A a \in Addrs :
    /\ \A i, j \in 1..Len(started[a]) : i < j => started[a][i] < started[a][j]
    /\ Cardinality({s \in Shards : item[s] # NoItem /\ item[s].addr = a}) <= 1

\* Stop touches the sessions only when no packet is queued or being handled
\* ("now safe - no more packet processing").
SweepAfterDrain ==
  stop \in {"sweeping", "done"} =>
    \A s \in Shards : queues[s] = <<>> /\ item[s] = NoItem

Queued(n) == \E s \in Shards : \E i \in 1..Len(queues[s]) : queues[s][i].num = n
Started(n) == \E a \in Addrs : \E i \in 1..Len(started[a]) : started[a][i] = n

\* An accepted packet is handled, also one that was queued when Stop closed
\* the queues, unless the process ends first.
QueuedIsHandled == \A n \in 1..MaxPkts : Queued(n) ~> (Started(n) \/ ~Up)

\* The relay does not panic: no packet is submitted after Stop closes the
\* queues.
NoSendOnClosed == process # "panicked"
=============================================================================
