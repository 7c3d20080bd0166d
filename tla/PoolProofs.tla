----------------------------- MODULE PoolProofs -----------------------------
(***************************************************************************)
(* Proofs about WorkerPool: a packet buffer has exactly one owner, packets *)
(* of a client are handled one at a time and in the order they were read,  *)
(* and Stop sweeps the sessions only after the queues are drained, for     *)
(* every number of shards, clients, buffers and packets.                   *)
(***************************************************************************)
EXTENDS WorkerPool, FiniteSetTheorems, SequenceTheorems, TLAPS

-----------------------------------------------------------------------------
(* Types and labels.                                                       *)

\* What Run and the workers hold at each label.
Hands ==
  /\ run = "read" <=> rbuf # NoBuffer
  /\ run = "submit" <=> ritem # NoItem
  /\ \A s \in Shards : worker[s] = "handle" <=> item[s] # NoItem

TypeInv == TypeOK /\ Hands

\* A real item is not the empty one.
LEMMA ItemFields ==
  /\ NoItem \notin Items
  /\ \A it \in Items : it.num \in 1..MaxPkts /\ it.addr \in Addrs /\ it.buf \in Buffers
<1>1. \A it \in Items : it.num \in 1..MaxPkts /\ it.addr \in Addrs /\ it.buf \in Buffers
  BY DEF Items
<1>2. NoItem.num = 0
  BY DEF NoItem
<1>3. NoItem \notin Items
  BY <1>1, <1>2, PoolAssumption
<1>4. QED
  BY <1>1, <1>3

LEMMA TypeInit == Init => TypeInv
<1> SUFFICES ASSUME Init PROVE TypeInv
  OBVIOUS
<1>1. <<>> \in Seq(Items) /\ <<>> \in Seq(1..MaxPkts) /\ Len(<<>>) = 0
  BY EmptySeq
<1>2. Hands
  BY DEF Init, Hands
<1>3. /\ queues \in [Shards -> Seq(Items)]
      /\ \A s \in Shards : Len(queues[s]) <= QueueCap
      /\ started \in [Addrs -> Seq(1..MaxPkts)]
  BY <1>1, PoolAssumption DEF Init
<1>4. nextNum \in 1..(MaxPkts + 1)
  BY PoolAssumption DEF Init
<1>5. QED
  BY <1>2, <1>3, <1>4 DEF Init, TypeInv, TypeOK

\* Every step preserves the types.
LEMMA TypeStep == TypeInv /\ [Next]_vars => TypeInv'
<1> SUFFICES ASSUME TypeInv, [Next]_vars PROVE TypeInv'
  OBVIOUS
<1> USE DEF TypeInv, Hands, channels, reader, workers
<1>1. CASE GetBuffer
  BY <1>1, PoolAssumption DEF GetBuffer, TypeOK
<1>2. CASE RunReturns
  BY <1>2 DEF RunReturns, TypeOK
<1>3. ASSUME NEW a \in Addrs, ReadFromUDP(a) PROVE TypeInv'
  <2>1. rbuf \in Buffers /\ nextNum \in 1..MaxPkts
    BY <1>3, PoolAssumption DEF ReadFromUDP, TypeOK
  <2>2. ritem' \in Items /\ ritem' # NoItem /\ nextNum' \in 1..(MaxPkts + 1)
    BY <1>3, <2>1, ItemFields, PoolAssumption DEF ReadFromUDP, Items
  <2>3. QED
    BY <1>3, <2>2 DEF ReadFromUDP, TypeOK
<1>4. CASE ReadFails
  BY <1>4, PoolAssumption DEF ReadFails, TypeOK
<1>5. CASE Submit
  <2> DEFINE s == ShardOf[ritem.addr]
  <2>1. ritem \in Items /\ s \in Shards
    BY <1>5, ItemFields, PoolAssumption DEF Submit, TypeOK
  <2>2. Append(queues[s], ritem) \in Seq(Items) /\ Len(Append(queues[s], ritem)) <= QueueCap
    BY <1>5, <2>1, AppendProperties, LenProperties, PoolAssumption DEF Submit, TypeOK
  <2>3. /\ queues' \in [Shards -> Seq(Items)]
        /\ \A t \in Shards : Len(queues'[t]) <= QueueCap
    BY <1>5, <2>1, <2>2 DEF Submit, TypeOK
  <2>4. QED
    BY <1>5, <2>3 DEF Submit, Submitted, TypeOK
<1>6. CASE SubmitFull
  <2>1. ritem \in Items /\ ShardOf[ritem.addr] \in Shards /\ ritem.buf \in Buffers
    BY <1>6, ItemFields, PoolAssumption DEF SubmitFull, TypeOK
  <2>2. QED
    BY <1>6, <2>1 DEF SubmitFull, Submitted, TypeOK
<1>7. CASE SubmitClosed
  BY <1>7 DEF SubmitClosed, TypeOK
<1>8. CASE MainReturns
  BY <1>8 DEF MainReturns, TypeOK
<1>9. ASSUME NEW s \in Shards, Receive(s) PROVE TypeInv'
  <2>1. Head(queues[s]) \in Items /\ Tail(queues[s]) \in Seq(Items)
        /\ Len(Tail(queues[s])) <= QueueCap
    BY <1>9, HeadTailProperties, LenProperties, PoolAssumption DEF Receive, TypeOK
  <2>2. Head(queues[s]).addr \in Addrs /\ Head(queues[s]).num \in 1..MaxPkts
        /\ Head(queues[s]) # NoItem
    BY <2>1, ItemFields
  <2>3. Append(started[Head(queues[s]).addr], Head(queues[s]).num) \in Seq(1..MaxPkts)
    BY <2>2, AppendProperties DEF TypeOK
  <2>4. /\ queues' \in [Shards -> Seq(Items)]
        /\ \A t \in Shards : Len(queues'[t]) <= QueueCap
    BY <1>9, <2>1 DEF Receive, TypeOK
  <2>5. started' \in [Addrs -> Seq(1..MaxPkts)]
    BY <1>9, <2>2, <2>3 DEF Receive, TypeOK
  <2>6. QED
    BY <1>9, <2>1, <2>2, <2>4, <2>5 DEF Receive, TypeOK
<1>10. ASSUME NEW s \in Shards, Handled(s) PROVE TypeInv'
  <2>1. item[s].buf \in Buffers
    BY <1>10, ItemFields DEF Handled, TypeOK
  <2>2. QED
    BY <1>10, <2>1 DEF Handled, TypeOK
<1>11. ASSUME NEW s \in Shards, WorkerExits(s) PROVE TypeInv'
  BY <1>11 DEF WorkerExits, TypeOK
<1>12. CASE Cancel \/ CloseListener \/ CloseQueue \/ QueuesClosed \/ Wait \/ Sweep
  BY <1>12 DEF Cancel, CloseListener, CloseQueue, QueuesClosed, Wait, Sweep, TypeOK
<1>13. CASE UNCHANGED vars
  BY <1>13 DEF vars, TypeOK
<1>14. QED
  BY <1>1, <1>2, <1>3, <1>4, <1>5, <1>6, <1>7, <1>8, <1>9, <1>10, <1>11, <1>12, <1>13
     DEF Next, RunStep, WorkerStep, StopStep

\* The type invariant, with what Run and the workers hold at each label.
LEMMA AlwaysTyped == Spec => []TypeInv
  BY TypeInit, TypeStep, PTL DEF Spec

-----------------------------------------------------------------------------
(* The drain.                                                              *)

\* A worker leaves only for good: its queue is closed and empty.  Stop waits
\* for all of them after it has closed all queues.
DrainInv ==
  /\ \A s \in Shards : worker[s] = "exited" => s \in closed /\ queues[s] = <<>>
  /\ stop \in {"waiting", "sweeping", "done"} => closed = Shards
  /\ stop \in {"sweeping", "done"} => \A s \in Shards : worker[s] = "exited"

LEMMA DrainStep == TypeInv /\ DrainInv /\ [Next]_vars => DrainInv'
<1> SUFFICES ASSUME TypeInv, DrainInv, [Next]_vars PROVE DrainInv'
  OBVIOUS
<1> USE DEF TypeInv, TypeOK, DrainInv, channels, reader, workers
<1>1. CASE GetBuffer \/ RunReturns \/ ReadFails \/ SubmitFull \/ SubmitClosed \/ MainReturns
           \/ \E a \in Addrs : ReadFromUDP(a)
  BY <1>1 DEF GetBuffer, RunReturns, ReadFails, SubmitFull, SubmitClosed, MainReturns,
              ReadFromUDP, Submitted
<1>2. CASE Submit
  BY <1>2 DEF Submit, Submitted
<1>3. ASSUME NEW s \in Shards, WorkerStep(s) PROVE DrainInv'
  BY <1>3 DEF WorkerStep, Receive, Handled, WorkerExits
<1>4. CASE Cancel \/ StopStep
  BY <1>4 DEF Cancel, StopStep, CloseListener, CloseQueue, QueuesClosed, Wait, Sweep
<1>5. CASE UNCHANGED vars
  BY <1>5 DEF vars
<1>6. QED
  BY <1>1, <1>2, <1>3, <1>4, <1>5 DEF Next, RunStep

\* Proxy.Stop touches the sessions only when no packet is queued or being
\* handled.
THEOREM DrainSafe == Spec => []SweepAfterDrain
<1>1. Init => DrainInv
  BY DEF Init, DrainInv
<1>2. TypeInv /\ DrainInv => SweepAfterDrain
  BY DEF TypeInv, TypeOK, Hands, DrainInv, SweepAfterDrain
<1>3. QED
  BY <1>1, <1>2, DrainStep, AlwaysTyped, PTL DEF Spec

-----------------------------------------------------------------------------
(* The order of a client's packets.                                        *)

\* Items wait and are handled on the shard of their client.
OwnShard ==
  \A s \in Shards :
    /\ \A i \in 1..Len(queues[s]) : ShardOf[queues[s][i].addr] = s
    /\ item[s] # NoItem => ShardOf[item[s].addr] = s

\* Datagrams are numbered as read: what has begun, what is queued and what
\* Run is about to submit follow each other.
Numbered ==
  /\ ritem # NoItem => ritem.num < nextNum
  /\ \A s \in Shards : \A i \in 1..Len(queues[s]) :
       /\ queues[s][i].num < nextNum
       /\ ritem # NoItem => queues[s][i].num < ritem.num
       /\ \A j \in 1..Len(queues[s]) : i < j => queues[s][i].num < queues[s][j].num
  /\ \A a \in Addrs : \A k \in 1..Len(started[a]) :
       /\ started[a][k] < nextNum
       /\ ritem # NoItem => started[a][k] < ritem.num
       /\ \A s \in Shards : \A i \in 1..Len(queues[s]) :
            queues[s][i].addr = a => started[a][k] < queues[s][i].num
       /\ \A j \in 1..Len(started[a]) : k < j => started[a][k] < started[a][j]

\* What Submit does to the queues: the client's grows by ritem.
LEMMA SubmitEffect ==
  ASSUME TypeInv, Submit
  PROVE  /\ ritem \in Items /\ ritem # NoItem /\ ShardOf[ritem.addr] \in Shards
         /\ \A t \in Shards : t # ShardOf[ritem.addr] => queues'[t] = queues[t]
         /\ LET s == ShardOf[ritem.addr]
            IN  /\ Len(queues[s]) \in Nat /\ Len(queues[s]) < QueueCap
                /\ Len(queues'[s]) = Len(queues[s]) + 1
                /\ \A i \in 1..Len(queues[s]) : queues'[s][i] = queues[s][i]
                /\ queues'[s][Len(queues[s]) + 1] = ritem
<1> DEFINE s == ShardOf[ritem.addr]
<1>1. ritem \in Items /\ ritem # NoItem /\ s \in Shards
  BY ItemFields, PoolAssumption DEF Submit, TypeInv, TypeOK, Hands
<1>2. queues' = [queues EXCEPT ![s] = Append(queues[s], ritem)]
  BY DEF Submit
<1>3. queues'[s] = Append(queues[s], ritem) /\ \A t \in Shards : t # s => queues'[t] = queues[t]
  BY <1>1, <1>2 DEF TypeInv, TypeOK
<1>4. queues[s] \in Seq(Items) /\ Len(queues[s]) < QueueCap
  BY <1>1 DEF Submit, TypeInv, TypeOK
<1>5. /\ Len(queues[s]) \in Nat
      /\ Len(queues'[s]) = Len(queues[s]) + 1
      /\ \A i \in 1..Len(queues[s]) : queues'[s][i] = queues[s][i]
      /\ queues'[s][Len(queues[s]) + 1] = ritem
  BY <1>1, <1>3, <1>4, AppendProperties, LenProperties
<1>6. QED
  BY <1>1, <1>3, <1>4, <1>5

\* What Receive does to the queues: the shard's loses its first item.
LEMMA ReceiveEffect ==
  ASSUME TypeInv, NEW s \in Shards, Receive(s)
  PROVE  /\ Len(queues[s]) \in Nat \ {0}
         /\ \A t \in Shards : t # s => queues'[t] = queues[t] /\ item'[t] = item[t]
         /\ Len(queues'[s]) = Len(queues[s]) - 1
         /\ \A i \in 1..Len(queues'[s]) : queues'[s][i] = queues[s][i + 1]
         /\ item'[s] = queues[s][1] /\ item'[s] \in Items /\ item'[s] # NoItem
         /\ item[s] = NoItem
<1>1. queues[s] \in Seq(Items) /\ queues[s] # <<>>
  BY DEF Receive, TypeInv, TypeOK
<1>2. queues'[s] = Tail(queues[s]) /\ \A t \in Shards : t # s => queues'[t] = queues[t]
  BY DEF Receive, TypeInv, TypeOK
<1>3. item'[s] = Head(queues[s]) /\ \A t \in Shards : t # s => item'[t] = item[t]
  BY DEF Receive, TypeInv, TypeOK
<1>4. /\ Len(queues'[s]) = Len(queues[s]) - 1
      /\ \A i \in 1..Len(queues'[s]) : queues'[s][i] = queues[s][i + 1]
      /\ Head(queues[s]) \in Items
  BY <1>1, <1>2, HeadTailProperties
<1>5. Len(queues[s]) \in Nat \ {0} /\ Head(queues[s]) = queues[s][1]
  BY <1>1, EmptySeq, SMTT(30)
<1>6. Head(queues[s]) # NoItem
  BY <1>4, ItemFields, SMTT(30)
<1>7. item[s] = NoItem
  BY SMTT(30) DEF Receive, TypeInv, Hands
<1>8. QED
  BY <1>2, <1>3, <1>4, <1>5, <1>6, <1>7

\* The item that comes out of a queue enters the history of its client.
LEMMA ReceiveHistory ==
  ASSUME TypeInv, NEW s \in Shards, Receive(s)
  PROVE  LET h == queues[s][1]
         IN  /\ h.addr \in Addrs /\ h.num \in 1..MaxPkts
             /\ \A a \in Addrs : a # h.addr => started'[a] = started[a]
             /\ Len(started[h.addr]) \in Nat
             /\ Len(started'[h.addr]) = Len(started[h.addr]) + 1
             /\ \A i \in 1..Len(started[h.addr]) : started'[h.addr][i] = started[h.addr][i]
             /\ started'[h.addr][Len(started[h.addr]) + 1] = h.num
<1> DEFINE h == queues[s][1]
<1>1. h \in Items /\ h = Head(queues[s])
  BY ReceiveEffect
<1>2. h.addr \in Addrs /\ h.num \in 1..MaxPkts
  BY <1>1, ItemFields
<1>3. started' = [started EXCEPT ![h.addr] = Append(started[h.addr], h.num)]
  BY <1>1 DEF Receive
<1>4. started[h.addr] \in Seq(1..MaxPkts)
  BY <1>2 DEF TypeInv, TypeOK
<1>5. /\ started'[h.addr] = Append(started[h.addr], h.num)
      /\ \A a \in Addrs : a # h.addr => started'[a] = started[a]
  BY <1>2, <1>3 DEF TypeInv, TypeOK
<1>6. QED
  BY <1>2, <1>4, <1>5, AppendProperties, LenProperties

LEMMA OwnShardStep == TypeInv /\ OwnShard /\ [Next]_vars => OwnShard'
<1> SUFFICES ASSUME TypeInv, OwnShard, [Next]_vars PROVE OwnShard'
  OBVIOUS
<1>1. CASE Submit
  BY <1>1, SubmitEffect DEF OwnShard, Submit, Submitted, workers
<1>2. ASSUME NEW s \in Shards, Receive(s) PROVE OwnShard'
  <2>1. \A i \in 1..Len(queues'[s]) : i + 1 \in 1..Len(queues[s])
    BY <1>2, ReceiveEffect
  <2>2. 1 \in 1..Len(queues[s])
    BY <1>2, ReceiveEffect
  <2>3. ASSUME NEW t \in Shards
        PROVE  /\ \A i \in 1..Len(queues'[t]) : ShardOf[queues'[t][i].addr] = t
               /\ item'[t] # NoItem => ShardOf[item'[t].addr] = t
    <3>1. CASE t = s
      BY <1>2, <2>1, <2>2, <3>1, ReceiveEffect, SMTT(30) DEF OwnShard
    <3>2. CASE t # s
      BY <1>2, <3>2, ReceiveEffect DEF OwnShard
    <3>3. QED
      BY <3>1, <3>2
  <2>4. QED
    BY <2>3 DEF OwnShard
<1>3. ASSUME NEW s \in Shards, Handled(s) PROVE OwnShard'
  BY <1>3 DEF Handled, OwnShard, TypeInv, TypeOK, channels
<1>4. CASE UNCHANGED <<queues, item>>
  BY <1>4 DEF OwnShard
<1>5. QED
  BY <1>1, <1>2, <1>3, <1>4
     DEF Next, RunStep, WorkerStep, StopStep, GetBuffer, RunReturns, ReadFails, ReadFromUDP,
         SubmitFull, SubmitClosed, Submitted, MainReturns, WorkerExits, Cancel, CloseListener,
         CloseQueue, QueuesClosed, Wait, Sweep, vars, channels, reader, workers

LEMMA NumberedStep == TypeInv /\ OwnShard /\ Numbered /\ [Next]_vars => Numbered'
<1> SUFFICES ASSUME TypeInv, OwnShard, Numbered, [Next]_vars PROVE Numbered'
  OBVIOUS
<1>n. /\ nextNum \in Nat
      /\ \A s \in Shards : \A i \in 1..Len(queues[s]) : queues[s][i].num \in Nat
      /\ \A a \in Addrs : \A k \in 1..Len(started[a]) : started[a][k] \in Nat
      /\ \A s \in Shards : Len(queues[s]) \in Nat
      /\ \A a \in Addrs : Len(started[a]) \in Nat
  BY ItemFields, ElementOfSeq, LenProperties, PoolAssumption, SMTT(30) DEF TypeInv, TypeOK
<1>1. ASSUME NEW a \in Addrs, ReadFromUDP(a) PROVE Numbered'
  <2>1. ritem' # NoItem /\ ritem'.num = nextNum /\ nextNum' = nextNum + 1
    <3>1. ritem'.num = nextNum /\ nextNum' = nextNum + 1
      BY <1>1 DEF ReadFromUDP
    <3>2. QED
      BY <3>1, <1>n DEF NoItem, TypeInv, TypeOK
  <2>2. UNCHANGED <<queues, started>>
    BY <1>1 DEF ReadFromUDP, channels, workers
  <2>3. QED
    BY <1>n, <2>1, <2>2, SMTT(30) DEF Numbered
<1>2. CASE Submit
  <2>1. ritem' = NoItem /\ UNCHANGED <<started, nextNum>>
    BY <1>2 DEF Submit, Submitted, workers
  <2>2. ASSUME NEW t \in Shards, NEW i \in 1..Len(queues'[t])
        PROVE  \/ i \in 1..Len(queues[t]) /\ queues'[t][i] = queues[t][i]
               \/ /\ t = ShardOf[ritem.addr]
                  /\ i = Len(queues[t]) + 1 /\ queues'[t][i] = ritem
    BY <1>2, <1>n, SubmitEffect, SMTT(30)
  <2>3. ritem # NoItem
    BY <1>2, SubmitEffect
  <2>4. ASSUME NEW t \in Shards, NEW i \in 1..Len(queues'[t]) PROVE queues'[t][i].num < nextNum
    BY <2>2, <2>3, <2>4 DEF Numbered
  <2>5. ASSUME NEW t \in Shards, NEW i \in 1..Len(queues'[t]), NEW j \in 1..Len(queues'[t]), i < j
        PROVE  queues'[t][i].num < queues'[t][j].num
    <3>1. i \in 1..Len(queues[t]) /\ queues'[t][i] = queues[t][i]
      BY <1>n, <2>2, <2>5
    <3>2. QED
      BY <2>2, <2>3, <2>5, <3>1 DEF Numbered
  <2>6. ASSUME NEW a \in Addrs, NEW k \in 1..Len(started[a]),
               NEW t \in Shards, NEW i \in 1..Len(queues'[t]), queues'[t][i].addr = a
        PROVE  started[a][k] < queues'[t][i].num
    BY <2>2, <2>3, <2>6 DEF Numbered
  <2>7. QED
    BY <2>1, <2>4, <2>5, <2>6 DEF Numbered
<1>3. ASSUME NEW s \in Shards, Receive(s) PROVE Numbered'
  <2>1. UNCHANGED <<ritem, nextNum>>
    BY <1>3 DEF Receive, reader
  <2> DEFINE h == queues[s][1]
  <2>2. ASSUME NEW t \in Shards, NEW i \in 1..Len(queues'[t])
        PROVE  \E m \in 1..Len(queues[t]) :
                 m >= i /\ (t = s => m = i + 1) /\ (t # s => m = i) /\ queues'[t][i] = queues[t][m]
    <3>1. CASE t = s
      <4>1. i + 1 \in 1..Len(queues[s]) /\ queues'[s][i] = queues[s][i + 1]
        BY <1>3, <3>1, ReceiveEffect
      <4>2. QED
        BY <3>1, <4>1
    <3>2. CASE t # s
      BY <1>3, <3>2, ReceiveEffect
    <3>3. QED
      BY <3>1, <3>2
  <2>3. 1 \in 1..Len(queues[s])
    BY <1>3, ReceiveEffect
  <2>4. ASSUME NEW a \in Addrs, NEW k \in 1..Len(started'[a])
        PROVE  \/ k \in 1..Len(started[a]) /\ started'[a][k] = started[a][k]
               \/ a = h.addr /\ k = Len(started[a]) + 1 /\ started'[a][k] = h.num
    <3>1. CASE a = h.addr
      <4>1. /\ Len(started[a]) \in Nat /\ Len(started'[a]) = Len(started[a]) + 1
            /\ \A i \in 1..Len(started[a]) : started'[a][i] = started[a][i]
            /\ started'[a][Len(started[a]) + 1] = h.num
        BY <1>3, <3>1, ReceiveHistory
      <4>2. k \in 1..Len(started[a]) \/ k = Len(started[a]) + 1
        BY <4>1
      <4> HIDE DEF h
      <4>3. QED
        BY <3>1, <4>1, <4>2
    <3>2. CASE a # h.addr
      BY <1>3, <3>2, ReceiveHistory
    <3>3. QED
      BY <3>1, <3>2
  <2>5. ASSUME NEW t \in Shards, NEW i \in 1..Len(queues'[t])
        PROVE  /\ queues'[t][i].num < nextNum
               /\ ritem # NoItem => queues'[t][i].num < ritem.num
    BY <2>2, SMTT(30) DEF Numbered
  <2>6. ASSUME NEW t \in Shards, NEW i \in 1..Len(queues'[t]), NEW j \in 1..Len(queues'[t]), i < j
        PROVE  queues'[t][i].num < queues'[t][j].num
    <3>1. PICK m \in 1..Len(queues[t]) : (t = s => m = i + 1) /\ (t # s => m = i)
                                         /\ queues'[t][i] = queues[t][m]
      BY <2>2
    <3>2. PICK n \in 1..Len(queues[t]) : (t = s => n = j + 1) /\ (t # s => n = j)
                                         /\ queues'[t][j] = queues[t][n]
      BY <2>2
    <3>3. m < n
      BY <2>6, <3>1, <3>2
    <3>4. QED
      BY <3>1, <3>2, <3>3 DEF Numbered
  <2>7. ASSUME NEW a \in Addrs, NEW k \in 1..Len(started'[a])
        PROVE  /\ started'[a][k] < nextNum
               /\ ritem # NoItem => started'[a][k] < ritem.num
    BY <2>3, <2>4, <2>7 DEF Numbered
  <2>8. ASSUME NEW a \in Addrs, NEW k \in 1..Len(started'[a]),
               NEW t \in Shards, NEW i \in 1..Len(queues'[t]), queues'[t][i].addr = a
        PROVE  started'[a][k] < queues'[t][i].num
    <3>1. PICK m \in 1..Len(queues[t]) : (t = s => m = i + 1) /\ queues'[t][i] = queues[t][m]
      BY <2>2
    <3>2. CASE k \in 1..Len(started[a]) /\ started'[a][k] = started[a][k]
      BY <2>8, <3>1, <3>2 DEF Numbered
    <3>3. CASE a = h.addr /\ started'[a][k] = h.num
      <4>1. t = s
        BY <2>3, <2>8, <3>1, <3>3 DEF OwnShard
      <4>2. 1 < m
        BY <3>1, <4>1
      <4>3. QED
        BY <2>3, <3>1, <3>3, <4>1, <4>2 DEF Numbered
    <3>4. QED
      BY <2>4, <3>2, <3>3
  <2>9. ASSUME NEW a \in Addrs, NEW k \in 1..Len(started'[a]), NEW j \in 1..Len(started'[a]), k < j
        PROVE  started'[a][k] < started'[a][j]
    <3>1. k \in 1..Len(started[a]) /\ started'[a][k] = started[a][k]
      BY <1>n, <2>4, <2>9
    <3>2. CASE j \in 1..Len(started[a]) /\ started'[a][j] = started[a][j]
      BY <2>9, <3>1, <3>2 DEF Numbered
    <3>3. CASE a = h.addr /\ started'[a][j] = h.num
      BY <2>3, <3>1, <3>3 DEF Numbered
    <3>4. QED
      BY <2>4, <3>2, <3>3
  <2>10. QED
    BY <2>1, <2>5, <2>6, <2>7, <2>8, <2>9 DEF Numbered
<1>4. CASE UNCHANGED <<queues, started, nextNum>> /\ (ritem' = ritem \/ ritem' = NoItem)
  BY <1>4 DEF Numbered
<1>5. QED
  BY <1>1, <1>2, <1>3, <1>4
     DEF Next, RunStep, WorkerStep, StopStep, GetBuffer, RunReturns, ReadFails,
         SubmitFull, SubmitClosed, Submitted, MainReturns, Handled, WorkerExits, Cancel,
         CloseListener, CloseQueue, QueuesClosed, Wait, Sweep, vars, channels, reader, workers

\* The packets of a client are handled one at a time and in the order they
\* were read, whatever the hash function and the other shards do.
THEOREM SerialSafe == Spec => []SerialPerClient
<1>1. Init => OwnShard /\ Numbered
  BY DEF Init, OwnShard, Numbered
<1>2. TypeInv /\ OwnShard /\ Numbered => SerialPerClient
  <2> SUFFICES ASSUME TypeInv, OwnShard, Numbered, NEW a \in Addrs
               PROVE  /\ \A i, j \in 1..Len(started[a]) : i < j => started[a][i] < started[a][j]
                      /\ Cardinality({s \in Shards : item[s] # NoItem /\ item[s].addr = a}) <= 1
    BY DEF SerialPerClient
  <2> DEFINE S == {s \in Shards : item[s] # NoItem /\ item[s].addr = a}
  <2>1. S \in SUBSET {ShardOf[a]}
    BY DEF OwnShard
  <2>2. Cardinality(S) <= 1
    <3> HIDE DEF S
    <3>1. IsFiniteSet({ShardOf[a]}) /\ Cardinality({ShardOf[a]}) = 1
      BY FS_Singleton
    <3>2. QED
      BY <2>1, <3>1, FS_Subset
  <2>3. QED
    BY <2>2 DEF Numbered
<1>3. QED
  BY <1>1, <1>2, OwnShardStep, NumberedStep, AlwaysTyped, PTL DEF Spec

-----------------------------------------------------------------------------
(* The owners of a buffer.                                                 *)

InRun(b) == rbuf = b \/ (ritem # NoItem /\ ritem.buf = b)
InHand(b, s) == item[s] # NoItem /\ item[s].buf = b
InQueue(b, s, i) == i <= Len(queues[s]) /\ queues[s][i].buf = b

\* Some owner, and no two of them: the form of BufferOwnedOnce in which it
\* can be followed step by step.
Owned ==
  \A b \in Buffers :
    \/ b \in pool \/ InRun(b)
    \/ \E s \in Shards : InHand(b, s) \/ \E i \in 1..QueueCap : InQueue(b, s, i)

Exclusive ==
  \A b \in Buffers :
    /\ b \in pool => ~InRun(b)
    /\ \A s \in Shards : InHand(b, s) => /\ b \notin pool /\ ~InRun(b)
                                        /\ \A t \in Shards : InHand(b, t) => s = t
    /\ \A s \in Shards : \A i \in 1..QueueCap : InQueue(b, s, i) =>
         /\ b \notin pool /\ ~InRun(b)
         /\ \A t \in Shards : ~InHand(b, t)
         /\ \A t \in Shards : \A j \in 1..QueueCap : InQueue(b, t, j) => s = t /\ i = j

\* Steps that neither queue nor take a packet move a buffer between the pool
\* and Run, or from a worker to the pool.
LEMMA OwnersKept ==
  ASSUME UNCHANGED <<queues, item>>, NEW b \in Buffers, NEW s \in Shards
  PROVE  /\ InHand(b, s)' <=> InHand(b, s)
         /\ \A i \in 1..QueueCap : InQueue(b, s, i)' <=> InQueue(b, s, i)
BY DEF InHand, InQueue

LEMMA OwnedStep == TypeInv /\ Owned /\ Exclusive /\ [Next]_vars => Owned' /\ Exclusive'
<1> SUFFICES ASSUME TypeInv, Owned, Exclusive, [Next]_vars PROVE Owned' /\ Exclusive'
  OBVIOUS
<1>1. CASE GetBuffer
  <2>1. PICK b0 \in pool : rbuf' = b0 /\ pool' = pool \ {b0}
    BY <1>1 DEF GetBuffer
  <2>2. UNCHANGED <<queues, item>> /\ ritem = NoItem /\ ritem' = NoItem /\ rbuf = NoBuffer
    BY <1>1 DEF GetBuffer, TypeInv, Hands, channels, workers
  <2>3. \A b \in Buffers : InRun(b)' <=> b = b0
    BY <2>1, <2>2 DEF InRun
  <2>4. \A b \in Buffers : ~InRun(b)
    BY <2>2, PoolAssumption DEF InRun
  <2>5. QED
    BY <2>1, <2>2, <2>3, <2>4, OwnersKept DEF Owned, Exclusive
<1>2. ASSUME NEW a \in Addrs, ReadFromUDP(a) PROVE Owned' /\ Exclusive'
  <2>1. UNCHANGED <<queues, item, pool>> /\ ritem = NoItem /\ rbuf \in Buffers
    BY <1>2 DEF ReadFromUDP, TypeInv, TypeOK, Hands, channels, workers
  <2>2. ritem' # NoItem /\ ritem'.buf = rbuf /\ rbuf' = NoBuffer
    <3>1. ritem' = [num |-> nextNum, addr |-> a, buf |-> rbuf] /\ nextNum > 0
      BY <1>2 DEF ReadFromUDP, TypeInv, TypeOK
    <3>2. ritem'.num # NoItem.num
      BY <3>1 DEF NoItem
    <3>3. QED
      BY <1>2, <3>1, <3>2 DEF ReadFromUDP
  <2>3. \A b \in Buffers : InRun(b)' <=> InRun(b)
    BY <2>1, <2>2, PoolAssumption DEF InRun
  <2>4. QED
    BY <2>1, <2>3, OwnersKept DEF Owned, Exclusive
<1>3. CASE ReadFails
  <2>1. UNCHANGED <<queues, item>> /\ ritem = NoItem /\ ritem' = NoItem /\ rbuf \in Buffers
    BY <1>3 DEF ReadFails, TypeInv, TypeOK, Hands, channels, workers
  <2>2. pool' = pool \cup {rbuf} /\ rbuf' = NoBuffer
    BY <1>3 DEF ReadFails
  <2>3. \A b \in Buffers : ~InRun(b)' /\ (InRun(b) <=> b = rbuf)
    BY <2>1, <2>2, PoolAssumption DEF InRun
  <2>4. QED
    BY <2>1, <2>2, <2>3, OwnersKept DEF Owned, Exclusive
<1>4. CASE SubmitFull
  <2>1. UNCHANGED <<queues, item, rbuf>> /\ ritem \in Items /\ ritem # NoItem /\ rbuf = NoBuffer
    BY <1>4 DEF SubmitFull, Submitted, TypeInv, TypeOK, Hands, workers
  <2>2. pool' = pool \cup {ritem.buf} /\ ritem' = NoItem
    BY <1>4 DEF SubmitFull, Submitted
  <2>3. \A b \in Buffers : ~InRun(b)' /\ (InRun(b) <=> b = ritem.buf)
    BY <2>1, <2>2, PoolAssumption DEF InRun
  <2>4. QED
    BY <2>1, <2>2, <2>3, OwnersKept DEF Owned, Exclusive
<1>5. ASSUME NEW s \in Shards, Handled(s) PROVE Owned' /\ Exclusive'
  <2>1. UNCHANGED <<queues, ritem, rbuf>> /\ item[s] # NoItem
    BY <1>5 DEF Handled, TypeInv, Hands, channels, reader
  <2>2. pool' = pool \cup {item[s].buf} /\ item' = [item EXCEPT ![s] = NoItem]
    BY <1>5 DEF Handled
  <2>3. \A b \in Buffers : InRun(b)' <=> InRun(b)
    BY <2>1 DEF InRun
  <2>4. \A b \in Buffers, t \in Shards : InHand(b, t)' <=> t # s /\ InHand(b, t)
    BY <2>2 DEF InHand, TypeInv, TypeOK
  <2>5. \A b \in Buffers : b = item[s].buf <=> InHand(b, s)
    BY <2>1 DEF InHand
  <2>6. \A b \in Buffers, t \in Shards : \A i \in 1..QueueCap : InQueue(b, t, i)' <=> InQueue(b, t, i)
    BY <2>1 DEF InQueue
  <2>7. Owned'
    BY <2>2, <2>3, <2>4, <2>5, <2>6 DEF Owned
  <2>8. QED
    BY <2>2, <2>3, <2>4, <2>5, <2>6, <2>7 DEF Exclusive
<1>6. CASE Submit
  <2> DEFINE s == ShardOf[ritem.addr]
             n == Len(queues[s]) + 1
  <2>1. /\ s \in Shards /\ n \in 1..QueueCap
        /\ ritem # NoItem
    BY <1>6, SubmitEffect, PoolAssumption
  <2>2. UNCHANGED <<item, rbuf, pool>> /\ ritem' = NoItem /\ rbuf = NoBuffer
    BY <1>6 DEF Submit, Submitted, TypeInv, Hands, workers
  <2>3. \A b \in Buffers : ~InRun(b)' /\ (InRun(b) <=> b = ritem.buf)
    BY <2>1, <2>2, PoolAssumption DEF InRun
  <2>4. \A b \in Buffers, t \in Shards : InHand(b, t)' <=> InHand(b, t)
    BY <2>2 DEF InHand
  <2>5. ASSUME NEW b \in Buffers, NEW t \in Shards, NEW i \in 1..QueueCap
        PROVE  InQueue(b, t, i)' <=> InQueue(b, t, i) \/ (t = s /\ i = n /\ InRun(b))
    <3>1. CASE t # s
      BY <1>6, <3>1, SubmitEffect DEF InQueue
    <3>2. CASE t = s
      <4>1. /\ Len(queues[s]) \in Nat /\ Len(queues'[s]) = Len(queues[s]) + 1
            /\ \A j \in 1..Len(queues[s]) : queues'[s][j] = queues[s][j]
            /\ queues'[s][Len(queues[s]) + 1] = ritem
        BY <1>6, SubmitEffect
      <4>2. QED
        BY <2>3, <3>2, <4>1, SMTT(30) DEF InQueue
    <3>3. QED
      BY <3>1, <3>2
  <2>6. \A b \in Buffers : ~InQueue(b, s, n)
    BY <1>6, SubmitEffect DEF InQueue
  <2> HIDE DEF s, n
  <2>7. Owned'
    BY <2>1, <2>2, <2>3, <2>4, <2>5 DEF Owned
  <2>8. Exclusive'
    BY <2>1, <2>2, <2>3, <2>4, <2>5, <2>6 DEF Exclusive
  <2>9. QED
    BY <2>7, <2>8
<1>7. ASSUME NEW s \in Shards, Receive(s) PROVE Owned' /\ Exclusive'
  <2>1. UNCHANGED <<pool, rbuf, ritem>>
    BY <1>7 DEF Receive, reader
  <2>2. \A b \in Buffers : InRun(b)' <=> InRun(b)
    BY <2>1 DEF InRun
  <2>3. Len(queues[s]) \in 1..QueueCap /\ QueueCap \in Nat /\ 1 \in 1..QueueCap
    BY <1>7, ReceiveEffect, PoolAssumption DEF TypeInv, TypeOK
  <2>4. \A b \in Buffers : ~InHand(b, s)
    BY <1>7, ReceiveEffect DEF InHand
  <2>5. ASSUME NEW b \in Buffers, NEW t \in Shards
        PROVE  InHand(b, t)' <=> IF t = s THEN InQueue(b, s, 1) ELSE InHand(b, t)
    BY <1>7, <2>3, ReceiveEffect DEF InHand, InQueue
  <2>6. ASSUME NEW b \in Buffers, NEW t \in Shards, NEW i \in 1..QueueCap, t # s
        PROVE  InQueue(b, t, i)' <=> InQueue(b, t, i)
    BY <1>7, <2>6, ReceiveEffect DEF InQueue
  <2>7. ASSUME NEW b \in Buffers, NEW i \in 1..QueueCap
        PROVE  InQueue(b, s, i)' <=> i + 1 \in 1..QueueCap /\ InQueue(b, s, i + 1)
    BY <1>7, <2>3, ReceiveEffect DEF InQueue
  <2>8. Owned'
    <3> SUFFICES ASSUME NEW b \in Buffers, ~(b \in pool \/ InRun(b)),
                        \A t \in Shards : ~InHand(b, t)'
                 PROVE  \E t \in Shards : \E i \in 1..QueueCap : InQueue(b, t, i)'
      BY <2>1, <2>2 DEF Owned
    <3>1. \A t \in Shards : ~InHand(b, t)
      BY <2>4, <2>5
    <3>2. PICK t \in Shards, i \in 1..QueueCap : InQueue(b, t, i)
      BY <3>1 DEF Owned
    <3>3. CASE t # s
      BY <2>6, <3>2, <3>3
    <3>4. CASE t = s
      <4>1. i # 1
        BY <2>5, <3>2, <3>4
      <4>2. i - 1 \in 1..QueueCap /\ (i - 1) + 1 = i
        BY <2>3, <4>1
      <4>3. QED
        BY <2>7, <3>2, <3>4, <4>2
    <3>5. QED
      BY <3>3, <3>4
  <2>9. ASSUME NEW b \in Buffers, NEW t \in Shards, InHand(b, t)'
        PROVE  b \notin pool /\ ~InRun(b) /\ \A u \in Shards : InHand(b, u)' => t = u
    BY <2>3, <2>4, <2>5, <2>9 DEF Exclusive
  <2>10. ASSUME NEW b \in Buffers, NEW t \in Shards, NEW i \in 1..QueueCap, InQueue(b, t, i)'
         PROVE  \E m \in 1..QueueCap : (IF t = s THEN m = i + 1 ELSE m = i) /\ InQueue(b, t, m)
    BY <2>6, <2>7, <2>10
  <2>11. ASSUME NEW b \in Buffers, NEW t \in Shards, NEW i \in 1..QueueCap, InQueue(b, t, i)'
         PROVE  /\ b \notin pool /\ ~InRun(b)
                /\ \A u \in Shards : ~InHand(b, u)'
                /\ \A u \in Shards : \A j \in 1..QueueCap : InQueue(b, u, j)' => t = u /\ i = j
    <3>1. PICK m \in 1..QueueCap : (IF t = s THEN m = i + 1 ELSE m = i) /\ InQueue(b, t, m)
      BY <2>10, <2>11
    <3>2. b \notin pool /\ ~InRun(b)
      BY <3>1 DEF Exclusive
    <3>3. ASSUME NEW u \in Shards PROVE ~InHand(b, u)'
      <4>1. CASE u # s
        BY <2>5, <3>1, <4>1 DEF Exclusive
      <4>2. CASE u = s
        <5>1. ~InQueue(b, s, 1)
          BY <2>3, <3>1 DEF Exclusive
        <5>2. QED
          BY <2>5, <4>2, <5>1
      <4>3. QED
        BY <4>1, <4>2
    <3>4. ASSUME NEW u \in Shards, NEW j \in 1..QueueCap, InQueue(b, u, j)' PROVE t = u /\ i = j
      <4>1. PICK k \in 1..QueueCap : (IF u = s THEN k = j + 1 ELSE k = j) /\ InQueue(b, u, k)
        BY <2>10, <3>4
      <4>2. t = u /\ m = k
        BY <3>1, <4>1 DEF Exclusive
      <4>3. QED
        BY <3>1, <4>1, <4>2
    <3>5. QED
      BY <3>2, <3>3, <3>4
  <2>12. Exclusive'
    BY <2>1, <2>2, <2>9, <2>11 DEF Exclusive
  <2>13. QED
    BY <2>8, <2>12
<1>8. CASE UNCHANGED <<queues, item, pool, rbuf, ritem>>
  <2>1. \A b \in Buffers : InRun(b)' <=> InRun(b)
    BY <1>8 DEF InRun
  <2>2. QED
    BY <1>8, <2>1, OwnersKept DEF Owned, Exclusive
<1>9. QED
  BY <1>1, <1>2, <1>3, <1>4, <1>5, <1>6, <1>7, <1>8
     DEF Next, RunStep, WorkerStep, StopStep, RunReturns, SubmitClosed, MainReturns, WorkerExits,
         Cancel, CloseListener, CloseQueue, QueuesClosed, Wait, Sweep, vars, channels, reader,
         workers

\* With one owner and no second one, the owners count to one.
LEMMA OneHolder ==
  ASSUME TypeInv, Owned, Exclusive, NEW b \in Buffers
  PROVE  Holders(b) = 1
<1> DEFINE H == {s \in Shards : item[s] # NoItem /\ item[s].buf = b}
           Q == {p \in Shards \X (1..QueueCap) :
                   p[2] <= Len(queues[p[1]]) /\ queues[p[1]][p[2]].buf = b}
           inPool == IF b \in pool THEN 1 ELSE 0
           inRead == IF rbuf = b THEN 1 ELSE 0
           inItem == IF ritem # NoItem /\ ritem.buf = b THEN 1 ELSE 0
<1>h. \A s \in Shards : s \in H <=> InHand(b, s)
  BY DEF InHand
<1>q. \A p : p \in Q <=> p \in Shards \X (1..QueueCap) /\ InQueue(b, p[1], p[2])
  BY DEF InQueue
<1>e. Cardinality({}) = 0 /\ \A x : Cardinality({x}) = 1
  BY FS_EmptySet, FS_Singleton
<1>r. inRead + inItem = IF InRun(b) THEN 1 ELSE 0
  BY PoolAssumption DEF InRun, TypeInv, Hands
<1>s. H \subseteq Shards /\ Holders(b) = inPool + inRead + inItem + Cardinality(H) + Cardinality(Q)
  BY DEF Holders
<1> HIDE DEF H, Q
<1>1. CASE b \in pool \/ InRun(b)
  <2>1. H = {}
    BY <1>1, <1>h, <1>s DEF Exclusive
  <2>2. Q = {}
    <3>1. ASSUME NEW p \in Q PROVE FALSE
      <4>1. p[1] \in Shards /\ p[2] \in 1..QueueCap /\ InQueue(b, p[1], p[2])
        BY <1>q
      <4>2. QED
        BY <1>1, <4>1 DEF Exclusive
    <3>2. QED
      BY <3>1
  <2>3. inPool + inRead + inItem = 1
    BY <1>1, <1>r DEF Exclusive
  <2>4. QED
    BY <1>e, <1>s, <2>1, <2>2, <2>3
<1>2. CASE \E s \in Shards : InHand(b, s)
  <2>1. PICK s \in Shards : InHand(b, s)
    BY <1>2
  <2>2. H = {s}
    BY <2>1, <1>h, <1>s DEF Exclusive
  <2>3. Q = {}
    <3>1. ASSUME NEW p \in Q PROVE FALSE
      <4>1. p[1] \in Shards /\ p[2] \in 1..QueueCap /\ InQueue(b, p[1], p[2])
        BY <1>q
      <4>2. QED
        BY <2>1, <4>1 DEF Exclusive
    <3>2. QED
      BY <3>1
  <2>4. inPool = 0 /\ inRead = 0 /\ inItem = 0
    BY <2>1 DEF Exclusive, InRun
  <2>5. Cardinality(H) = 1 /\ Cardinality(Q) = 0
    BY <1>e, <2>2, <2>3
  <2>6. QED
    BY <1>s, <2>4, <2>5
<1>3. CASE \E s \in Shards : \E i \in 1..QueueCap : InQueue(b, s, i)
  <2>1. PICK s \in Shards, i \in 1..QueueCap : InQueue(b, s, i)
    BY <1>3
  <2>2. H = {}
    BY <2>1, <1>h, <1>s DEF Exclusive
  <2>3. Q = {<<s, i>>}
    <3>1. ASSUME NEW p \in Q PROVE p = <<s, i>>
      <4>1. p \in Shards \X (1..QueueCap) /\ InQueue(b, p[1], p[2])
        BY <1>q
      <4>2. p[1] = s /\ p[2] = i
        BY <2>1, <4>1 DEF Exclusive
      <4>3. QED
        BY <4>1, <4>2
    <3>2. <<s, i>> \in Q
      <4>1. <<s, i>> \in Shards \X (1..QueueCap) /\ <<s, i>>[1] = s /\ <<s, i>>[2] = i
        OBVIOUS
      <4>2. QED
        BY <1>q, <2>1, <4>1
    <3>3. QED
      BY <3>1, <3>2
  <2>4. inPool = 0 /\ inRead = 0 /\ inItem = 0
    BY <2>1 DEF Exclusive, InRun
  <2>5. Cardinality(H) = 0 /\ Cardinality(Q) = 1
    BY <1>e, <2>2, <2>3
  <2>6. QED
    BY <1>s, <2>4, <2>5
<1>4. QED
  BY <1>1, <1>2, <1>3 DEF Owned

\* Every buffer has exactly one owner at any time: neither leaked nor in the
\* pool while a packet in it is queued or handled.
THEOREM BufferSafe == Spec => []BufferOwnedOnce
<1>1. Init => Owned /\ Exclusive
  <2> SUFFICES ASSUME Init PROVE Owned /\ Exclusive
    OBVIOUS
  <2>1. \A b \in Buffers : b \in pool /\ ~InRun(b) /\ \A s \in Shards : ~InHand(b, s)
    BY PoolAssumption DEF Init, InRun, InHand
  <2>2. \A b \in Buffers, s \in Shards : \A i \in 1..QueueCap : ~InQueue(b, s, i)
    BY DEF Init, InQueue
  <2>3. QED
    BY <2>1, <2>2 DEF Owned, Exclusive
<1>2. TypeInv /\ Owned /\ Exclusive => BufferOwnedOnce
  BY OneHolder DEF BufferOwnedOnce, TypeInv
<1>3. QED
  BY <1>1, <1>2, OwnedStep, AlwaysTyped, PTL DEF Spec
=============================================================================
