-------------------------- MODULE BoundedMapProofs --------------------------
(***************************************************************************)
(* Assemblers implements BoundedMap: for every number of workers, DCIDs    *)
(* and slots the counter is exact and the assembler map stays within       *)
(* maxAssemblers.                                                          *)
(*                                                                         *)
(* Every step of Assemblers has one of five effects on the map, the slots  *)
(* in flight and the counter (EffectOf); each effect keeps the counter     *)
(* exact and is a step of BoundedMap.  CompleteSafe: an assembler whose    *)
(* ClientHello is complete leaves the map.                                 *)
(***************************************************************************)
EXTENDS Assemblers, FiniteSetTheorems, TLAPS

\* What the labels say about a goroutine's locals.
Ready ==
  /\ assemblers \in [Keys -> Objs \cup {NoObj}]
  /\ nextObj \in 1..(MaxObj + 1)
  /\ pc \in [Threads -> Labels]
  /\ key \in [Threads -> Keys \cup {NoKey}]
  /\ obj \in [Workers -> Objs \cup {NoObj}]
  /\ pc[Janitor] \in {"idle", "scan", "press", "sweep", "sweepPress", "uncountScan", "uncountPress"}
  /\ \A w \in Workers : pc[w] # "idle" => key[w] \in Keys
  /\ \A w \in Workers : pc[w] \in {"reserve", "insert"} => obj[w] \in Objs

Same == Present' = Present /\ InFlight' = InFlight /\ assemblerCount' = assemblerCount
Took(t) == /\ t \notin InFlight /\ InFlight' = InFlight \cup {t}
           /\ assemblerCount < Cap /\ assemblerCount' = assemblerCount + 1
           /\ Present' = Present
Filled(t) == /\ t \in InFlight /\ InFlight' = InFlight \ {t}
             /\ \E k \in Keys \ Present : Present' = Present \cup {k}
             /\ assemblerCount' = assemblerCount
Emptied(t) == /\ t \notin InFlight /\ InFlight' = InFlight \cup {t}
              /\ \E k \in Present : Present' = Present \ {k}
              /\ assemblerCount' = assemblerCount
Gave(t) == /\ t \in InFlight /\ InFlight' = InFlight \ {t}
           /\ assemblerCount' = assemblerCount - 1
           /\ Present' = Present
Effect == Same \/ \E t \in Threads : Took(t) \/ Filled(t) \/ Emptied(t) \/ Gave(t)

\* Initially every goroutine is idle.
LEMMA ReadyInit == Init => Ready
  BY AssemblerAssumption DEF Init, Ready, Threads, Labels, Objs, NoObj

\* A goroutine that moves between labels outside InFlight's, or within them,
\* leaves InFlight alone.
LEMMA MovesKeep ==
  ASSUME Ready, NEW t \in Threads, NEW l, pc' = [pc EXCEPT ![t] = l],
         pc[t] \in {"insert", "cancel"} \cup Uncounts <=> l \in {"insert", "cancel"} \cup Uncounts
  PROVE  InFlight' = InFlight
  BY DEF Ready, InFlight

\* A goroutine that takes a slot or comes to owe one enters InFlight.
LEMMA MovesIn ==
  ASSUME Ready, NEW t \in Threads, NEW l, pc' = [pc EXCEPT ![t] = l],
         pc[t] \notin {"insert", "cancel"} \cup Uncounts, l \in {"insert", "cancel"} \cup Uncounts
  PROVE  t \notin InFlight /\ InFlight' = InFlight \cup {t}
  BY DEF Ready, InFlight

\* One that fills its slot or gives it back leaves InFlight.
LEMMA MovesOut ==
  ASSUME Ready, NEW t \in Threads, NEW l, pc' = [pc EXCEPT ![t] = l],
         pc[t] \in {"insert", "cancel"} \cup Uncounts, l \notin {"insert", "cancel"} \cup Uncounts
  PROVE  t \in InFlight /\ InFlight' = InFlight \ {t}
  BY DEF Ready, InFlight

\* A worker that returns from handlePacket.
LEMMA ReturnReady ==
  ASSUME Ready, NEW w \in Workers, Return(w), assemblers' = assemblers, nextObj' = nextObj
  PROVE  Ready'
  BY AssemblerAssumption DEF Ready, Return, Goto, Threads, Labels

\* Ready is inductive, one step per action.
LEMMA ReadyStep == Ready /\ [Next]_vars => Ready'
<1> SUFFICES ASSUME Ready, [Next]_vars PROVE Ready'
  OBVIOUS
<1> USE AssemblerAssumption
<1>1. CASE UNCHANGED vars
  BY <1>1 DEF Ready, vars, amap, objects, wlocals
<1>2. ASSUME NEW w \in Workers, NEW k \in Keys, NEW F \in SUBSET Frags, ReceiveInitial(w, k, F)
      PROVE  Ready'
  BY <1>2 DEF Ready, ReceiveInitial, Goto, amap, objects, Threads, Labels
<1>3. ASSUME NEW w \in Workers, LoadAssembler(w) PROVE Ready'
  BY <1>3 DEF Ready, LoadAssembler, Present, Goto, amap, objects, Threads, Labels
<1>4. ASSUME NEW w \in Workers, CreateAssembler(w) PROVE Ready'
  <2>1. nextObj \in Objs /\ nextObj' \in 1..(MaxObj + 1)
    BY <1>4 DEF Ready, CreateAssembler, Create, Objs
  <2>2. QED
    BY <1>4, <2>1 DEF Ready, CreateAssembler, Create, Goto, amap, Threads, Labels
<1>5. ASSUME NEW w \in Workers, ReserveSlot(w) PROVE Ready'
  BY <1>5 DEF Ready, ReserveSlot, Goto, objects, wlocals, Threads, Labels
<1>6. ASSUME NEW w \in Workers, StoreFailed(w), pc[w] # "idle",
             assemblers' = assemblers, nextObj' = nextObj
      PROVE  Ready'
  <2>1. CASE Return(w)
    BY <1>6, <2>1, ReturnReady
  <2>2. CASE Goto(w, "reload") /\ UNCHANGED <<key, wlocals>>
    BY <1>6, <2>2 DEF Ready, Goto, wlocals, Threads, Labels
  <2>3. QED
    BY <1>6, <2>1, <2>2 DEF StoreFailed
<1>7. ASSUME NEW w \in Workers, CapReached(w) PROVE Ready'
  BY <1>6, <1>7 DEF CapReached, amap, objects
<1>8. ASSUME NEW w \in Workers, StoreAssembler(w) PROVE Ready'
  BY <1>8 DEF Ready, StoreAssembler, Goto, objects, wlocals, Threads, Labels
<1>9. ASSUME NEW w \in Workers, AlreadyStored(w) PROVE Ready'
  BY <1>9 DEF Ready, AlreadyStored, Goto, amap, objects, wlocals, Threads, Labels
<1>10. ASSUME NEW w \in Workers, CancelSlot(w) PROVE Ready'
  BY <1>6, <1>10 DEF CancelSlot, objects
<1>11. ASSUME NEW w \in Workers, ReloadAssembler(w) PROVE Ready'
  BY <1>11 DEF Ready, ReloadAssembler, Present, Goto, amap, objects, Threads, Labels
<1>12. ASSUME NEW w \in Workers, NoAssembler(w) PROVE Ready'
  BY <1>12, ReturnReady DEF NoAssembler, amap, objects
<1>13. ASSUME NEW w \in Workers, CheckExpired(w) PROVE Ready'
  BY <1>13 DEF Ready, CheckExpired, Goto, amap, objects, wlocals, Threads, Labels
<1>14. ASSUME NEW w \in Workers, TestComplete(w) PROVE Ready'
  <2>1. CASE Return(w)
    BY <1>14, <2>1, ReturnReady DEF TestComplete, amap, objects
  <2>2. CASE Goto(w, "add") /\ UNCHANGED <<key, wlocals>>
    BY <1>14, <2>2 DEF Ready, TestComplete, Goto, amap, objects, wlocals, Threads, Labels
  <2>3. QED
    BY <1>14, <2>1, <2>2 DEF TestComplete
<1>15. ASSUME NEW w \in Workers, AddFrame(w) PROVE Ready'
  BY <1>15 DEF Ready, AddFrame, amap
<1>16. ASSUME NEW w \in Workers, TryParse(w) PROVE Ready'
  <2>1. CASE Return(w)
    BY <1>16, <2>1, ReturnReady DEF TryParse, amap
  <2>2. CASE Goto(w, "parsed") /\ UNCHANGED <<key, wlocals>>
    BY <1>16, <2>2 DEF Ready, TryParse, Goto, amap, wlocals, Threads, Labels
  <2>3. QED
    BY <1>16, <2>1, <2>2 DEF TryParse
<1>17. ASSUME NEW w \in Workers, OpenSession(w) PROVE Ready'
  BY <1>17, ReturnReady DEF OpenSession, amap, objects
<1>18. ASSUME NEW k \in Keys, SessionEnds(k) PROVE Ready'
  BY <1>18 DEF Ready, SessionEnds, amap, objects, wlocals
<1>19. ASSUME NEW o \in Objs, GrowOld(o) PROVE Ready'
  BY <1>19 DEF Ready, GrowOld, amap, wlocals
<1>20. ASSUME NEW t \in Threads, DeleteAssembler(t) PROVE Ready'
  <2>1. assemblers' \in [Keys -> Objs \cup {NoObj}]
    BY <1>20 DEF Ready, DeleteAssembler
  <2>2. PICK l \in Uncounts : /\ pc' = [pc EXCEPT ![t] = l]
                              /\ t = Janitor => l \in {"uncountScan", "uncountPress"}
    BY <1>20 DEF Ready, DeleteAssembler, Goto, Deletes, Uncounts, Uncounting
  <2>3. pc[t] # "idle"
    BY <1>20 DEF DeleteAssembler, Deletes
  <2>4. QED
    BY <1>20, <2>1, <2>2, <2>3 DEF Ready, DeleteAssembler, Uncounts, objects, wlocals, Threads, Labels
<1>21. ASSUME NEW t \in Threads, NEW n \in Uncounts, Continue(t, n), assemblers' = assemblers,
              pc[t] # "idle", t = Janitor => n \in {"uncountScan", "uncountPress"}
       PROVE  Ready'
  <2>1. CASE n = "uncountExpired"
    <3>1. t \in Workers /\ Create(t) /\ Goto(t, "reserve") /\ key' = key
      BY <1>21, <2>1 DEF Continue, ReplaceExpired, Threads
    <3>2. nextObj \in Objs /\ nextObj' \in 1..(MaxObj + 1)
      BY <3>1 DEF Ready, Create, Objs
    <3>3. QED
      BY <1>21, <3>1, <3>2 DEF Ready, Create, Goto, Threads, Labels
  <2>2. CASE n # "uncountExpired"
    <3>1. PICK l \in {"open", "scan", "press"} : /\ pc' = [pc EXCEPT ![t] = l]
                                                 /\ t = Janitor => l \in {"scan", "press"}
      BY <1>21, <2>2 DEF Continue, Goto, Resume, Uncounts
    <3>2. /\ key' = IF t = Janitor THEN [key EXCEPT ![t] = NoKey] ELSE key
          /\ UNCHANGED <<obj, nextObj>>
      BY <1>21, <2>2 DEF Continue, objects, wlocals
    <3>3. key' \in [Threads -> Keys \cup {NoKey}] /\ \A w \in Workers : key'[w] = key[w]
      BY <3>2 DEF Ready, Threads
    <3>4. QED
      BY <1>21, <3>1, <3>2, <3>3 DEF Ready, Threads, Labels
  <2>3. QED
    BY <2>1, <2>2
<1>22. ASSUME NEW t \in Threads, AlreadyDeleted(t) PROVE Ready'
  <2>1. PICK n \in Uncounts : Continue(t, n) /\ (t = Janitor => n \in {"uncountScan", "uncountPress"})
    BY <1>22 DEF Ready, AlreadyDeleted, Deletes, Uncounts, Uncounting
  <2>2. QED
    BY <1>21, <1>22, <2>1 DEF AlreadyDeleted, amap, Deletes
<1>23. ASSUME NEW t \in Threads, UncountAssembler(t) PROVE Ready'
  <2>1. PICK n \in Uncounts : Continue(t, n) /\ (t = Janitor => n \in {"uncountScan", "uncountPress"})
    BY <1>23 DEF Ready, UncountAssembler, Uncounts
  <2>2. QED
    BY <1>21, <1>23, <2>1 DEF UncountAssembler, Uncounts
<1>24. ASSUME JanitorStep PROVE Ready'
  <2>1. /\ UNCHANGED <<assemblers, nextObj, obj>>
        /\ key' \in [Threads -> Keys \cup {NoKey}]
        /\ \A w \in Workers : key'[w] = key[w]
    BY <1>24 DEF Ready, JanitorStep, Tick, ScanDone, PressDone, ScanNext, PressNext, amap, objects,
                 wlocals, Threads
  <2>2. PICK l \in {"idle", "scan", "press", "sweep", "sweepPress"} : pc' = [pc EXCEPT ![Janitor] = l]
    BY <1>24 DEF JanitorStep, Tick, ScanDone, PressDone, ScanNext, PressNext, Goto
  <2>3. QED
    BY <2>1, <2>2 DEF Ready, Threads, Labels
<1>25. QED
  BY <1>1, <1>2, <1>3, <1>4, <1>5, <1>7, <1>8, <1>9, <1>10, <1>11, <1>12, <1>13, <1>14, <1>15,
     <1>16, <1>17, <1>18, <1>19, <1>20, <1>22, <1>23, <1>24 DEF Next, WorkerStep, DeleteStep

\* A step that leaves the map and the counter alone and moves t between two
\* labels of the same kind.
LEMMA MovesSame ==
  ASSUME Ready, NEW t \in Threads, NEW l, pc' = [pc EXCEPT ![t] = l], UNCHANGED amap,
         pc[t] \in {"insert", "cancel"} \cup Uncounts <=> l \in {"insert", "cancel"} \cup Uncounts
  PROVE  Same
<1>1. InFlight' = InFlight
  BY MovesKeep
<1>2. QED
  BY <1>1 DEF Same, Present, amap

\* Every step has one of the five effects.
LEMMA EffectOf == Ready /\ [Next]_vars => Effect
<1> SUFFICES ASSUME Ready, [Next]_vars PROVE Effect
  OBVIOUS
<1> USE AssemblerAssumption
<1>w. Workers \subseteq Threads /\ Janitor \in Threads
  BY DEF Threads
<1>1. CASE UNCHANGED <<amap, pc>>
  BY <1>1 DEF Effect, Same, Present, InFlight, amap
<1>2. ASSUME NEW w \in Workers, NEW l, Goto(w, l), UNCHANGED amap, l \notin {"insert", "cancel"} \cup Uncounts,
             pc[w] \notin {"insert", "cancel"} \cup Uncounts
      PROVE  Effect
  BY <1>2, <1>w, MovesSame DEF Goto, Effect
<1>3. ASSUME NEW w \in Workers, NEW k \in Keys, NEW F \in SUBSET Frags, ReceiveInitial(w, k, F)
      PROVE  Effect
  BY <1>2, <1>3 DEF ReceiveInitial, Uncounts
<1>4. ASSUME NEW w \in Workers,
             \/ LoadAssembler(w) \/ CreateAssembler(w) \/ CapReached(w) \/ ReloadAssembler(w)
             \/ NoAssembler(w) \/ CheckExpired(w) \/ TestComplete(w) \/ OpenSession(w)
      PROVE  Effect
  <2>1. /\ pc[w] \in {"load", "reserve", "reload", "check", "test", "open"}
        /\ UNCHANGED amap
    BY <1>4 DEF LoadAssembler, CreateAssembler, CapReached, ReloadAssembler, NoAssembler, CheckExpired,
                TestComplete, OpenSession
  <2>2. \E l \in {"idle", "check", "reserve", "reload", "expire", "test", "add"} : Goto(w, l)
    BY <1>4 DEF LoadAssembler, CreateAssembler, CapReached, ReloadAssembler, NoAssembler, CheckExpired,
                TestComplete, OpenSession, StoreFailed, Return
  <2>3. QED
    BY <1>2, <2>1, <2>2 DEF Uncounts
<1>5. ASSUME NEW w \in Workers, AddFrame(w) PROVE Effect
  BY <1>1, <1>5 DEF AddFrame
<1>6. ASSUME NEW w \in Workers, TryParse(w) PROVE Effect
  <2>1. pc[w] = "add" /\ UNCHANGED amap /\ \E l \in {"idle", "parsed"} : Goto(w, l)
    BY <1>6 DEF TryParse, Return
  <2>2. QED
    BY <1>2, <2>1 DEF Uncounts
<1>7. ASSUME NEW w \in Workers, ReserveSlot(w) PROVE Effect
  <2>1. w \notin InFlight /\ InFlight' = InFlight \cup {w}
    BY <1>7, <1>w, MovesIn DEF ReserveSlot, Goto, Uncounts
  <2>2. Took(w)
    BY <1>7, <2>1 DEF Took, ReserveSlot, Present
  <2>3. QED
    BY <2>2, <1>w DEF Effect
<1>8. ASSUME NEW w \in Workers, StoreAssembler(w) PROVE Effect
  <2>1. w \in InFlight /\ InFlight' = InFlight \ {w}
    BY <1>8, <1>w, MovesOut DEF StoreAssembler, Goto, Uncounts
  <2>2. key[w] \in Keys \ Present /\ obj[w] # NoObj
    BY <1>8 DEF StoreAssembler, Ready, Objs, NoObj
  <2>3. Present' = Present \cup {key[w]}
    BY <1>8, <2>2 DEF StoreAssembler, Present, Ready
  <2>4. Filled(w)
    BY <1>8, <2>1, <2>2, <2>3 DEF Filled, StoreAssembler
  <2>5. QED
    BY <2>4, <1>w DEF Effect
<1>9. ASSUME NEW w \in Workers, AlreadyStored(w) PROVE Effect
  BY <1>9, <1>w, MovesSame DEF AlreadyStored, Goto, Effect
<1>10. ASSUME NEW w \in Workers, CancelSlot(w) PROVE Effect
  <2>1. PICK l \in {"reload", "idle"} : Goto(w, l)
    BY <1>10 DEF CancelSlot, StoreFailed, Return
  <2>2. w \in InFlight /\ InFlight' = InFlight \ {w}
    BY <1>10, <2>1, <1>w, MovesOut DEF CancelSlot, Goto, Uncounts
  <2>3. Gave(w)
    BY <1>10, <2>2 DEF Gave, CancelSlot, Present
  <2>4. QED
    BY <2>3, <1>w DEF Effect
<1>11. ASSUME NEW t \in Threads, DeleteAssembler(t) PROVE Effect
  <2>1. Uncounting(pc[t]) \in Uncounts /\ pc[t] \notin {"insert", "cancel"} \cup Uncounts
    BY <1>11 DEF DeleteAssembler, Uncounting, Deletes, Uncounts
  <2>2. t \notin InFlight /\ InFlight' = InFlight \cup {t}
    BY <1>11, <2>1, MovesIn DEF DeleteAssembler, Goto
  <2>3. key[t] \in Present /\ Present' = Present \ {key[t]}
    BY <1>11 DEF DeleteAssembler, Present, Ready
  <2>4. Emptied(t)
    BY <1>11, <2>2, <2>3 DEF Emptied, DeleteAssembler
  <2>5. QED
    BY <2>4 DEF Effect
<1>12. ASSUME NEW t \in Threads, NEW n \in Uncounts, Continue(t, n)
       PROVE  \E l \in {"reserve", "open", "scan", "press"} : Goto(t, l)
  BY <1>12 DEF Continue, ReplaceExpired, Resume, Uncounts
<1>13. ASSUME NEW t \in Threads, AlreadyDeleted(t) PROVE Effect
  <2>1. Uncounting(pc[t]) \in Uncounts /\ pc[t] \notin {"insert", "cancel"} \cup Uncounts
    BY <1>13 DEF AlreadyDeleted, Uncounting, Deletes, Uncounts
  <2>2. PICK l \in {"reserve", "open", "scan", "press"} : Goto(t, l)
    BY <1>12, <1>13, <2>1 DEF AlreadyDeleted
  <2>3. l \notin {"insert", "cancel"} \cup Uncounts
    BY DEF Uncounts
  <2>4. UNCHANGED amap
    BY <1>13 DEF AlreadyDeleted
  <2>5. QED
    BY <2>1, <2>2, <2>3, <2>4, MovesSame DEF Goto, Effect
<1>14. ASSUME NEW t \in Threads, UncountAssembler(t) PROVE Effect
  <2>1. pc[t] \in Uncounts
    BY <1>14 DEF UncountAssembler
  <2>2. PICK l \in {"reserve", "open", "scan", "press"} : Goto(t, l)
    BY <1>12, <1>14, <2>1 DEF UncountAssembler
  <2>3. l \notin {"insert", "cancel"} \cup Uncounts
    BY DEF Uncounts
  <2>4. t \in InFlight /\ InFlight' = InFlight \ {t}
    BY <2>1, <2>2, <2>3, MovesOut DEF Goto
  <2>5. Gave(t)
    BY <1>14, <2>4 DEF Gave, UncountAssembler, Present
  <2>6. QED
    BY <2>5 DEF Effect
<1>15. ASSUME JanitorStep PROVE Effect
  <2>1. /\ pc[Janitor] \in {"idle", "scan", "press"} /\ UNCHANGED amap
        /\ \E l \in {"idle", "scan", "press", "sweep", "sweepPress"} : Goto(Janitor, l)
    BY <1>15 DEF JanitorStep, Tick, ScanDone, PressDone, ScanNext, PressNext
  <2>2. QED
    BY <2>1, <1>w, MovesSame DEF Goto, Effect, Uncounts
<1>16. ASSUME NEW k \in Keys, SessionEnds(k) PROVE Effect
  BY <1>1, <1>16 DEF SessionEnds
<1>17. ASSUME NEW o \in Objs, GrowOld(o) PROVE Effect
  BY <1>1, <1>17 DEF GrowOld
<1>18. CASE UNCHANGED vars
  BY <1>1, <1>18 DEF vars
<1>19. QED
  BY <1>3, <1>4, <1>5, <1>6, <1>7, <1>8, <1>9, <1>10, <1>11, <1>13, <1>14, <1>15, <1>16, <1>17,
     <1>18 DEF Next, WorkerStep, DeleteStep

\* Present and InFlight are finite, and their sizes move by one with them.
LEMMA Sizes ==
  /\ IsFiniteSet(Present) /\ Cardinality(Present) \in Nat
  /\ IsFiniteSet(InFlight) /\ Cardinality(InFlight) \in Nat
<1>1. Present \subseteq Keys /\ InFlight \subseteq Threads
  BY DEF Present, InFlight
<1>2. QED
  BY <1>1, AssemblerAssumption, FS_Subset, FS_CardinalityType

\* BoundedMap's Cardinality is the same operator.
LEMMA SameSize == Bounded!Cardinality(Present) = Cardinality(Present)
  BY Zenon DEF Bounded!Cardinality, Bounded!IsFiniteSet, Cardinality, IsFiniteSet

\* An effect on the abstract map: a step of BoundedMap or a stutter, by which
\* the counter moves as the map and the slots in flight do.
LEMMA EffectRefines ==
  ASSUME Effect, CountExact
  PROVE  CountExact' /\ [Bounded!BNext]_(Bounded!bvars)
<1>p. Present \subseteq Keys
  BY DEF Present
<1>1. CASE Same
  BY <1>1 DEF Same, CountExact, Bounded!bvars
<1>2. ASSUME NEW t \in Threads, Took(t) PROVE CountExact' /\ Bounded!Reserve
  <2>1. Cardinality(InFlight') = Cardinality(InFlight) + 1
    BY <1>2, Sizes, FS_AddElement DEF Took
  <2>2. CountExact'
    BY <1>2, <2>1, Sizes DEF Took, CountExact
  <2>3. Bounded!Reserve
    BY <1>2, <2>1, SameSize DEF Took, CountExact, Bounded!Reserve
  <2>4. QED
    BY <2>2, <2>3
<1>3. ASSUME NEW t \in Threads, Filled(t) PROVE CountExact' /\ \E k \in Keys : Bounded!Insert(k)
  <2>1. Cardinality(InFlight') = Cardinality(InFlight) - 1
    BY <1>3, Sizes, FS_RemoveElement DEF Filled
  <2>2. Cardinality(InFlight) > 0
    BY <1>3, Sizes, FS_EmptySet DEF Filled
  <2>3. PICK k \in Keys \ Present : Present' = Present \cup {k}
    BY <1>3 DEF Filled
  <2>4. Cardinality(Present') = Cardinality(Present) + 1
    BY <2>3, Sizes, FS_AddElement
  <2>5. CountExact'
    BY <1>3, <2>1, <2>4, Sizes DEF Filled, CountExact
  <2>6. Bounded!Insert(k)
    BY <2>1, <2>2, <2>3 DEF Bounded!Insert
  <2>7. QED
    BY <2>5, <2>6
<1>4. ASSUME NEW t \in Threads, Emptied(t) PROVE CountExact' /\ \E k \in Keys : Bounded!Remove(k)
  <2>1. Cardinality(InFlight') = Cardinality(InFlight) + 1
    BY <1>4, Sizes, FS_AddElement DEF Emptied
  <2>2. PICK k \in Present : Present' = Present \ {k}
    BY <1>4 DEF Emptied
  <2>3. Cardinality(Present') = Cardinality(Present) - 1
    BY <2>2, Sizes, FS_RemoveElement
  <2>4. CountExact'
    BY <1>4, <2>1, <2>3, Sizes DEF Emptied, CountExact
  <2>5. Bounded!Remove(k)
    BY <2>1, <2>2 DEF Bounded!Remove
  <2>6. QED
    BY <1>p, <2>4, <2>5
<1>5. ASSUME NEW t \in Threads, Gave(t) PROVE CountExact' /\ Bounded!GiveBack
  <2>1. Cardinality(InFlight') = Cardinality(InFlight) - 1
    BY <1>5, Sizes, FS_RemoveElement DEF Gave
  <2>2. Cardinality(InFlight) > 0
    BY <1>5, Sizes, FS_EmptySet DEF Gave
  <2>3. QED
    BY <1>5, <2>1, <2>2, Sizes DEF Gave, CountExact, Bounded!GiveBack
<1>6. QED
  BY <1>1, <1>2, <1>3, <1>4, <1>5 DEF Effect, Bounded!BNext

\* The map starts empty with no slot taken.
LEMMA EmptyMap == Init => Present = {} /\ InFlight = {}
  BY DEF Init, Present, InFlight, Uncounts, NoObj

\* Labels and locals agree in every reachable state.
LEMMA AlwaysReady == Spec => []Ready
  BY ReadyInit, ReadyStep, PTL DEF Spec

\* assemblerCount is exact: whatever storeAssembler, deleteAssembler and the
\* ticker do to each other, it is the number of assemblers in the map plus
\* the slots some goroutine still owes or holds.
THEOREM AssemblerCount == Spec => []CountExact
<1>1. Init => CountExact
  <2> SUFFICES ASSUME Init PROVE CountExact
    OBVIOUS
  <2>1. Present = {} /\ InFlight = {} /\ assemblerCount = 0
    BY EmptyMap DEF Init
  <2>2. Cardinality(Present) = 0 /\ Cardinality(InFlight) = 0
    BY <2>1, FS_EmptySet
  <2>3. QED
    BY <2>1, <2>2 DEF CountExact
<1>2. Ready /\ CountExact /\ [Next]_vars => CountExact'
  BY EffectOf, EffectRefines
<1>3. QED
  BY <1>1, <1>2, AlwaysReady, PTL DEF Spec

\* The assembler map with its counter implements the bounded map, for every
\* number of workers, DCIDs and slots.
THEOREM AssemblersRefine == Spec => RefinesBoundedMap
<1>1. Init => Bounded!BInit
  <2> SUFFICES ASSUME Init PROVE Bounded!BInit
    OBVIOUS
  <2>1. Present = {} /\ Cardinality(Present) = 0 /\ Cardinality(InFlight) = 0
    BY EmptyMap, FS_EmptySet
  <2>2. QED
    BY <2>1, SameSize, AssemblerAssumption DEF Bounded!BInit
<1>2. Ready /\ CountExact /\ [Next]_vars => [Bounded!BNext]_(Bounded!bvars)
  BY EffectOf, EffectRefines
<1>3. QED
  BY <1>1, <1>2, AlwaysReady, AssemblerCount, PTL DEF Spec, RefinesBoundedMap, Bounded!BSpec

\* The assemblers in the map never exceed maxAssemblers, slots in flight
\* included.
THEOREM AssemblersWithinCap == Spec => []Bounded!WithinCap
<1>1. Init => assemblerCount <= Cap
  BY AssemblerAssumption DEF Init
<1>2. Ready /\ CountExact /\ assemblerCount <= Cap /\ [Next]_vars => (assemblerCount <= Cap)'
  <2> SUFFICES ASSUME Effect, CountExact, assemblerCount <= Cap PROVE (assemblerCount <= Cap)'
    BY EffectOf
  <2>1. assemblerCount \in Nat
    BY Sizes DEF CountExact
  <2>2. QED
    BY <2>1, AssemblerAssumption DEF Effect, Same, Took, Filled, Emptied, Gave
<1>3. CountExact /\ assemblerCount <= Cap => Bounded!WithinCap
  BY SameSize DEF CountExact, Bounded!WithinCap
<1>4. QED
  BY <1>1, <1>2, <1>3, AlwaysReady, AssemblerCount, PTL DEF Spec

-----------------------------------------------------------------------------
(* Complete assemblers leave the map.  That TryParse completes the         *)
(* assembler of the worker's own DCID, and never one that another worker   *)
(* is about to store, takes an account of who holds which assembler.       *)

\* The variables CompleteLeaves' argument does not use.
RestTyped ==
  /\ got \in [Objs -> SUBSET Frags]
  /\ complete \in [Objs -> BOOLEAN]
  /\ age \in [Objs -> {"young", "old", "expired"}]
  /\ known \in SUBSET Keys
  /\ pkt \in [Workers -> SUBSET Frags]
  /\ replacing \in [Workers -> BOOLEAN]
  /\ todo \in SUBSET Keys
  /\ seen \in Nat

\* Nobody but w has w's assembler, and it is not complete.
Fresh(w) ==
  /\ ~complete[obj[w]]
  /\ \A k \in Keys : assemblers[k] # obj[w]
  /\ \A v \in Workers : v # w => obj[v] # obj[w]

\* An assembler is in the map under one DCID, and workers use it for that
\* DCID only; one that is yet to be stored is its creator's alone.
Owned ==
  /\ \A k \in Keys : assemblers[k] < nextObj
  /\ \A w \in Workers : obj[w] < nextObj
  /\ \A o \in Objs : o >= nextObj => ~complete[o]
  /\ \A w \in Workers : pc[w] \in {"reserve", "insert"} => Fresh(w)
  /\ \A w \in Workers : pc[w] \in {"check", "test", "add"} =>
       /\ obj[w] \in Objs
       /\ \A k \in Keys : assemblers[k] = obj[w] => key[w] = k
  /\ \A j, k \in Keys : assemblers[j] = assemblers[k] /\ assemblers[j] # NoObj => j = k

\* The invariant proper.
Leaves ==
  \A k \in Present : complete[assemblers[k]] => \E w \in Workers : pc[w] = "parsed" /\ key[w] = k

\* Every step keeps the types of the other variables.
LEMMA RestStep == Ready /\ RestTyped /\ [Next]_vars => RestTyped'
<1> SUFFICES ASSUME Ready, RestTyped, [Next]_vars PROVE RestTyped'
  OBVIOUS
<1> USE AssemblerAssumption
<1>1. CASE UNCHANGED vars
  BY <1>1 DEF RestTyped, vars, objects, wlocals, scan
<1>2. ASSUME NEW w \in Workers, NEW k \in Keys, NEW F \in SUBSET Frags, ReceiveInitial(w, k, F)
      PROVE  RestTyped'
  BY <1>2 DEF RestTyped, ReceiveInitial, objects, scan
<1>3. ASSUME NEW w \in Workers, Return(w), UNCHANGED <<got, complete, age, scan>>, known' \in SUBSET Keys
      PROVE  RestTyped'
  BY <1>3 DEF RestTyped, Return, scan
<1>4. ASSUME UNCHANGED <<got, complete, age, known, pkt, replacing, scan>> PROVE RestTyped'
  BY <1>4 DEF RestTyped, scan
<1>5. ASSUME NEW w \in Workers, StoreFailed(w), UNCHANGED <<objects, known, scan>> PROVE RestTyped'
  <2>1. known' \in SUBSET Keys
    BY <1>5 DEF RestTyped
  <2>2. QED
    BY <1>3, <1>4, <1>5, <2>1 DEF StoreFailed, objects, wlocals
<1>6. ASSUME NEW w \in Workers, WorkerStep(w) PROVE RestTyped'
  <2>1. CASE LoadAssembler(w) \/ CreateAssembler(w) \/ ReserveSlot(w) \/ StoreAssembler(w)
             \/ AlreadyStored(w) \/ ReloadAssembler(w) \/ CheckExpired(w)
    BY <1>4, <2>1 DEF LoadAssembler, CreateAssembler, ReserveSlot, StoreAssembler, AlreadyStored,
                      ReloadAssembler, CheckExpired, objects, wlocals
  <2>2. CASE CapReached(w) \/ CancelSlot(w)
    BY <1>5, <2>2 DEF CapReached, CancelSlot
  <2>3. CASE NoAssembler(w)
    <3>1. known' \in SUBSET Keys
      BY <2>3 DEF NoAssembler, RestTyped
    <3>2. QED
      BY <1>3, <2>3, <3>1 DEF NoAssembler, objects
  <2>4. CASE TestComplete(w)
    <3>1. known' \in SUBSET Keys
      BY <2>4 DEF TestComplete, RestTyped
    <3>2. QED
      BY <1>3, <1>4, <2>4, <3>1 DEF TestComplete, objects, wlocals
  <2>5. CASE AddFrame(w)
    <3>1. PICK f \in pkt[w] : /\ got' = [got EXCEPT ![obj[w]] = @ \cup {f}]
                              /\ pkt' = [pkt EXCEPT ![w] = @ \ {f}]
      BY <2>5 DEF AddFrame
    <3>2. f \in Frags /\ pkt[w] \in SUBSET Frags
      BY <3>1 DEF RestTyped
    <3>3. pkt' \in [Workers -> SUBSET Frags]
      BY <3>1, <3>2 DEF RestTyped
    <3>4. got' \in [Objs -> SUBSET Frags]
      <4>1. CASE obj[w] \in Objs
        BY <3>1, <3>2, <4>1 DEF RestTyped
      <4>2. CASE obj[w] \notin Objs
        BY <3>1, <4>2 DEF RestTyped
      <4>3. QED
        BY <4>1, <4>2
    <3>5. QED
      BY <2>5, <3>3, <3>4 DEF RestTyped, AddFrame, scan
  <2>6. CASE TryParse(w)
    <3>1. CASE Return(w) /\ UNCHANGED complete
      <4>1. known' \in SUBSET Keys
        BY <2>6 DEF TryParse, RestTyped
      <4>2. QED
        BY <1>3, <2>6, <3>1, <4>1 DEF TryParse
    <3>2. CASE complete' = [complete EXCEPT ![obj[w]] = TRUE] /\ UNCHANGED <<key, wlocals>>
      BY <2>6, <3>2 DEF RestTyped, TryParse, wlocals, scan
    <3>3. QED
      BY <2>6, <3>1, <3>2 DEF TryParse
  <2>7. CASE OpenSession(w)
    <3>1. pc[w] # "idle"
      BY <2>7 DEF OpenSession
    <3>2. known' \in SUBSET Keys
      BY <2>7, <3>1 DEF OpenSession, RestTyped, Ready
    <3>3. QED
      BY <1>3, <2>7, <3>2 DEF OpenSession, objects
  <2>8. QED
    BY <1>6, <2>1, <2>2, <2>3, <2>4, <2>5, <2>6, <2>7 DEF WorkerStep
<1>7. ASSUME NEW t \in Threads, NEW n \in Uncounts, Continue(t, n), UNCHANGED <<known, scan>>,
             t = Janitor => n # "uncountExpired"
      PROVE  RestTyped'
  <2>1. CASE n = "uncountExpired"
    BY <1>7, <2>1 DEF Continue, ReplaceExpired, RestTyped, Threads, scan
  <2>2. CASE n # "uncountExpired"
    BY <1>4, <1>7, <2>2 DEF Continue, objects, wlocals
  <2>3. QED
    BY <2>1, <2>2
<1>8. ASSUME NEW t \in Threads, DeleteStep(t) PROVE RestTyped'
  <2>1. CASE DeleteAssembler(t)
    BY <1>4, <2>1 DEF DeleteAssembler, objects, wlocals
  <2>2. CASE AlreadyDeleted(t)
    <3>1. PICK n \in Uncounts : Continue(t, n) /\ (t = Janitor => n # "uncountExpired")
      BY <2>2 DEF Ready, AlreadyDeleted, Deletes, Uncounts, Uncounting
    <3>2. QED
      BY <1>7, <2>2, <3>1 DEF AlreadyDeleted
  <2>3. CASE UncountAssembler(t)
    <3>1. PICK n \in Uncounts : Continue(t, n) /\ (t = Janitor => n # "uncountExpired")
      BY <2>3 DEF Ready, UncountAssembler, Uncounts
    <3>2. QED
      BY <1>7, <2>3, <3>1 DEF UncountAssembler
  <2>4. QED
    BY <1>8, <2>1, <2>2, <2>3 DEF DeleteStep
<1>9. ASSUME JanitorStep PROVE RestTyped'
  BY <1>9 DEF RestTyped, JanitorStep, Tick, ScanDone, PressDone, ScanNext, PressNext, objects, wlocals, scan
<1>10. ASSUME NEW k \in Keys, SessionEnds(k) PROVE RestTyped'
  BY <1>10 DEF RestTyped, SessionEnds, objects, wlocals, scan
<1>11. ASSUME NEW o \in Objs, GrowOld(o) PROVE RestTyped'
  BY <1>11 DEF RestTyped, GrowOld, wlocals, scan
<1>12. QED
  BY <1>1, <1>2, <1>6, <1>8, <1>9, <1>10, <1>11 DEF Next

\* A step that creates no assembler, stores none and completes none: workers
\* keep what they have, drop it, or load what the map has for their DCID.
LEMMA OwnedKept ==
  ASSUME Ready, Owned, NEW w \in Workers,
         UNCHANGED <<nextObj, complete>>,
         \A k \in Keys : assemblers'[k] \in {assemblers[k], NoObj},
         \A v \in Workers : v # w => pc'[v] = pc[v] /\ key'[v] = key[v] /\ obj'[v] = obj[v],
         pc'[w] \in {"reserve", "insert"} => pc[w] \in {"reserve", "insert"} /\ obj'[w] = obj[w],
         \/ pc'[w] \notin {"check", "test", "add"}
         \/ pc[w] \in {"check", "test", "add"} /\ obj'[w] = obj[w] /\ key'[w] = key[w]
         \/ key[w] \in Present /\ obj'[w] = assemblers[key[w]] /\ key'[w] = key[w],
         obj'[w] \in {obj[w], NoObj} \cup {assemblers[k] : k \in Keys},
         assemblers' \in [Keys -> Objs \cup {NoObj}]
  PROVE  Owned'
<1> USE AssemblerAssumption DEF NoObj
<1>1. \A k \in Keys : assemblers'[k] < nextObj' /\ assemblers[k] \in Objs \cup {0}
  BY DEF Owned, Ready, Objs
<1>2. \A v \in Workers : obj'[v] < nextObj' /\ obj[v] \in Objs \cup {0}
  <2>1. obj'[w] < nextObj'
    BY <1>1 DEF Owned, Ready, Objs
  <2>2. QED
    BY <2>1 DEF Owned, Ready
<1>3. ASSUME NEW v \in Workers, pc'[v] \in {"reserve", "insert"} PROVE Fresh(v)'
  <2>1. Fresh(v) /\ obj'[v] = obj[v] /\ obj[v] \in Objs
    BY <1>3 DEF Owned, Ready
  <2>2. \A k \in Keys : assemblers'[k] # obj[v]
    BY <2>1, <1>1 DEF Fresh, Objs
  <2>3. ASSUME NEW u \in Workers, u # v PROVE obj'[u] # obj[v]
    <3>1. CASE u # w
      BY <2>1, <2>3, <3>1 DEF Fresh
    <3>2. CASE u = w
      BY <2>1, <2>3, <3>2 DEF Fresh, Objs
    <3>3. QED
      BY <3>1, <3>2
  <2>4. QED
    BY <2>1, <2>2, <2>3 DEF Fresh
<1>4. ASSUME NEW v \in Workers, pc'[v] \in {"check", "test", "add"}
      PROVE  obj'[v] \in Objs /\ \A k \in Keys : assemblers'[k] = obj'[v] => key'[v] = k
  <2>1. CASE v # w \/ (pc[w] \in {"check", "test", "add"} /\ obj'[w] = obj[w] /\ key'[w] = key[w])
    <3>1. pc[v] \in {"check", "test", "add"} /\ obj'[v] = obj[v] /\ key'[v] = key[v]
      BY <1>4, <2>1
    <3>2. obj[v] \in Objs /\ \A k \in Keys : assemblers[k] = obj[v] => key[v] = k
      BY <3>1 DEF Owned
    <3>3. QED
      BY <3>1, <3>2 DEF Objs
  <2>2. CASE v = w /\ key[w] \in Present /\ obj'[w] = assemblers[key[w]] /\ key'[w] = key[w]
    <3>1. key[w] \in Keys /\ assemblers[key[w]] # NoObj /\ assemblers[key[w]] \in Objs
      BY <2>2, <1>1 DEF Present
    <3>2. QED
      BY <2>2, <3>1 DEF Owned, Objs
  <2>3. QED
    BY <1>4, <2>1, <2>2
<1>5. \A j, k \in Keys : assemblers'[j] = assemblers'[k] /\ assemblers'[j] # NoObj => j = k
  BY <1>1 DEF Owned
<1>6. QED
  BY <1>1, <1>2, <1>3, <1>4, <1>5 DEF Owned

\* A worker that creates an assembler has one that nobody else knows.
LEMMA OwnedCreate ==
  ASSUME Ready, Owned, RestTyped, NEW w \in Workers, Create(w), Goto(w, "reserve"),
         UNCHANGED <<assemblers, complete, key>>
  PROVE  Owned'
<1> USE AssemblerAssumption DEF NoObj
<1>1. /\ nextObj \in Objs /\ nextObj' = nextObj + 1 /\ obj' = [obj EXCEPT ![w] = nextObj]
      /\ pc' = [pc EXCEPT ![w] = "reserve"]
  BY DEF Create, Goto, Ready, Objs
<1>2. /\ \A k \in Keys : assemblers[k] \in Int /\ assemblers[k] < nextObj
      /\ \A v \in Workers : obj[v] \in Int /\ obj[v] < nextObj
      /\ nextObj \in Int
  BY DEF Owned, Ready, Objs
<1>3. /\ obj'[w] = nextObj /\ pc'[w] = "reserve"
      /\ \A v \in Workers : v # w => obj'[v] = obj[v] /\ pc'[v] = pc[v]
  BY <1>1 DEF Ready, Threads
<1>4. Fresh(w)'
  BY <1>1, <1>2, <1>3 DEF Fresh, Owned
<1>5. ASSUME NEW v \in Workers, v # w, pc[v] \in {"reserve", "insert"} PROVE Fresh(v)'
  BY <1>2, <1>3, <1>5 DEF Fresh, Owned
<1>6. /\ \A k \in Keys : assemblers'[k] < nextObj'
      /\ \A v \in Workers : obj'[v] < nextObj'
      /\ \A o \in Objs : o >= nextObj' => ~complete'[o]
  BY <1>1, <1>2, <1>3 DEF Owned, Objs
<1>7. \A v \in Workers : pc'[v] \in {"check", "test", "add"} =>
        obj'[v] \in Objs /\ \A k \in Keys : assemblers'[k] = obj'[v] => key'[v] = k
  BY <1>3 DEF Owned
<1>8. QED
  BY <1>3, <1>4, <1>5, <1>6, <1>7 DEF Owned

\* Who holds which assembler is kept by every step.
LEMMA OwnedStep == Ready /\ RestTyped /\ Owned /\ [Next]_vars => Owned'
<1> SUFFICES ASSUME Ready, RestTyped, Owned, [Next]_vars PROVE Owned'
  OBVIOUS
<1> USE AssemblerAssumption
<1>r. Ready'
  BY ReadyStep
<1>m. assemblers' \in [Keys -> Objs \cup {NoObj}]
  BY <1>r DEF Ready
<1>t. Workers \subseteq Threads /\ Janitor \in Threads \ Workers
  BY DEF Threads
<1>1. ASSUME UNCHANGED <<nextObj, complete, obj>>, \A k \in Keys : assemblers'[k] \in {assemblers[k], NoObj},
             \A w \in Workers : pc'[w] = pc[w] /\ key'[w] = key[w]
      PROVE  Owned'
  <2>1. CASE Workers = {}
    BY <1>1, <2>1 DEF Owned, Ready, Objs, NoObj
  <2>2. ASSUME NEW w \in Workers PROVE Owned'
    BY <1>1, <1>m, OwnedKept
  <2>3. QED
    BY <2>1, <2>2
<1>2. ASSUME NEW w \in Workers, NEW k \in Keys, NEW F \in SUBSET Frags, ReceiveInitial(w, k, F)
      PROVE  Owned'
  <2>1. /\ UNCHANGED <<nextObj, complete, assemblers, obj>>
        /\ pc' = [pc EXCEPT ![w] = "load"] /\ key' = [key EXCEPT ![w] = k]
    BY <1>2 DEF ReceiveInitial, Goto, amap, objects
  <2>2. pc'[w] = "load" /\ \A v \in Workers : v # w => pc'[v] = pc[v] /\ key'[v] = key[v]
    BY <2>1, <1>t DEF Ready
  <2>3. QED
    BY <2>1, <2>2, <1>m, OwnedKept
<1>3. ASSUME NEW w \in Workers, Return(w), UNCHANGED <<nextObj, complete, assemblers>> PROVE Owned'
  <2>1. /\ pc'[w] = "idle" /\ obj'[w] = NoObj
        /\ \A v \in Workers : v # w => pc'[v] = pc[v] /\ key'[v] = key[v] /\ obj'[v] = obj[v]
    BY <1>3, <1>t DEF Return, Goto, Ready
  <2>2. QED
    BY <1>3, <2>1, <1>m, OwnedKept
<1>4. ASSUME NEW w \in Workers, NEW l, Goto(w, l), UNCHANGED <<nextObj, complete, assemblers, key, obj>>,
             l \in {"reserve", "insert"} => pc[w] \in {"reserve", "insert"},
             l \in {"check", "test", "add"} => pc[w] \in {"check", "test", "add"}
      PROVE  Owned'
  <2>1. pc'[w] = l /\ \A v \in Workers : v # w => pc'[v] = pc[v]
    BY <1>4, <1>t DEF Goto, Ready
  <2>2. QED
    BY <1>4, <2>1, <1>m, OwnedKept
<1>5. ASSUME NEW w \in Workers, LoadAssembler(w) \/ ReloadAssembler(w) PROVE Owned'
  <2>1. /\ UNCHANGED <<nextObj, complete, assemblers, key>>
        /\ key[w] \in Present
        /\ obj' = [obj EXCEPT ![w] = assemblers[key[w]]]
        /\ pc' = [pc EXCEPT ![w] = "check"]
    BY <1>5 DEF LoadAssembler, ReloadAssembler, Goto, amap, objects
  <2>2. /\ pc'[w] = "check" /\ obj'[w] = assemblers[key[w]] /\ key[w] \in Keys
        /\ \A v \in Workers : v # w => pc'[v] = pc[v] /\ obj'[v] = obj[v]
    BY <2>1, <1>t DEF Ready, Present
  <2>3. QED
    BY <2>1, <2>2, <1>m, OwnedKept
<1>6. ASSUME NEW w \in Workers, StoreFailed(w), UNCHANGED <<nextObj, complete, assemblers>> PROVE Owned'
  BY <1>3, <1>4, <1>6 DEF StoreFailed, wlocals
<1>7. ASSUME NEW w \in Workers, StoreAssembler(w) PROVE Owned'
  <2>1. /\ UNCHANGED <<nextObj, complete, key, obj>>
        /\ pc[w] = "insert" /\ key[w] \notin Present /\ key[w] \in Keys /\ obj[w] \in Objs
        /\ assemblers' = [assemblers EXCEPT ![key[w]] = obj[w]]
        /\ pc' = [pc EXCEPT ![w] = "test"]
    BY <1>7 DEF StoreAssembler, Goto, objects, wlocals, Ready
  <2>2. Fresh(w)
    BY <2>1 DEF Owned
  <2>3. /\ pc'[w] = "test" /\ \A v \in Workers : v # w => pc'[v] = pc[v]
        /\ assemblers'[key[w]] = obj[w]
        /\ \A k \in Keys : k # key[w] => assemblers'[k] = assemblers[k]
    BY <2>1, <1>t DEF Ready
  <2>4. \A k \in Keys : assemblers'[k] < nextObj'
    BY <2>1, <2>3 DEF Owned
  <2>5. ASSUME NEW v \in Workers, pc'[v] \in {"reserve", "insert"} PROVE Fresh(v)'
    <3>1. v # w /\ Fresh(v) /\ obj[v] # obj[w]
      BY <2>2, <2>3, <2>5 DEF Owned, Fresh
    <3>2. QED
      BY <2>1, <2>3, <3>1 DEF Fresh
  <2>6. ASSUME NEW v \in Workers, pc'[v] \in {"check", "test", "add"}
        PROVE  obj'[v] \in Objs /\ \A k \in Keys : assemblers'[k] = obj'[v] => key'[v] = k
    <3>1. CASE v = w
      BY <2>1, <2>2, <2>3, <3>1 DEF Fresh
    <3>2. CASE v # w
      BY <2>1, <2>2, <2>3, <2>6, <3>2 DEF Fresh, Owned
    <3>3. QED
      BY <3>1, <3>2
  <2>7. ASSUME NEW j \in Keys, NEW k \in Keys, assemblers'[j] = assemblers'[k], assemblers'[j] # NoObj
        PROVE  j = k
    BY <2>2, <2>3, <2>7 DEF Fresh, Owned
  <2>8. QED
    BY <2>1, <2>4, <2>5, <2>6, <2>7 DEF Owned
<1>8. ASSUME NEW w \in Workers, TryParse(w) PROVE Owned'
  <2>1. CASE Return(w) /\ UNCHANGED complete
    BY <1>3, <1>8, <2>1 DEF TryParse, amap
  <2>2. CASE /\ complete' = [complete EXCEPT ![obj[w]] = TRUE]
             /\ Goto(w, "parsed") /\ UNCHANGED <<key, wlocals>>
    <3>1. UNCHANGED <<nextObj, assemblers, key, obj>> /\ pc[w] = "add" /\ obj[w] \in Objs
      BY <1>8, <2>2 DEF TryParse, amap, wlocals, Owned
    <3>2. pc'[w] = "parsed" /\ \A v \in Workers : v # w => pc'[v] = pc[v]
      BY <2>2, <1>t DEF Goto, Ready
    <3>3. \A o \in Objs : o # obj[w] => complete'[o] = complete[o]
      BY <2>2 DEF RestTyped
    <3>4. obj[w] < nextObj /\ obj[w] \in Int /\ nextObj \in Int
      BY <3>1 DEF Owned, Objs, Ready
    <3>5. \A o \in Objs : o >= nextObj' => ~complete'[o]
      BY <3>1, <3>3, <3>4 DEF Owned
    <3>6. ASSUME NEW v \in Workers, pc'[v] \in {"reserve", "insert"} PROVE Fresh(v)'
      <4>1. v # w /\ Fresh(v) /\ obj[v] \in Objs
        BY <3>2, <3>6 DEF Owned, Ready
      <4>2. obj[v] # obj[w] /\ ~complete'[obj[v]]
        BY <3>3, <4>1 DEF Fresh
      <4>3. QED
        BY <3>1, <4>1, <4>2 DEF Fresh
    <3>7. QED
      BY <3>1, <3>2, <3>5, <3>6 DEF Owned
  <2>3. QED
    BY <1>8, <2>1, <2>2 DEF TryParse
<1>9. ASSUME NEW w \in Workers, WorkerStep(w) PROVE Owned'
  <2>1. CASE LoadAssembler(w) \/ ReloadAssembler(w)
    BY <1>5, <2>1
  <2>2. CASE CreateAssembler(w)
    BY <2>2, OwnedCreate DEF CreateAssembler, amap
  <2>3. CASE ReserveSlot(w)
    BY <1>4, <2>3 DEF ReserveSlot, objects, wlocals
  <2>4. CASE CapReached(w) \/ CancelSlot(w)
    BY <1>6, <2>4 DEF CapReached, CancelSlot, amap, objects
  <2>5. CASE StoreAssembler(w)
    BY <1>7, <2>5
  <2>6. CASE AlreadyStored(w)
    BY <1>4, <2>6 DEF AlreadyStored, amap, objects, wlocals
  <2>7. CASE NoAssembler(w)
    BY <1>3, <2>7 DEF NoAssembler, amap, objects
  <2>8. CASE CheckExpired(w)
    <3>1. PICK l \in {"expire", "test"} : Goto(w, l)
      BY <2>8 DEF CheckExpired
    <3>2. QED
      BY <1>4, <2>8, <3>1 DEF CheckExpired, amap, objects, wlocals
  <2>9. CASE TestComplete(w)
    <3>1. CASE Return(w)
      BY <1>3, <2>9, <3>1 DEF TestComplete, amap, objects
    <3>2. CASE Goto(w, "add") /\ UNCHANGED <<key, wlocals>>
      BY <1>4, <2>9, <3>2 DEF TestComplete, amap, objects, wlocals
    <3>3. QED
      BY <2>9, <3>1, <3>2 DEF TestComplete
  <2>10. CASE AddFrame(w)
    BY <1>1, <2>10 DEF AddFrame, amap
  <2>11. CASE TryParse(w)
    BY <1>8, <2>11
  <2>12. CASE OpenSession(w)
    BY <1>3, <2>12 DEF OpenSession, amap, objects
  <2>13. QED
    BY <1>9, <2>1, <2>2, <2>3, <2>4, <2>5, <2>6, <2>7, <2>8, <2>9, <2>10, <2>11, <2>12 DEF WorkerStep
<1>10. ASSUME NEW t \in Threads, NEW l, l \notin {"reserve", "insert", "check", "test", "add"}, Goto(t, l),
              UNCHANGED <<nextObj, complete, obj>>, \A k \in Keys : assemblers'[k] \in {assemblers[k], NoObj},
              \A w \in Workers : key'[w] = key[w]
       PROVE  Owned'
  <2>1. CASE t = Janitor
    <3>1. \A w \in Workers : pc'[w] = pc[w]
      BY <1>10, <2>1, <1>t DEF Goto, Ready
    <3>2. QED
      BY <1>1, <1>10, <3>1
  <2>2. CASE t \in Workers
    <3>1. pc'[t] = l /\ \A v \in Workers : v # t => pc'[v] = pc[v]
      BY <1>10, <1>t, <2>2 DEF Goto, Ready
    <3>2. QED
      BY <1>10, <2>2, <3>1, <1>m, OwnedKept
  <2>3. QED
    BY <2>1, <2>2 DEF Threads
<1>11. ASSUME NEW t \in Threads, NEW n \in Uncounts, Continue(t, n), assemblers' = assemblers,
              t = Janitor => n # "uncountExpired"
       PROVE  Owned'
  <2>1. CASE n = "uncountExpired"
    <3>1. t \in Workers /\ Create(t) /\ Goto(t, "reserve") /\ UNCHANGED <<complete, key>>
      BY <1>11, <2>1 DEF Continue, ReplaceExpired, Threads
    <3>2. QED
      BY <1>11, <3>1, OwnedCreate
  <2>2. CASE n # "uncountExpired"
    <3>1. PICK l \in {"open", "scan", "press"} : Goto(t, l)
      BY <1>11, <2>2 DEF Continue, Resume, Uncounts
    <3>2. UNCHANGED <<nextObj, complete, obj>> /\ \A w \in Workers : key'[w] = key[w]
      BY <1>11, <2>2, <1>t DEF Continue, objects, wlocals, Ready
    <3>3. QED
      BY <1>10, <1>11, <3>1, <3>2
  <2>3. QED
    BY <2>1, <2>2
<1>12. ASSUME NEW t \in Threads, DeleteStep(t) PROVE Owned'
  <2>1. CASE DeleteAssembler(t)
    <3>1. PICK l \in Uncounts : Goto(t, l)
      BY <2>1 DEF DeleteAssembler, Deletes, Uncounts, Uncounting
    <3>2. l \notin {"reserve", "insert", "check", "test", "add"}
      BY DEF Uncounts
    <3>3. UNCHANGED <<nextObj, complete, obj, key>> /\ \A k \in Keys : assemblers'[k] \in {assemblers[k], NoObj}
      BY <2>1 DEF DeleteAssembler, objects, wlocals, Ready
    <3>4. QED
      BY <1>10, <3>1, <3>2, <3>3
  <2>2. CASE AlreadyDeleted(t)
    <3>1. PICK n \in Uncounts : Continue(t, n) /\ (t = Janitor => n # "uncountExpired")
      BY <2>2 DEF Ready, AlreadyDeleted, Deletes, Uncounts, Uncounting
    <3>2. QED
      BY <1>11, <2>2, <3>1 DEF AlreadyDeleted, amap
  <2>3. CASE UncountAssembler(t)
    <3>1. PICK n \in Uncounts : Continue(t, n) /\ (t = Janitor => n # "uncountExpired")
      BY <2>3 DEF Ready, UncountAssembler, Uncounts
    <3>2. QED
      BY <1>11, <2>3, <3>1 DEF UncountAssembler
  <2>4. QED
    BY <1>12, <2>1, <2>2, <2>3 DEF DeleteStep
<1>13. ASSUME JanitorStep PROVE Owned'
  <2>1. /\ UNCHANGED <<nextObj, complete, obj, assemblers>> /\ \A w \in Workers : key'[w] = key[w]
        /\ \E l \in {"idle", "scan", "press", "sweep", "sweepPress"} : Goto(Janitor, l)
    BY <1>13, <1>t DEF JanitorStep, Tick, ScanDone, PressDone, ScanNext, PressNext, amap, objects, wlocals,
                       Ready
  <2>2. QED
    BY <1>10, <1>t, <2>1
<1>14. CASE UNCHANGED vars
  BY <1>1, <1>14 DEF vars, amap, objects, wlocals
<1>15. ASSUME NEW k \in Keys, SessionEnds(k) PROVE Owned'
  BY <1>1, <1>15 DEF SessionEnds, amap, objects, wlocals
<1>16. ASSUME NEW o \in Objs, GrowOld(o) PROVE Owned'
  BY <1>1, <1>16 DEF GrowOld, amap, wlocals
<1>17. QED
  BY <1>2, <1>9, <1>12, <1>13, <1>14, <1>15, <1>16 DEF Next

\* A step that completes nothing and stores nothing, during which the workers
\* about to delete stay so, keeps Leaves.
LEMMA LeavesKept ==
  ASSUME Leaves, Ready, complete' = complete,
         \A k \in Keys : assemblers'[k] \in {assemblers[k], NoObj},
         \A w \in Workers : pc[w] = "parsed" =>
           \/ pc'[w] = "parsed" /\ key'[w] = key[w]
           \/ assemblers'[key[w]] = NoObj
  PROVE  Leaves'
  BY DEF Leaves, Ready, Present

\* Leaves is kept by every step.
LEMMA LeavesStep == Ready /\ RestTyped /\ Owned /\ Leaves /\ [Next]_vars => Leaves'
<1> SUFFICES ASSUME Ready, RestTyped, Owned, Leaves, [Next]_vars PROVE Leaves'
  OBVIOUS
<1> USE AssemblerAssumption
<1>t. Workers \subseteq Threads /\ Janitor \in Threads \ Workers
  BY DEF Threads
<1>1. ASSUME UNCHANGED <<assemblers, complete, key, pc>> PROVE Leaves'
  BY <1>1, LeavesKept
<1>2. ASSUME NEW t \in Threads, NEW l, Goto(t, l), pc[t] # "parsed", UNCHANGED <<assemblers, complete>>,
             \A v \in Workers : v # t => key'[v] = key[v]
      PROVE  Leaves'
  <2>1. \A v \in Workers : pc[v] = "parsed" => v # t /\ pc'[v] = "parsed" /\ key'[v] = key[v]
    BY <1>2, <1>t DEF Goto, Ready
  <2>2. QED
    BY <1>2, <2>1, LeavesKept
<1>3. ASSUME NEW w \in Workers, NEW k \in Keys, NEW F \in SUBSET Frags, ReceiveInitial(w, k, F)
      PROVE  Leaves'
  <2>1. \A v \in Workers : v # w => key'[v] = key[v]
    BY <1>3, <1>t DEF ReceiveInitial, Ready
  <2>2. QED
    BY <1>2, <1>3, <1>t, <2>1 DEF ReceiveInitial, amap, objects
<1>4. ASSUME NEW w \in Workers, pc[w] # "parsed", UNCHANGED <<assemblers, complete>>,
             Return(w) \/ \E l \in Labels : Goto(w, l) /\ UNCHANGED key
      PROVE  Leaves'
  <2>1. \A v \in Workers : v # w => key'[v] = key[v]
    BY <1>4, <1>t DEF Return, Ready
  <2>2. QED
    BY <1>2, <1>4, <1>t, <2>1 DEF Return
<1>5. ASSUME NEW w \in Workers, StoreAssembler(w) PROVE Leaves'
  <2>1. /\ UNCHANGED <<complete, key, obj>>
        /\ pc[w] = "insert" /\ key[w] \notin Present /\ key[w] \in Keys /\ obj[w] \in Objs
        /\ assemblers' = [assemblers EXCEPT ![key[w]] = obj[w]]
        /\ pc' = [pc EXCEPT ![w] = "test"]
    BY <1>5 DEF StoreAssembler, Goto, objects, wlocals, Ready
  <2>2. ~complete'[obj[w]]
    BY <2>1 DEF Owned, Fresh
  <2>3. ASSUME NEW k \in Keys, assemblers'[k] # NoObj, complete'[assemblers'[k]]
        PROVE  \E v \in Workers : pc'[v] = "parsed" /\ key'[v] = k
    <3>1. k # key[w] /\ assemblers'[k] = assemblers[k]
      BY <2>1, <2>2, <2>3 DEF Ready
    <3>2. PICK v \in Workers : pc[v] = "parsed" /\ key[v] = k
      BY <2>1, <2>3, <3>1 DEF Leaves, Present
    <3>3. pc'[v] = pc[v]
      BY <2>1, <3>2, <1>t DEF Ready
    <3>4. QED
      BY <2>1, <3>2, <3>3
  <2>4. QED
    BY <2>3 DEF Leaves, Present
<1>6. ASSUME NEW w \in Workers, TryParse(w) PROVE Leaves'
  <2>1. CASE Return(w) /\ UNCHANGED complete
    BY <1>4, <1>6, <2>1 DEF TryParse, amap
  <2>2. CASE /\ complete' = [complete EXCEPT ![obj[w]] = TRUE]
             /\ Goto(w, "parsed") /\ UNCHANGED <<key, wlocals>>
    <3>1. UNCHANGED <<assemblers, key>> /\ pc[w] = "add" /\ obj[w] \in Objs
      BY <1>6, <2>2 DEF TryParse, amap, Owned
    <3>2. pc'[w] = "parsed" /\ \A v \in Workers : v # w => pc'[v] = pc[v]
      BY <2>2, <1>t DEF Goto, Ready
    <3>3. \A o \in Objs : o # obj[w] => complete'[o] = complete[o]
      BY <2>2 DEF RestTyped
    <3>4. ASSUME NEW k \in Keys, assemblers'[k] # NoObj, complete'[assemblers'[k]]
          PROVE  \E v \in Workers : pc'[v] = "parsed" /\ key'[v] = k
      <4>1. CASE assemblers[k] = obj[w]
        <5>1. key[w] = k
          BY <3>1, <4>1 DEF Owned
        <5>2. QED
          BY <3>1, <3>2, <5>1
      <4>2. CASE assemblers[k] # obj[w]
        <5>1. assemblers[k] \in Objs /\ complete[assemblers[k]]
          BY <3>1, <3>3, <3>4, <4>2 DEF Ready
        <5>2. PICK v \in Workers : pc[v] = "parsed" /\ key[v] = k
          BY <3>1, <3>4, <5>1 DEF Leaves, Present
        <5>3. pc'[v] = "parsed" /\ key'[v] = k
          BY <3>1, <3>2, <5>2
        <5>4. QED
          BY <5>3
      <4>3. QED
        BY <4>1, <4>2
    <3>5. QED
      BY <3>4 DEF Leaves, Present
  <2>3. QED
    BY <1>6, <2>1, <2>2 DEF TryParse
<1>7. ASSUME NEW w \in Workers, WorkerStep(w) PROVE Leaves'
  <2>1. CASE LoadAssembler(w) \/ CreateAssembler(w) \/ ReserveSlot(w) \/ CapReached(w) \/ AlreadyStored(w)
             \/ CancelSlot(w) \/ ReloadAssembler(w) \/ NoAssembler(w) \/ CheckExpired(w)
             \/ TestComplete(w) \/ OpenSession(w)
    <3>1. pc[w] # "parsed" /\ UNCHANGED <<assemblers, complete>>
      BY <2>1 DEF LoadAssembler, CreateAssembler, ReserveSlot, CapReached, AlreadyStored, CancelSlot,
                  ReloadAssembler, NoAssembler, CheckExpired, TestComplete, OpenSession, amap, objects
    <3>2. \/ Return(w)
          \/ \E l \in {"check", "reserve", "insert", "reload", "cancel", "expire", "test", "add"} :
               Goto(w, l) /\ UNCHANGED key
      BY <2>1 DEF LoadAssembler, CreateAssembler, ReserveSlot, CapReached, AlreadyStored, CancelSlot,
                  ReloadAssembler, NoAssembler, CheckExpired, TestComplete, OpenSession, StoreFailed
    <3>3. QED
      BY <1>4, <3>1, <3>2 DEF Labels
  <2>2. CASE StoreAssembler(w)
    BY <1>5, <2>2
  <2>3. CASE AddFrame(w)
    BY <1>1, <2>3 DEF AddFrame, amap
  <2>4. CASE TryParse(w)
    BY <1>6, <2>4
  <2>5. QED
    BY <1>7, <2>1, <2>2, <2>3, <2>4 DEF WorkerStep
<1>8. ASSUME NEW t \in Threads, DeleteAssembler(t) PROVE Leaves'
  <2>1. /\ UNCHANGED <<complete, key>> /\ key[t] \in Keys
        /\ assemblers' = [assemblers EXCEPT ![key[t]] = NoObj]
        /\ \A v \in Threads : v # t => pc'[v] = pc[v]
    BY <1>8 DEF DeleteAssembler, Goto, objects, Present, Ready
  <2>2. \A v \in Workers : pc[v] = "parsed" =>
          (pc'[v] = "parsed" /\ key'[v] = key[v]) \/ assemblers'[key[v]] = NoObj
    BY <2>1, <1>t DEF Ready
  <2>3. \A k \in Keys : assemblers'[k] \in {assemblers[k], NoObj}
    BY <2>1 DEF Ready
  <2>4. QED
    BY <2>1, <2>2, <2>3, LeavesKept
<1>9. ASSUME NEW t \in Threads, AlreadyDeleted(t) \/ UncountAssembler(t) PROVE Leaves'
  <2>1. /\ UNCHANGED <<assemblers, complete>>
        /\ \A v \in Workers : key'[v] = key[v] /\ (v # t => pc'[v] = pc[v])
    BY <1>9, <1>t DEF AlreadyDeleted, UncountAssembler, Continue, ReplaceExpired, Goto, amap, objects, Ready
  <2>2. t \in Workers /\ pc[t] = "parsed" => assemblers[key[t]] = NoObj
    BY <1>9 DEF AlreadyDeleted, UncountAssembler, Uncounts, Present, Ready
  <2>3. QED
    BY <2>1, <2>2, LeavesKept
<1>10. ASSUME JanitorStep PROVE Leaves'
  <2>1. /\ UNCHANGED <<complete, assemblers>> /\ \A w \in Workers : key'[w] = key[w]
        /\ pc[Janitor] # "parsed" /\ \E l \in Labels : Goto(Janitor, l)
    BY <1>10, <1>t DEF JanitorStep, Tick, ScanDone, PressDone, ScanNext, PressNext, amap, objects, Ready,
                       Labels
  <2>2. QED
    BY <1>2, <1>t, <2>1
<1>11. CASE UNCHANGED vars
  BY <1>1, <1>11 DEF vars, amap, objects
<1>12. ASSUME NEW k \in Keys, SessionEnds(k) PROVE Leaves'
  BY <1>1, <1>12 DEF SessionEnds, amap, objects
<1>13. ASSUME NEW o \in Objs, GrowOld(o) PROVE Leaves'
  BY <1>1, <1>13 DEF GrowOld, amap
<1>14. QED
  BY <1>3, <1>7, <1>8, <1>9, <1>10, <1>11, <1>12, <1>13 DEF Next, DeleteStep

\* A complete assembler never lingers: while the map has one, the worker that
\* completed it is about to delete its DCID, whatever other workers and the
\* ticker do with that DCID meanwhile.
THEOREM CompleteSafe == Spec => []CompleteLeaves
<1> USE AssemblerAssumption
<1>1. Init => RestTyped /\ Owned /\ Leaves
  <2> SUFFICES ASSUME Init PROVE RestTyped /\ Owned /\ Leaves
    OBVIOUS
  <2>1. RestTyped
    BY DEF Init, RestTyped
  <2>2. Leaves
    BY DEF Init, Leaves, Present
  <2>3. \A w \in Workers : pc[w] = "idle" /\ obj[w] = 0
    BY DEF Init, Threads, NoObj
  <2>4. \A k \in Keys : assemblers[k] = 0
    BY DEF Init, NoObj
  <2>5. \A o \in Objs : ~complete[o]
    BY Zenon DEF Init
  <2>6. QED
    BY <2>1, <2>2, <2>3, <2>4, <2>5 DEF Init, Owned, NoObj
<1>2. /\ Ready /\ RestTyped /\ Owned /\ Leaves /\ [Next]_vars
      => RestTyped' /\ Owned' /\ Leaves'
  BY RestStep, OwnedStep, LeavesStep
<1>3. Ready /\ CountExact /\ RestTyped /\ Leaves => CompleteLeaves
  <2> SUFFICES ASSUME Ready, CountExact, RestTyped, Leaves PROVE CompleteLeaves
    OBVIOUS
  <2>1. assemblerCount \in Nat
    BY Sizes DEF CountExact
  <2>2. TypeOK
    BY <2>1 DEF TypeOK, Ready, RestTyped
  <2>3. QED
    BY <2>2 DEF CompleteLeaves, Leaves
<1>4. QED
  BY <1>1, <1>2, <1>3, AlwaysReady, AssemblerCount, PTL DEF Spec
=============================================================================
