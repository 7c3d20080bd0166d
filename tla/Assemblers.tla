----------------------------- MODULE Assemblers -----------------------------
(***************************************************************************)
(* Collecting a ClientHello from several Initial packets: the map          *)
(* assemblers with its counter assemblerCount (internal/proxy/proxy.go),   *)
(* the part of handlePacket between findSession and the new context, and   *)
(* the two assembler passes of cleanupSessions.                            *)
(*                                                                         *)
(* The bytes of a ClientHello are the set Frags; AddFrame adds one, and    *)
(* TryParse succeeds when none is missing.  Time is an age per assembler:  *)
(* "young", "old" (over 2 s) or "expired" (over assemblerTimeout).  Each   *)
(* operation on the map, the counter or an assembler's mutex is one step.  *)
(***************************************************************************)
EXTENDS Integers, FiniteSets

CONSTANTS
  Workers, Janitor,  \* goroutines: packet workers and the cleanup ticker
  Keys,              \* DCIDs
  ServedBy,          \* the workers that get Initials of a DCID: more than
                     \* one when they come from several client addresses
  Frags,             \* what a ClientHello consists of
  Cap,               \* maxAssemblers
  HighWater,         \* maxAssemblers*9/10
  MaxObj             \* bound: assemblers created

NoObj == 0
NoKey == "none"
Objs == 1..MaxObj
Threads == Workers \cup {Janitor}

ASSUME AssemblerAssumption ==
  /\ Janitor \notin Workers
  /\ NoKey \notin Keys
  /\ ServedBy \in [Keys -> SUBSET Workers]
  /\ Cap \in Nat /\ HighWater \in Nat /\ MaxObj \in Nat
  /\ IsFiniteSet(Keys) /\ IsFiniteSet(Threads)

VARIABLES
  assemblers,      \* DCID -> assembler, NoObj when absent
  assemblerCount,  \* the atomic counter
  nextObj,         \* the next assembler NewCryptoAssembler returns
  got, complete, age,  \* contents of an assembler
  known,           \* DCIDs with a session: their packets do not come here
  pc, key,         \* of every goroutine: label and DCID at hand
  obj, pkt,        \* of a worker: its assembler, frames left to add
  replacing,       \* of a worker: storeAssembler is called for an expired one
  todo, seen       \* of the ticker: DCIDs left to visit, assemblerCount (local)

amap == <<assemblers, assemblerCount>>
objects == <<nextObj, got, complete, age>>
wlocals == <<obj, pkt, replacing>>
scan == <<todo, seen>>
vars == <<amap, objects, known, pc, key, wlocals, scan>>

Present == {k \in Keys : assemblers[k] # NoObj}
Goto(t, label) == pc' = [pc EXCEPT ![t] = label]
Labels == {"idle", "load", "reserve", "insert", "cancel", "reload", "check", "expire",
           "test", "add", "parsed", "uncount", "uncountExpired", "open",
           "scan", "press", "sweep", "sweepPress", "uncountScan", "uncountPress"}

\* Type invariant: the counter never goes negative, and goroutines hold only
\* DCIDs, assemblers and labels of their own kind.
TypeOK ==
  /\ assemblers \in [Keys -> Objs \cup {NoObj}]
  /\ assemblerCount \in Nat
  /\ nextObj \in 1..(MaxObj + 1)
  /\ got \in [Objs -> SUBSET Frags]
  /\ complete \in [Objs -> BOOLEAN]
  /\ age \in [Objs -> {"young", "old", "expired"}]
  /\ known \in SUBSET Keys
  /\ pc \in [Threads -> Labels]
  /\ key \in [Threads -> Keys \cup {NoKey}]
  /\ obj \in [Workers -> Objs \cup {NoObj}]
  /\ pkt \in [Workers -> SUBSET Frags]
  /\ replacing \in [Workers -> BOOLEAN]
  /\ todo \in SUBSET Keys
  /\ seen \in Nat

Init ==
  /\ assemblers = [k \in Keys |-> NoObj]
  /\ assemblerCount = 0
  /\ nextObj = 1
  /\ got = [o \in Objs |-> {}]
  /\ complete = [o \in Objs |-> FALSE]
  /\ age = [o \in Objs |-> "young"]
  /\ known = {}
  /\ pc = [t \in Threads |-> "idle"]
  /\ key = [t \in Threads |-> NoKey]
  /\ obj = [w \in Workers |-> NoObj]
  /\ pkt = [w \in Workers |-> {}]
  /\ replacing = [w \in Workers |-> FALSE]
  /\ todo = {}
  /\ seen = 0

-----------------------------------------------------------------------------
(* handlePacket for an Initial of a DCID without a session.                *)

ReceiveInitial(w, k, F) ==
  /\ pc[w] = "idle"
  /\ w \in ServedBy[k]
  /\ k \notin known
  /\ key' = [key EXCEPT ![w] = k]
  /\ pkt' = [pkt EXCEPT ![w] = F]
  /\ Goto(w, "load")
  /\ UNCHANGED <<amap, objects, known, obj, replacing, scan>>

\* handlePacket returns.
Return(w) ==
  /\ Goto(w, "idle")
  /\ key' = [key EXCEPT ![w] = NoKey]
  /\ obj' = [obj EXCEPT ![w] = NoObj]
  /\ pkt' = [pkt EXCEPT ![w] = {}]
  /\ replacing' = [replacing EXCEPT ![w] = FALSE]

\* NewCryptoAssembler.
Create(w) ==
  /\ nextObj <= MaxObj
  /\ obj' = [obj EXCEPT ![w] = nextObj]
  /\ nextObj' = nextObj + 1

\* loadOrCreateAssembler: the first Load finds an assembler ...
LoadAssembler(w) ==
  /\ pc[w] = "load"
  /\ key[w] \in Present
  /\ obj' = [obj EXCEPT ![w] = assemblers[key[w]]]
  /\ Goto(w, "check")
  /\ UNCHANGED <<amap, objects, known, key, pkt, replacing, scan>>

\* ... or a new one is created.
CreateAssembler(w) ==
  /\ pc[w] = "load"
  /\ key[w] \notin Present
  /\ Create(w)
  /\ Goto(w, "reserve")
  /\ UNCHANGED <<amap, got, complete, age, known, key, pkt, replacing, scan>>

\* Where storeAssembler's caller goes on after FALSE.
StoreFailed(w) ==
  \/ ~replacing[w] /\ Goto(w, "reload") /\ UNCHANGED <<key, wlocals>>
  \/ replacing[w] /\ Return(w)

\* Mutant: admits one more than the cap.
ReservePastCap(w) ==
  /\ pc[w] = "reserve"
  /\ assemblerCount <= Cap
  /\ assemblerCount' = assemblerCount + 1
  /\ Goto(w, "insert")
  /\ UNCHANGED <<assemblers, objects, known, key, wlocals, scan>>

\* storeAssembler: the compare-and-swap loop takes a slot ...
ReserveSlot(w) ==
  /\ pc[w] = "reserve"
  /\ assemblerCount < Cap
  /\ assemblerCount' = assemblerCount + 1
  /\ Goto(w, "insert")
  /\ UNCHANGED <<assemblers, objects, known, key, wlocals, scan>>

CapReached(w) ==
  /\ pc[w] = "reserve"
  /\ assemblerCount >= Cap
  /\ StoreFailed(w)
  /\ UNCHANGED <<amap, objects, known, scan>>

\* ... LoadOrStore fills it ...
StoreAssembler(w) ==
  /\ pc[w] = "insert"
  /\ key[w] \notin Present
  /\ assemblers' = [assemblers EXCEPT ![key[w]] = obj[w]]
  /\ Goto(w, "test")
  /\ UNCHANGED <<assemblerCount, objects, known, key, wlocals, scan>>

\* ... or finds the DCID taken, and the slot is given back.
AlreadyStored(w) ==
  /\ pc[w] = "insert"
  /\ key[w] \in Present
  /\ Goto(w, "cancel")
  /\ UNCHANGED <<amap, objects, known, key, wlocals, scan>>

CancelSlot(w) ==
  /\ pc[w] = "cancel"
  /\ assemblerCount' = assemblerCount - 1
  /\ StoreFailed(w)
  /\ UNCHANGED <<assemblers, objects, known, scan>>

\* loadOrCreateAssembler, second Load.
ReloadAssembler(w) ==
  /\ pc[w] = "reload"
  /\ key[w] \in Present
  /\ obj' = [obj EXCEPT ![w] = assemblers[key[w]]]
  /\ Goto(w, "check")
  /\ UNCHANGED <<amap, objects, known, key, pkt, replacing, scan>>

\* The Initial is dropped.
NoAssembler(w) ==
  /\ pc[w] = "reload"
  /\ key[w] \notin Present
  /\ Return(w)
  /\ UNCHANGED <<amap, objects, known, scan>>

\* A loaded assembler that has expired is deleted and replaced.
CheckExpired(w) ==
  /\ pc[w] = "check"
  /\ Goto(w, IF age[obj[w]] = "expired" THEN "expire" ELSE "test")
  /\ UNCHANGED <<amap, objects, known, key, wlocals, scan>>

ReplaceExpired(w) ==
  /\ Create(w)
  /\ replacing' = [replacing EXCEPT ![w] = TRUE]
  /\ Goto(w, "reserve")

TestComplete(w) ==
  /\ pc[w] = "test"
  /\ \/ complete[obj[w]] /\ Return(w)
     \/ ~complete[obj[w]] /\ Goto(w, "add") /\ UNCHANGED <<key, wlocals>>
  /\ UNCHANGED <<amap, objects, known, scan>>

AddFrame(w) ==
  /\ pc[w] = "add"
  /\ \E f \in pkt[w] : /\ got' = [got EXCEPT ![obj[w]] = @ \cup {f}]
                       /\ pkt' = [pkt EXCEPT ![w] = @ \ {f}]
  /\ UNCHANGED <<amap, nextObj, complete, age, known, pc, key, obj, replacing, scan>>

\* TryParse; an assembler that is complete already parses once more.
TryParse(w) ==
  /\ pc[w] = "add"
  /\ pkt[w] = {}
  /\ \/ /\ got[obj[w]] = Frags
        /\ complete' = [complete EXCEPT ![obj[w]] = TRUE]
        /\ Goto(w, "parsed")
        /\ UNCHANGED <<key, wlocals>>
     \/ /\ got[obj[w]] # Frags
        /\ Return(w)
        /\ UNCHANGED complete
  /\ UNCHANGED <<amap, nextObj, got, age, known, scan>>

\* OnConnect and storeSession: the DCID has a session, or the chain drops it.
OpenSession(w) ==
  /\ pc[w] = "open"
  /\ known' \in {known, known \cup {key[w]}}
  /\ Return(w)
  /\ UNCHANGED <<amap, objects, scan>>

\* A session ends (deleteSession).
SessionEnds(k) ==
  /\ k \in known
  /\ known' = known \ {k}
  /\ UNCHANGED <<amap, objects, pc, key, wlocals, scan>>

-----------------------------------------------------------------------------
(* deleteAssembler, called at four places.                                 *)

\* Labels before LoadAndDelete and before Add(-1), for each of the callers.
Deletes == {"expire", "parsed", "sweep", "sweepPress"}
Uncounts == {"uncountExpired", "uncount", "uncountScan", "uncountPress"}
Uncounting(l) == CASE l = "expire" -> "uncountExpired" [] l = "parsed" -> "uncount"
                   [] l = "sweep" -> "uncountScan" [] l = "sweepPress" -> "uncountPress"
Resume(l) == CASE l = "uncount" -> "open" [] l = "uncountScan" -> "scan"
               [] l = "uncountPress" -> "press"

\* Mutant: forgets the assembler of a parsed ClientHello.
KeepParsed(t) ==
  /\ pc[t] \in Deletes
  /\ key[t] \in Present
  /\ IF pc[t] = "parsed"
     THEN Goto(t, "open") /\ UNCHANGED assemblers
     ELSE /\ assemblers' = [assemblers EXCEPT ![key[t]] = NoObj]
          /\ Goto(t, Uncounting(pc[t]))
  /\ UNCHANGED <<assemblerCount, objects, known, key, wlocals, scan>>

\* LoadAndDelete by DCID, whichever assembler is stored there ...
DeleteAssembler(t) ==
  /\ pc[t] \in Deletes
  /\ key[t] \in Present
  /\ assemblers' = [assemblers EXCEPT ![key[t]] = NoObj]
  /\ Goto(t, Uncounting(pc[t]))
  /\ UNCHANGED <<assemblerCount, objects, known, key, wlocals, scan>>

\* The caller goes on: an expired assembler is replaced, a parsed one opens a
\* session, the ticker visits the next DCID.
Continue(t, next) ==
  \/ next = "uncountExpired" /\ ReplaceExpired(t) /\ UNCHANGED <<got, complete, age, key, pkt>>
  \/ /\ next # "uncountExpired"
     /\ Goto(t, Resume(next))
     /\ key' = IF t = Janitor THEN [key EXCEPT ![t] = NoKey] ELSE key
     /\ UNCHANGED <<objects, wlocals>>

\* Mutant: the counter goes down for an assembler someone else deleted.
UncountTwice(t) ==
  /\ pc[t] \in Deletes
  /\ key[t] \notin Present
  /\ assemblerCount' = assemblerCount - 1
  /\ Continue(t, Uncounting(pc[t]))
  /\ UNCHANGED <<assemblers, known, scan>>

\* ... nothing to do when another goroutine has deleted it ...
AlreadyDeleted(t) ==
  /\ pc[t] \in Deletes
  /\ key[t] \notin Present
  /\ Continue(t, Uncounting(pc[t]))
  /\ UNCHANGED <<amap, known, scan>>

\* ... otherwise Add(-1).
UncountAssembler(t) ==
  /\ pc[t] \in Uncounts
  /\ assemblerCount' = assemblerCount - 1
  /\ Continue(t, pc[t])
  /\ UNCHANGED <<assemblers, known, scan>>

-----------------------------------------------------------------------------
(* cleanupSessions, the assembler part of a tick.                          *)

Tick ==
  /\ pc[Janitor] = "idle"
  /\ todo' = Keys
  /\ seen' = 0
  /\ Goto(Janitor, "scan")
  /\ UNCHANGED <<amap, objects, known, key, wlocals>>

\* Mutant: an expired assembler is passed over, neither removed nor counted.
ScanSkipsExpired(k) ==
  /\ pc[Janitor] = "scan"
  /\ k \in todo
  /\ todo' = todo \ {k}
  /\ seen' = IF k \in Present /\ age[assemblers[k]] # "expired" THEN seen + 1 ELSE seen
  /\ UNCHANGED <<amap, objects, known, pc, key, wlocals>>

\* First Range: expired assemblers go, the others are counted.
ScanNext(k) ==
  LET found == k \in Present
      stale == found /\ age[assemblers[k]] = "expired"
  IN  /\ pc[Janitor] = "scan"
      /\ k \in todo
      /\ todo' = todo \ {k}
      /\ seen' = IF found /\ ~stale THEN seen + 1 ELSE seen
      /\ key' = [key EXCEPT ![Janitor] = IF stale THEN k ELSE NoKey]
      /\ Goto(Janitor, IF stale THEN "sweep" ELSE "scan")
      /\ UNCHANGED <<amap, objects, known, wlocals>>

ScanDone ==
  /\ pc[Janitor] = "scan"
  /\ todo = {}
  /\ todo' = IF seen >= HighWater THEN Keys ELSE {}
  /\ seen' = 0
  /\ Goto(Janitor, IF seen >= HighWater THEN "press" ELSE "idle")
  /\ UNCHANGED <<amap, objects, known, key, wlocals>>

\* Second Range, near the cap: whatever is complete or older than 2 s goes.
PressNext(k) ==
  LET o == assemblers[k]
      stale == k \in Present /\ (complete[o] \/ age[o] # "young")
  IN  /\ pc[Janitor] = "press"
      /\ k \in todo
      /\ todo' = todo \ {k}
      /\ key' = [key EXCEPT ![Janitor] = IF stale THEN k ELSE NoKey]
      /\ Goto(Janitor, IF stale THEN "sweepPress" ELSE "press")
      /\ UNCHANGED <<amap, objects, known, wlocals, seen>>

PressDone ==
  /\ pc[Janitor] = "press"
  /\ todo = {}
  /\ Goto(Janitor, "idle")
  /\ UNCHANGED <<amap, objects, known, key, wlocals, scan>>

\* Time passes for an assembler that is in the map or in a worker's hands.
GrowOld(o) ==
  /\ o \in {assemblers[k] : k \in Keys} \cup {obj[w] : w \in Workers}
  /\ age[o] # "expired"
  /\ age' = [age EXCEPT ![o] = IF @ = "young" THEN "old" ELSE "expired"]
  /\ UNCHANGED <<amap, nextObj, got, complete, known, pc, key, wlocals, scan>>

-----------------------------------------------------------------------------
WorkerStep(w) ==
  \/ LoadAssembler(w) \/ CreateAssembler(w) \/ ReserveSlot(w) \/ CapReached(w)
  \/ StoreAssembler(w) \/ AlreadyStored(w) \/ CancelSlot(w) \/ ReloadAssembler(w)
  \/ NoAssembler(w) \/ CheckExpired(w) \/ TestComplete(w) \/ AddFrame(w) \/ TryParse(w)
  \/ OpenSession(w)

DeleteStep(t) == DeleteAssembler(t) \/ AlreadyDeleted(t) \/ UncountAssembler(t)

JanitorStep ==
  \/ Tick \/ ScanDone \/ PressDone
  \/ \E k \in Keys : ScanNext(k) \/ PressNext(k)

Next ==
  \/ \E w \in Workers : \/ \E k \in Keys, F \in SUBSET Frags : ReceiveInitial(w, k, F)
                        \/ WorkerStep(w)
  \/ \E t \in Threads : DeleteStep(t)
  \/ JanitorStep
  \/ \E k \in Keys : SessionEnds(k)
  \/ \E o \in Objs : GrowOld(o)

Spec == Init /\ [][Next]_vars

\* The ticker fires again and again and its goroutine is scheduled.
FairSpec == Spec /\ WF_vars(JanitorStep) /\ WF_vars(DeleteStep(Janitor))

-----------------------------------------------------------------------------
\* Goroutines that hold a slot without an entry: reserved, to be given back
\* after a lost LoadOrStore, or owed after LoadAndDelete.
InFlight == {t \in Threads : pc[t] \in {"insert", "cancel"} \cup Uncounts}

\* The counter is exactly the assemblers in the map plus the slots in
\* flight: storeAssembler and deleteAssembler never lose or invent one.
CountExact == assemblerCount = Cardinality(Present) + Cardinality(InFlight)

Bounded == INSTANCE BoundedMap WITH present <- Present, spare <- Cardinality(InFlight)
\* However storeAssembler, deleteAssembler and the ticker interleave, they
\* implement a map that maxAssemblers bounds, slots in flight included.
RefinesBoundedMap == Bounded!BSpec

\* handlePacket ignores Initials whose assembler is complete, so a complete
\* assembler must not linger: as long as one is in the map, the worker that
\* completed it is about to delete that DCID.
CompleteLeaves ==
  /\ TypeOK
  /\ \A k \in Present : complete[assemblers[k]] =>
       \E w \in Workers : pc[w] = "parsed" /\ key[w] = k

\* An expired assembler does not stay in the map: a client that sends it
\* nothing more does not keep its slot, the ticker's cleanupSessions takes it.
ExpiredRemoved ==
  \A k \in Keys : LET expired == k \in Present /\ age[assemblers[k]] = "expired"
                  IN  expired ~> ~expired
=============================================================================
