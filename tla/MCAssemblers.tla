---------------------------- MODULE MCAssemblers ----------------------------
(***************************************************************************)
(* A small instance of Assemblers: the Initials of one DCID come from two  *)
(* client addresses, hence reach two workers.  A second client has sent    *)
(* part of its ClientHello and gone silent: the run starts with its        *)
(* assembler in the map, which takes a slot until the ticker removes it.   *)
(***************************************************************************)
EXTENDS Assemblers, TLC

CONSTANTS w1, w2, k1, k2

OneSilent == k1 :> {w1, w2} @@ k2 :> {}

MCInit ==
  /\ assemblers = k1 :> NoObj @@ k2 :> 1
  /\ assemblerCount = 1
  /\ nextObj = 2
  /\ got = [o \in Objs |-> {}]
  /\ complete = [o \in Objs |-> FALSE]
  /\ age = [o \in Objs |-> IF o = 1 THEN "expired" ELSE "young"]
  /\ known = {}
  /\ pc = [t \in Threads |-> "idle"]
  /\ key = [t \in Threads |-> NoKey]
  /\ obj = [w \in Workers |-> NoObj]
  /\ pkt = [w \in Workers |-> {}]
  /\ replacing = [w \in Workers |-> FALSE]
  /\ todo = {}
  /\ seen = 0

MCSpec == MCInit /\ [][Next]_vars /\ WF_vars(JanitorStep) /\ WF_vars(DeleteStep(Janitor))
=============================================================================
