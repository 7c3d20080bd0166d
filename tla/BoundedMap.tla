----------------------------- MODULE BoundedMap -----------------------------
(***************************************************************************)
(* What the hard caps of the relay promise: a map that several goroutines  *)
(* fill and empty, of which the entries and the slots taken for entries    *)
(* about to be inserted, or not yet given back, never exceed Cap.          *)
(* Assemblers and PendingPackets implement it with a sync.Map and an       *)
(* atomic counter that are updated one after the other.                    *)
(***************************************************************************)
EXTENDS Integers, FiniteSets

CONSTANTS Keys, Cap

VARIABLES
  present,  \* the keys in the map
  spare     \* slots taken that hold no entry

bvars == <<present, spare>>

\* Nothing is under way; the map may hold entries already.
BInit == /\ present \in SUBSET Keys
         /\ Cardinality(present) <= Cap
         /\ spare = 0

Reserve == /\ Cardinality(present) + spare < Cap
           /\ spare' = spare + 1
           /\ UNCHANGED present

Insert(k) == /\ spare > 0 /\ k \notin present
             /\ present' = present \cup {k}
             /\ spare' = spare - 1

Remove(k) == /\ k \in present
             /\ present' = present \ {k}
             /\ spare' = spare + 1

GiveBack == spare > 0 /\ spare' = spare - 1 /\ UNCHANGED present

BNext == \/ Reserve \/ GiveBack
         \/ \E k \in Keys : Insert(k) \/ Remove(k)

BSpec == BInit /\ [][BNext]_bvars

\* The map together with the slots in flight stays within its cap.
WithinCap == Cardinality(present) + spare <= Cap
=============================================================================
