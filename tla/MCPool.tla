------------------------------- MODULE MCPool -------------------------------
(***************************************************************************)
(* A pool of two shards; two clients share one of them.                    *)
(***************************************************************************)
EXTENDS WorkerPool

CONSTANTS s1, s2, a2

Hash == [a \in Addrs |-> IF a = a2 THEN s2 ELSE s1]
=============================================================================
