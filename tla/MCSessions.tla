----------------------------- MODULE MCSessions -----------------------------
(***************************************************************************)
(* Small instances of Sessions.  The two addresses hash to different       *)
(* workers (TwoWorkers) or to the same one (OneWorker).                    *)
(***************************************************************************)
EXTENDS Sessions, TLC

CONSTANTS w1, w2, a1, a2, c1, c2

TwoWorkers == a1 :> w1 @@ a2 :> w2
OneWorker == [a \in Addrs |-> w1]

\* A limit of one session that a reload raises to two, or none.
LimitRaised == c1 :> 1 @@ c2 :> 2
Unlimited == [c \in Chains |-> 0]

Migration == {TRUE}
NoMigration == {FALSE}
=============================================================================
