----------------------------- MODULE MCPending -----------------------------
(***************************************************************************)
(* Small instances of PendingPackets: the packets of a DCID come from one  *)
(* client address, hence reach one worker, or from two.                    *)
(***************************************************************************)
EXTENDS PendingPackets, TLC

CONSTANTS w1, w2, k1, k2

Mixed == k1 :> {w1} @@ k2 :> {w1, w2}
=============================================================================
