----------------------------- MODULE MCFailover -----------------------------
(***************************************************************************)
(* Failover with a hub and up to three peers.                              *)
(***************************************************************************)
EXTENDS Failover

CONSTANTS h, a, b, c

MCRank == [n \in Peers |-> CASE n = a -> 0 [] n = b -> 1 [] OTHER -> 2]

NoEvents == [e \in Events |-> 0]

OneOfEach == [e \in Events |-> 1]

CrashOnly == [NoEvents EXCEPT !["crash"] = 1]
=============================================================================
