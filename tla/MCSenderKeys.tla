---------------------------- MODULE MCSenderKeys ----------------------------
(* SenderKeys with two members, both of which have the other's key. *)
EXTENDS SenderKeys

CONSTANTS a, b

EventLimits == [e \in Events |-> IF e = "leave" THEN 2 ELSE 1]
=============================================================================
