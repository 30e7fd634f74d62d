----------------------------- MODULE MCDelivery -----------------------------
(***************************************************************************)
(* Delivery on small instances.  The values of the constants are in the    *)
(* .cfg files; messages and relays are interchangeable.                    *)
(***************************************************************************)
EXTENDS Delivery, TLC

Symmetry == Permutations(Msgs) \cup Permutations(Relays)
=============================================================================
