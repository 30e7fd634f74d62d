----------------------------- MODULE MCHyParView -----------------------------
(***************************************************************************)
(* Instances of HyParView for TLC: every node joins through node a.        *)
(***************************************************************************)
EXTENDS HyParView

CONSTANTS a

Star == [n \in Nodes |-> IF n = a THEN {} ELSE {a}]
=============================================================================
