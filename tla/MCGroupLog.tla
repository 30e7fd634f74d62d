----------------------------- MODULE MCGroupLog -----------------------------
(***************************************************************************)
(* GroupLog with three messages and the fault budgets of its runs.         *)
(***************************************************************************)
EXTENDS GroupLog

CONSTANTS m1, m2, m3

OneOfEach == [f \in Faults |-> 1]
=============================================================================
