----------------------------- MODULE MCPresence -----------------------------
(***************************************************************************)
(* Peers meet only in the capacity of the topology, which the variable     *)
(* full stands for, and in the backup store: one peer is enough.           *)
(***************************************************************************)
EXTENDS Presence

=============================================================================
