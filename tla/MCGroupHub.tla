---- MODULE MCGroupHub ----
(* Small instances of GroupHub: the hub node h and three others, with the   *)
(* node ids ordered so that the hub's is neither the lowest nor the highest. *)
EXTENDS GroupHub

CONSTANTS h, a, b, c

MCRank == [n \in Nodes |-> CASE n = a -> 0 [] n = h -> 1 [] n = b -> 2 [] OTHER -> 3]

\* No step reads the snapshot after the last restart.
MCView ==
  <<group, createdBy, inviteOnly, grants, joins, adminLeft, restarts,
    IF restarts < MaxRestarts THEN saved ELSE NoGroup>>
====
