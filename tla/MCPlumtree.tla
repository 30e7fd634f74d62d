----------------------------- MODULE MCPlumtree -----------------------------
(***************************************************************************)
(* Plumtree on a triangle of nodes: an eager path over two of its links,   *)
(* one lazy link.                                                          *)
(***************************************************************************)
EXTENDS Plumtree

CONSTANTS a, b, c

Triangle == {{a, b}, {b, c}, {a, c}}
Path == {{a, b}, {b, c}}
=============================================================================
