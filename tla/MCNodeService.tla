--------------------------- MODULE MCNodeService ----------------------------
(* NodeService on small instances. *)
EXTENDS NodeService, TLC

Symmetry == Permutations(Paths)
=============================================================================
