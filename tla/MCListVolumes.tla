--------------------------- MODULE MCListVolumes ----------------------------
(* ListVolumes on small instances. *)
EXTENDS ListVolumes, TLC

\* The NAS may give any free index: indexes are interchangeable.
Symmetry == Permutations(Vols) \cup Permutations(Idx)
=============================================================================
