--------------------------- MODULE MCRollbackStore ---------------------------
(* Symmetry for RollbackStore: no definition tells one session from another. *)
EXTENDS RollbackStore, TLC

Symmetry == Permutations(Sessions)
==============================================================================
