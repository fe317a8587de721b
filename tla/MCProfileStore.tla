-------------------------- MODULE MCProfileStore --------------------------
(* A permanent service and a workspace with one store. *)
EXTENDS ProfileStore, TLC
CONSTANTS d1, d2, x, y, service, workspace
MCSymmetry == Permutations({d1, d2}) \cup Permutations({x, y})
=============================================================================
