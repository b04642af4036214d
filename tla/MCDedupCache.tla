---------------------------- MODULE MCDedupCache ----------------------------
(* An instance of DedupCache for TLC: ids are interchangeable. *)
EXTENDS DedupCache, TLC

CONSTANTS e1, e2, e3

Symmetry == Permutations(Ids)
=============================================================================
