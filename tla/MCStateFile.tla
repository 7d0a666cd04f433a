----------------------------- MODULE MCStateFile -----------------------------
(* Two processes share a directory.                                        *)
EXTENDS StateFile, TLC

Symmetry == Permutations(Procs)
=============================================================================
