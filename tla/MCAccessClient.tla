---------------------------- MODULE MCAccessClient ----------------------------
(* Two tasks share a client.                                               *)
EXTENDS AccessClient, TLC

Symmetry == Permutations(Threads) \cup Permutations(LicenceKeys)
=============================================================================
