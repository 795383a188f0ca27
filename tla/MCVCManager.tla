---------------------------- MODULE MCVCManager ----------------------------
(* VCManager on small instances.                                           *)
EXTENDS VCManager, TLC

Symmetry == Permutations(Spines) \cup Permutations(Leaves)
              \cup Permutations(Servers) \cup Permutations(VCIds)
=============================================================================
