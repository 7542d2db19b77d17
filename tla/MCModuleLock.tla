---------------------------- MODULE MCModuleLock ----------------------------
(* Instances of ModuleLock for TLC; the constants are in the .cfg files.   *)
EXTENDS ModuleLock, TLC

Symmetry == Permutations(Threads) \cup Permutations(Locks)
=============================================================================
