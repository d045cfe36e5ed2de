---------------------------- MODULE MCMacaAllocator ----------------------------
(* Instances of MacaAllocator for TLC.                                       *)
EXTENDS MacaAllocator, TLC

(* Threads and addresses are interchangeable in the safety properties.       *)
Symmetric == Permutations(Threads) \cup Permutations(Ptrs)
=============================================================================
