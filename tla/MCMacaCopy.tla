------------------------------ MODULE MCMacaCopy ------------------------------
(* Instances of MacaCopy for TLC.                                            *)
EXTENDS MacaCopy, TLC

Symmetric == Permutations(Threads) \cup Permutations(Devices)
               \cup Permutations(Buffers) \cup Permutations(Metas)
=============================================================================
