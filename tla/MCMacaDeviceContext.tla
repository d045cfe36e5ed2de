-------------------------- MODULE MCMacaDeviceContext --------------------------
(* Instances of MacaDeviceContext for TLC.                                   *)
EXTENDS MacaDeviceContext, TLC

Symmetric == Permutations(Threads)
=============================================================================
