----------------------------- MODULE MCMacaMemPeak -----------------------------
(* Instances of MacaMemPeak for TLC.                                         *)
EXTENDS MacaMemPeak, TLC

Symmetric == Permutations(Threads)
=============================================================================
