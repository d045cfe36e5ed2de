---------------------------- MODULE MCMcclAllReduce ----------------------------
(* Instances of McclAllReduce for TLC: reductions shorter than a segment, of *)
(* just its length, one longer, of several segments, and of no element at    *)
(* all, with elements larger and smaller than the segment.                   *)
EXTENDS McclAllReduce, TLC

Mixed == << [count |-> 5, element_size |-> 2], [count |-> 0, element_size |-> 4],
            [count |-> 2, element_size |-> 2], [count |-> 3, element_size |-> 8] >>

(* Unreadable, too large, disabled, unset, and three lengths.                *)
Settings == {Unset, Malformed, 0, 1, 2, 3, 4}

Symmetric == Permutations(Ranks)
=============================================================================
