------------------------------- MODULE AllReduce -------------------------------
(***************************************************************************)
(* What all-reduces promise their callers: every element of every          *)
(* reduction goes, on all ranks together and just once, from the value     *)
(* the rank sent to the value reduced over all ranks; one reduction is     *)
(* over, with no element left out, before the next begins; and in the end  *)
(* all of them are.                                                        *)
(***************************************************************************)
EXTENDS Integers

CONSTANTS
    Ranks,          \* ranks of the communicator
    Elements        \* elements <<reduction, index>> of all the reductions

VARIABLE
    outcome         \* rank -> element -> "own", "reduced" or "spoiled"

Init == outcome = [r \in Ranks |-> [e \in Elements |-> "own"]]

(* Some elements that no rank has reduced yet are reduced on every rank,     *)
(* after all those of the reductions before theirs.                          *)
Reduce(S) ==
    /\ \A r \in Ranks, e \in S : outcome[r][e] = "own"
    /\ \A r \in Ranks, e \in S, f \in Elements :
          f[1] < e[1] => outcome[r][f] = "reduced"
    /\ outcome' = [r \in Ranks |->
                     [e \in Elements |-> IF e \in S THEN "reduced" ELSE outcome[r][e]]]

Next == \E S \in SUBSET Elements : Reduce(S)

Spec == Init /\ [][Next]_outcome /\ WF_outcome(Next)
=============================================================================
