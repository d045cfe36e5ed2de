------------------------------ MODULE MCFunctions ------------------------------
(***************************************************************************)
(* The pure parts of the backend on small inputs: a behaviour is the call  *)
(* of one of them.  The inputs are those the checks of the code let in.    *)
(***************************************************************************)
EXTENDS IndexKernels, LaunchPolicy

Index(n, values) == [0 .. n - 1 -> values]

Slices == {[op |-> "Slice", dims |-> <<2, 3>>, starts |-> <<r, s>>, ends |-> <<e, f>>, steps |-> <<1, k>>] :
             r \in -1 .. 1, e \in 1 .. 2, s \in -2 .. 2, f \in 2 .. 4, k \in 0 .. 2}
Gathers == {[op |-> "Gather", dims |-> <<2, 3>>, indexDims |-> <<2, 2>>, dim |-> 2, index |-> i] : i \in Index(4, {-4, -1, 0, 3})}
           \cup {[op |-> "Gather", dims |-> <<2, n, 2>>, indexDims |-> <<1, m, 2>>, dim |-> 2, index |-> i] :
                   n \in {0, 2}, m \in {1}, i \in Index(2, {-2, 0, 1})}
           \cup {[op |-> "Gather", dims |-> <<2, 0>>, indexDims |-> <<2, 0>>, dim |-> 2, index |-> i] : i \in Index(0, {0})}
Transposes == {[op |-> "Transpose", dims |-> <<2, 3, 4>>, dim0 |-> d, dim1 |-> e] : d \in 1 .. 3, e \in 1 .. 3}
Triangles == {[op |-> "Triangle", dims |-> <<2, 3>>, diagonal |-> k, lower |-> b] : k \in -2 .. 3, b \in BOOLEAN}
Masks == {c \in {[op |-> "Mask", dims |-> dims, maskDims |-> maskDims, masked |-> {o}] :
                   dims \in {<<2, 3, 2>>, <<2, 2>>, <<1, 2>>, <<3>>},
                   maskDims \in {<<2, 3, 2>>, <<1, 3, 2>>, <<2, 1, 2>>, <<2, 3, 1>>, <<1, 3, 1>>,
                                 <<2, 3>>, <<3, 2>>, <<1, 3>>, <<2, 2>>, <<2, 1>>, <<1, 2>>, <<1, 1>>, <<2>>, <<3>>, <<1>>},
                   o \in 0 .. 11} :
            MaskAccepted(c) /\ c.masked \subseteq Threads(c.maskDims)}
Repeats == {[op |-> "RepeatInterleave", dims |-> <<2, 3, 2>>, dim |-> d, repeat |-> r] : d \in 1 .. 3, r \in 1 .. 3}
Stacks == {[op |-> "Stack", dims |-> <<2, 3>>, dim |-> d, count |-> n] : d \in 1 .. 3, n \in 1 .. 3}
Concats == {[op |-> "Concat", dims |-> dims, dim |-> d, pieces |-> p] :
              dims \in {<<2, 0, 3>>}, d \in {2}, p \in UNION {[1 .. n -> 0 .. 2] : n \in 1 .. 3}}
           \cup {[op |-> "Concat", dims |-> <<2, 3>>, dim |-> d, pieces |-> <<2, 1>>] : d \in 1 .. 2}
Splits == {[op |-> "Split", dims |-> <<2, h, 2>>, dim |-> d, splitSize |-> n] : h \in {3, 5}, d \in 1 .. 3, n \in 1 .. 6}
Scatters == {[op |-> "Scatter", rows |-> 2, topk |-> 2, experts |-> 3, index |-> i] : i \in Index(4, -1 .. 3)}
Embeddings == {[op |-> "Embedding", vocabulary |-> 2, width |-> 2, tokens |-> t] : t \in [1 .. 3 -> -1 .. 2]}
TopKs == {[op |-> "TopK", dims |-> <<2, 2, 1>>, dim |-> 2, topk |-> k, largest |-> b, values |-> v] :
            k \in 1 .. 2, b \in BOOLEAN, v \in [1 .. 4 -> {1, 2, NaN}]}
         \cup {[op |-> "TopK", dims |-> <<1, 3, 2>>, dim |-> 2, topk |-> k, largest |-> TRUE, values |-> v] :
                 k \in 1 .. 3, v \in [1 .. 6 -> 1 .. 2]}
         \cup {[op |-> "TopK", dims |-> <<2, 1, 2>>, dim |-> 2, topk |-> 1, largest |-> TRUE, values |-> <<1, NaN, 2, NaN>>]}

Kernels == Slices \cup Gathers \cup Transposes \cup Triangles \cup Masks \cup Repeats \cup Stacks \cup Concats
           \cup Splits \cup Scatters \cup Embeddings \cup TopKs

Tokens == {Name("--tensor_parallel"), Name("--other"), Word("1"), Word("2"), Word("x"), Word(""),
           Pair("--tensor_parallel", "1"), Pair("--tensor_parallel", "4"), Pair("--tensor_parallel", ""),
           Pair("--other", "2")}
Launches == {[op |-> "Initialize", workarounds |-> b, cmdline |-> l,
              env |-> [n \in {"MACA_LAUNCH_BLOCKING", "MCCL_P2P_DISABLE"} |-> IF n = "MCCL_P2P_DISABLE" THEN p ELSE q]] :
               b \in BOOLEAN, p \in {Unset, "0"}, q \in {Unset, "0"}, l \in UNION {[1 .. n -> Tokens] : n \in 0 .. 3}}

VARIABLE call

Init == call = [op |-> "none"]
Moves == call.op = "none" /\ call' \in Kernels
Starts == call.op = "none" /\ call' \in Launches
Next == Moves \/ Starts
Spec == Init /\ [][Next]_call

(* A kernel moves each element where the operation puts it, and its gradient *)
(* back, for exactly the inputs that are Sound; no check of the code makes   *)
(* its inputs so.                                                            *)
IndexKernelsRight ==
    call.op \notin {"none", "Initialize"} => (Right(Kernel(call), Promise(call)) <=> Sound(call))

(* What the user has put in the environment stays, without the workarounds   *)
(* nothing is added, and the peers are kept apart exactly for a command line *)
(* that asks for more than one tensor-parallel rank, if it asks plainly.     *)
PolicyRight ==
    call.op = "Initialize" =>
        \A name \in DOMAIN call.env :
            \/ Initialize(call)[name] = Wanted(call, name)
            \/ /\ name = "MCCL_P2P_DISABLE" /\ ~Plain(call.cmdline)
               /\ call.workarounds /\ call.env[name] = Unset
================================================================================
