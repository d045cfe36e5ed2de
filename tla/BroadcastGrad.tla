----------------------------- MODULE BroadcastGrad -----------------------------
(***************************************************************************)
(* The gradient of the operand that was broadcast, in the backward pass of *)
(* a binary operator (kernels/elementwise.maca): each element of the       *)
(* output gives one contribution to the element of B it was made from.     *)
(* BinaryBackward fills the gradients with zeros if the shapes differ, and *)
(* LaunchBackward chooses how to add them up: direct stores (the fast path *)
(* and NoBroadcast), a reduction in each warp (float), a tree over the     *)
(* threads of a block, or histograms merged by a second kernel.            *)
(*                                                                         *)
(* A partial sum is the set of the output elements whose contributions are *)
(* in it; an element that is added twice leaves the mark Twice.            *)
(***************************************************************************)
EXTENDS Integers, Sequences, FiniteSets, FiniteSetsExt

CONSTANTS
    Launches,       \* calls to consider: [type, out_shape, b_shape, same_dims,
                    \* contiguous, block, sm_count, aligned]
    MaxGrid,        \* bound on the blocks of a call
    MaxBlock,       \* bound on the threads of a block
    WarpSize,       \* kWarpSize, which is also the distance of the padding slots
    HistLimit,      \* 4096: most elements of B for the histograms
    SmTimes,        \* 4: blocks for each multiprocessor before the rows are tiled
    TileHeight      \* kTileHeight

ASSUME SizesAssumption ==
    /\ {MaxGrid, HistLimit, SmTimes} \subseteq Nat
    /\ {MaxBlock, WarpSize, TileHeight} \subseteq Nat \ {0}

VARIABLES
    call,       \* the call that is carried out
    phase,      \* thread -> the part of the kernel it is in
    stride,     \* thread -> its stride in the tree, or the element it is at
    reg,        \* thread -> what it has read from shared memory
    s_offset,   \* shared memory: block -> slot -> element of B, or -1
    s_grad,     \* shared memory: block -> slot -> partial sum
    work,       \* workspace: block -> element of B -> partial sum
    todo,       \* cells the kernels after the first have still to reduce
    outB_accum, \* the sums of the 2D reduction: element of B -> partial sum
    output_a,   \* elements of A's gradient that are written
    output_b,   \* element of B -> partial sum stored or added since the call began
    unset       \* elements of output_b whose memory was neither zeroed nor stored to

vars == <<call, phase, stride, reg, s_offset, s_grad, work, todo, outB_accum,
          output_a, output_b, unset>>

Blocks == 0 .. MaxGrid - 1
Threads == Blocks \X (0 .. MaxBlock - 1)

CeilDiv(n, d) == (n + d - 1) \div d

Product(shape) == MapThenFoldSet(LAMBDA x, y : x * y, 1, LAMBDA i : shape[i],
                                 LAMBDA S : CHOOSE i \in S : TRUE, DOMAIN shape)

(* Row-major strides of a shape.                                             *)
Stride(shape, i) == Product([j \in i + 1 .. Len(shape) |-> shape[j]])

CalcOffset(idx, b_shape, out_shape) ==
    MapThenSumSet(LAMBDA i :
        IF b_shape[i] = 1 THEN 0
        ELSE ((idx \div Stride(out_shape, i)) % b_shape[i]) * Stride(b_shape, i),
        DOMAIN out_shape)

(* CalcOffset for every call, so that it is worked out once.                 *)
Offsets ==
    [c \in Launches |-> [idx \in 0 .. Product(c.out_shape) - 1 |->
                           CalcOffset(idx, c.b_shape, c.out_shape)]]

(* The caller makes B's shape by broadcasting: an element of the output is   *)
(* made from one of B, and from the same one when the shapes are the same.   *)
(* b_shape is B's shape with ones in front of it up to the rank of the       *)
(* output; same_dims says that nothing had to be put there and that A, B and *)
(* the output have the same shape.                                           *)
ASSUME LaunchesAssumption ==
    \A c \in Launches :
        /\ c.block \in 1 .. MaxBlock
        /\ Product(c.out_shape) \in Nat \ {0} /\ Product(c.b_shape) \in Nat \ {0}
        /\ CeilDiv(Product(c.out_shape), c.block) <= MaxGrid
        /\ \A idx \in 0 .. Product(c.out_shape) - 1 :
             /\ Offsets[c][idx] \in 0 .. Product(c.b_shape) - 1
             /\ c.b_shape = c.out_shape => Offsets[c][idx] = idx
        /\ c.same_dims => c.b_shape = c.out_shape
        /\ c.same_dims \in BOOLEAN /\ c.contiguous \in BOOLEAN

BlockThreads == call.block
Tids == 0 .. BlockThreads - 1
NumElements == Product(call.out_shape)
BNumElements == Product(call.b_shape)
Grid == CeilDiv(NumElements, BlockThreads)

Indices == 0 .. NumElements - 1
BElements == 0 .. BNumElements - 1
BOffset(idx) == Offsets[call][idx]

GlobalIdx(t) == t[1] * BlockThreads + t[2]
InBounds(t) == GlobalIdx(t) < NumElements

Padded(i) == i + i \div WarpSize
Room(n) == n + n \div WarpSize          \* slots for n sums, with the padding
Slots == 0 .. Room(IF MaxBlock < HistLimit THEN HistLimit ELSE MaxBlock) - 1
Slot(t) == Padded(t[2])

(* Partial sums.                                                             *)
Twice == -1
Plus(S, T) == S \cup T \cup (IF S \cap T = {} THEN {} ELSE {Twice})
Sum(f, D) ==
    UNION {f[d] : d \in D} \cup
    (IF \A d, e \in D : d # e => f[d] \cap f[e] = {} THEN {} ELSE {Twice})

NoReg == [o1 |-> -1, o2 |-> -1, g1 |-> {}, g2 |-> {}]

-----------------------------------------------------------------------------
(* The choice among the ways.  Only a gradient in contiguous memory may take *)
(* the fast path, so that equal shapes can come to the other ones too.       *)

DecideBF16Path ==
    IF call.b_shape = call.out_shape THEN "NoBroadcast"
    ELSE IF call.b_shape[Len(call.b_shape)] > 1 /\ BNumElements <= HistLimit
         THEN "TwoPassHist" ELSE "BlockReduce"

DecidePath ==
    IF call.same_dims /\ call.contiguous THEN "Fast"
    ELSE IF call.type = "float" THEN "Warp"
    ELSE DecideBF16Path

Use2D ==
    /\ CeilDiv(BNumElements, BlockThreads) < call.sm_count
    /\ Grid > SmTimes * call.sm_count

Tiles == 0 .. CeilDiv(Grid, TileHeight) - 1

Rows(tile) == tile * TileHeight .. Min({(tile + 1) * TileHeight, Grid}) - 1

FirstPhase ==
    CASE DecidePath \in {"Fast", "NoBroadcast"} -> "store"
      [] DecidePath = "Warp"                   -> "warp"
      [] DecidePath = "BlockReduce"            -> "load"
      [] DecidePath = "TwoPassHist"            -> "zero"

Cells ==
    IF DecidePath # "TwoPassHist" THEN {}
    ELSE IF Use2D
    THEN ({"2D"} \X BElements \X Tiles) \cup ({"cast"} \X BElements \X {0})
    ELSE {"1D"} \X BElements \X {0}

(* The gradients are filled with zeros only if the shapes differ.            *)
NeedsBroadcastBySize == BNumElements < NumElements
NeedsBroadcast == ~ call.same_dims

Init ==
    /\ call \in Launches
    /\ phase = [t \in Threads |-> IF t[1] < Grid /\ t[2] < BlockThreads THEN FirstPhase ELSE "done"]
    /\ stride = [t \in Threads |-> 0]
    /\ reg = [t \in Threads |-> NoReg]
    /\ s_offset = [b \in Blocks |-> [i \in Slots |-> -1]]
    /\ s_grad = [b \in Blocks |-> [i \in Slots |-> {Twice}]]
    /\ work = [b \in Blocks |-> [k \in BElements |-> {Twice}]]
    /\ todo = Cells
    /\ outB_accum = [k \in BElements |-> {}]
    /\ output_a = {}
    /\ output_b = [k \in BElements |-> {}]
    /\ unset = IF NeedsBroadcast THEN {} ELSE BElements

-----------------------------------------------------------------------------
(* No broadcast: one thread, one element, one store.  The fast path differs  *)
(* in how many elements it gives to a thread.                                *)

StoreDirect(t) ==
    /\ phase[t] = "store"
    /\ phase' = [phase EXCEPT ![t] = "done"]
    /\ IF InBounds(t)
       THEN /\ output_a' = output_a \cup {GlobalIdx(t)}
            /\ output_b' = [output_b EXCEPT ![BOffset(GlobalIdx(t))] = {GlobalIdx(t)}]
            /\ unset' = unset \ {BOffset(GlobalIdx(t))}
       ELSE UNCHANGED <<output_a, output_b, unset>>
    /\ UNCHANGED <<call, stride, reg, s_offset, s_grad, work, todo, outB_accum>>

-----------------------------------------------------------------------------
(* Float: the lanes of a warp run together.  When all lanes in bounds have   *)
(* the same offset the leader adds their sum, else each adds its own.        *)

Lanes(b, w) == {t \in {b} \X Tids : t[2] \div WarpSize = w}
ActiveIdx(b, w) == {GlobalIdx(t) : t \in {u \in Lanes(b, w) : InBounds(u)}}
CommonOffset(b, w) == BOffset(Min(ActiveIdx(b, w)))

WarpUniform(b, w) == \A i \in ActiveIdx(b, w) : BOffset(i) = CommonOffset(b, w)

WarpSums(b, w) ==
    IF WarpUniform(b, w)
    THEN [k \in BElements |-> IF k = CommonOffset(b, w) THEN ActiveIdx(b, w) ELSE {}]
    ELSE [k \in BElements |-> {i \in ActiveIdx(b, w) : BOffset(i) = k}]

WarpReduce(b, w) ==
    /\ Lanes(b, w) # {}
    /\ \A t \in Lanes(b, w) : phase[t] = "warp"
    /\ phase' = [t \in Threads |-> IF t \in Lanes(b, w) THEN "done" ELSE phase[t]]
    /\ IF ActiveIdx(b, w) = {} THEN UNCHANGED <<output_a, output_b>>
       ELSE /\ output_a' = output_a \cup ActiveIdx(b, w)
            /\ output_b' = [k \in BElements |-> Plus(output_b[k], WarpSums(b, w)[k])]
    /\ UNCHANGED <<call, stride, reg, s_offset, s_grad, work, todo, outB_accum, unset>>

-----------------------------------------------------------------------------
(* Low precision: a tree over the block.  Nobody passes a barrier before all *)
(* threads of the block have come to it; one that has left the kernel before *)
(* it never does.  stride says how many barriers a thread has come to.       *)

BlockOf(t) == {t[1]} \X Tids

SyncedOnce(t) == \A u \in BlockOf(t) : stride[u] > 0
Synced(t) == \A u \in BlockOf(t) : stride[u] >= stride[t]

LoadInBounds(t) ==
    /\ phase[t] = "load"
    /\ IF InBounds(t)
       THEN /\ phase' = [phase EXCEPT ![t] = "tree"]
            /\ stride' = [stride EXCEPT ![t] = 1]
            /\ s_offset' = [s_offset EXCEPT ![t[1]][Slot(t)] = BOffset(GlobalIdx(t))]
            /\ s_grad' = [s_grad EXCEPT ![t[1]][Slot(t)] = {GlobalIdx(t)}]
            /\ output_a' = output_a \cup {GlobalIdx(t)}
       ELSE /\ phase' = [phase EXCEPT ![t] = "done"]
            /\ UNCHANGED <<stride, s_offset, s_grad, output_a>>
    /\ UNCHANGED <<call, reg, work, todo, outB_accum, output_b, unset>>

Load(t) ==
    /\ phase[t] = "load"
    /\ phase' = [phase EXCEPT ![t] = "tree"]
    /\ stride' = [stride EXCEPT ![t] = 1]
    /\ s_offset' = [s_offset EXCEPT ![t[1]][Slot(t)] =
                      IF InBounds(t) THEN BOffset(GlobalIdx(t)) ELSE -1]
    /\ s_grad' = [s_grad EXCEPT ![t[1]][Slot(t)] =
                      IF InBounds(t) THEN {GlobalIdx(t)} ELSE {}]
    /\ output_a' = IF InBounds(t) THEN output_a \cup {GlobalIdx(t)} ELSE output_a
    /\ UNCHANGED <<call, reg, work, todo, outB_accum, output_b, unset>>

InLoop(t) == phase[t] = "tree" /\ stride[t] < BlockThreads /\ Synced(t)

Merges(t) == t[2] % (2 * stride[t]) = 0 /\ t[2] + stride[t] < BlockThreads

Partner(t) == <<t[1], t[2] + stride[t]>>

Skip(t) ==
    /\ InLoop(t)
    /\ ~Merges(t)
    /\ stride' = [stride EXCEPT ![t] = 2 * @]
    /\ UNCHANGED <<call, phase, reg, s_offset, s_grad, work, todo, outB_accum,
                   output_a, output_b, unset>>

(* The thread reads both slots ...                                           *)
Read(t) ==
    /\ InLoop(t)
    /\ Merges(t)
    /\ phase' = [phase EXCEPT ![t] = "merge"]
    /\ reg' = [reg EXCEPT ![t] = [o1 |-> s_offset[t[1]][Slot(t)],
                                  o2 |-> s_offset[t[1]][Slot(Partner(t))],
                                  g1 |-> s_grad[t[1]][Slot(t)],
                                  g2 |-> s_grad[t[1]][Slot(Partner(t))]]]
    /\ UNCHANGED <<call, stride, s_offset, s_grad, work, todo, outB_accum,
                   output_a, output_b, unset>>

(* ... and puts their sum in its own when they are for the same element.     *)
ClearedNone(t) == s_offset[t[1]]
Cleared(t) == [s_offset[t[1]] EXCEPT ![Slot(Partner(t))] = -1]

Merge(t) ==
    /\ phase[t] = "merge"
    /\ phase' = [phase EXCEPT ![t] = "tree"]
    /\ stride' = [stride EXCEPT ![t] = 2 * @]
    /\ reg' = [reg EXCEPT ![t] = NoReg]
    /\ IF reg[t].o1 = reg[t].o2 /\ reg[t].o1 # -1
       THEN /\ s_grad' = [s_grad EXCEPT ![t[1]][Slot(t)] = Plus(reg[t].g1, reg[t].g2)]
            /\ s_offset' = [s_offset EXCEPT ![t[1]] = Cleared(t)]
       ELSE UNCHANGED <<s_grad, s_offset>>
    /\ UNCHANGED <<call, work, todo, outB_accum, output_a, output_b, unset>>

(* What is left in a slot is added to the result.                            *)
AddsLeft(t) == InBounds(t) /\ s_offset[t[1]][Slot(t)] # -1

Add(t) ==
    /\ phase[t] = "tree"
    /\ stride[t] >= BlockThreads
    /\ Synced(t)
    /\ phase' = [phase EXCEPT ![t] = "done"]
    /\ output_b' = IF AddsLeft(t)
                   THEN [output_b EXCEPT ![s_offset[t[1]][Slot(t)]] =
                           Plus(@, s_grad[t[1]][Slot(t)])]
                   ELSE output_b
    /\ UNCHANGED <<call, stride, reg, s_offset, s_grad, work, todo, outB_accum, output_a, unset>>

(* fastAtomicAdd adds to a pair of neighbours, of which one gets zero.       *)
FirstOfPair(index) == (index % 2 = 0) = call.aligned

TouchesPastEnd(index) ==
    IF FirstOfPair(index) THEN {index, index + 1}
    ELSE IF index > 0 THEN {index - 1, index} ELSE {index}
Touches(index) ==
    IF FirstOfPair(index) /\ index < BNumElements - 1 THEN {index, index + 1}
    ELSE IF ~FirstOfPair(index) /\ index > 0 THEN {index - 1, index}
    ELSE {index}

-----------------------------------------------------------------------------
(* Low precision, few elements of B: a histogram for each block, in shared   *)
(* memory, then a second kernel that adds up the histograms.  A thread of    *)
(* the first one ends only after both of its barriers.                       *)

Bins(t) == {k \in BElements : k % BlockThreads = t[2]}

HistSynced(t, before) == \A u \in BlockOf(t) : phase[u] # before

Zeroed(t) ==
    {i \in 0 .. Room(BNumElements) - 1 : i % BlockThreads = t[2]}

Zero(t) ==
    /\ phase[t] = "zero"
    /\ phase' = [phase EXCEPT ![t] = "count"]
    /\ stride' = [stride EXCEPT ![t] = GlobalIdx(t)]
    /\ s_grad' = [s_grad EXCEPT ![t[1]] = [i \in Slots |->
                     IF i \in Zeroed(t) THEN {} ELSE @[i]]]
    /\ UNCHANGED <<call, reg, s_offset, work, todo, outB_accum, output_a, output_b, unset>>

MayCount(t) == phase[t] = "count" /\ HistSynced(t, "zero")

Count(t) ==
    /\ MayCount(t)
    /\ stride[t] < NumElements
    /\ stride' = [stride EXCEPT ![t] = @ + Grid * BlockThreads]
    /\ output_a' = output_a \cup {stride[t]}
    /\ s_grad' = [s_grad EXCEPT ![t[1]][Padded(BOffset(stride[t]))] = Plus(@, {stride[t]})]
    /\ UNCHANGED <<call, phase, reg, s_offset, work, todo, outB_accum, output_b, unset>>

EndCount(t) ==
    /\ MayCount(t)
    /\ stride[t] >= NumElements
    /\ phase' = [phase EXCEPT ![t] = "flush"]
    /\ UNCHANGED <<call, stride, reg, s_offset, s_grad, work, todo, outB_accum,
                   output_a, output_b, unset>>

Flush(t) ==
    /\ phase[t] = "flush"
    /\ HistSynced(t, "count")
    /\ phase' = [phase EXCEPT ![t] = "done"]
    /\ work' = [work EXCEPT ![t[1]] = [k \in BElements |->
                  IF k \in Bins(t) THEN s_grad[t[1]][Padded(k)] ELSE @[k]]]
    /\ UNCHANGED <<call, stride, reg, s_offset, s_grad, todo, outB_accum,
                   output_a, output_b, unset>>

(* The stream starts a kernel when the one before has ended.                 *)
KernelEnded == \A t \in Threads : phase[t] = "done"

Reduce1D(k) ==
    /\ KernelEnded
    /\ <<"1D", k, 0>> \in todo
    /\ todo' = todo \ {<<"1D", k, 0>>}
    /\ output_b' = [output_b EXCEPT ![k] = Sum([b \in Blocks |-> work[b][k]], 0 .. Grid - 1)]
    /\ unset' = unset \ {k}
    /\ UNCHANGED <<call, phase, stride, reg, s_offset, s_grad, work, outB_accum, output_a>>

Reduce2D(k, tile) ==
    /\ KernelEnded
    /\ <<"2D", k, tile>> \in todo
    /\ todo' = todo \ {<<"2D", k, tile>>}
    /\ outB_accum' = [outB_accum EXCEPT ![k] =
                        Plus(@, Sum([b \in Blocks |-> work[b][k]], Rows(tile)))]
    /\ UNCHANGED <<call, phase, stride, reg, s_offset, s_grad, work, output_a, output_b, unset>>

CastFloatToT(k) ==
    /\ KernelEnded
    /\ <<"cast", k, 0>> \in todo
    /\ todo \subseteq {"cast"} \X BElements \X {0}
    /\ todo' = todo \ {<<"cast", k, 0>>}
    /\ output_b' = [output_b EXCEPT ![k] = outB_accum[k]]
    /\ unset' = unset \ {k}
    /\ UNCHANGED <<call, phase, stride, reg, s_offset, s_grad, work, outB_accum, output_a>>

-----------------------------------------------------------------------------
Thread(t) == \/ StoreDirect(t) \/ Load(t) \/ Skip(t) \/ Read(t) \/ Merge(t) \/ Add(t)
             \/ Zero(t) \/ Count(t) \/ EndCount(t) \/ Flush(t)

Reduction == \E k \in BElements : \/ Reduce1D(k) \/ CastFloatToT(k)
                                  \/ \E tile \in Tiles : Reduce2D(k, tile)

Warp == \E b \in Blocks, w \in 0 .. MaxBlock \div WarpSize : WarpReduce(b, w)

Next == Reduction \/ Warp \/ \E t \in Threads : Thread(t)

Spec == Init /\ [][Next]_vars

(* The device runs every thread of a block, and every block.                 *)
FairSpec == Spec /\ WF_vars(Reduction) /\ WF_vars(Warp) /\ \A t \in Threads : WF_vars(Thread(t))

-----------------------------------------------------------------------------
(* Properties.                                                               *)

(* Every variable has its type, and no thread counts into shared memory that *)
(* was not zeroed.                                                           *)
TypeOK ==
    /\ call \in Launches
    /\ phase \in [Threads -> {"store", "warp", "load", "tree", "merge", "zero", "count",
                              "flush", "done"}]
    /\ stride \in [Threads -> Nat]
    /\ s_offset \in [Blocks -> [Slots -> BElements \cup {-1}]]
    /\ s_grad \in [Blocks -> [Slots -> SUBSET (Indices \cup {Twice})]]
    /\ work \in [Blocks -> [BElements -> SUBSET (Indices \cup {Twice})]]
    /\ \A t \in Threads, k \in BElements :
         MayCount(t) => s_grad[t[1]][Padded(k)] \in SUBSET Indices
    /\ todo \subseteq Cells
    /\ output_a \subseteq Indices
    /\ outB_accum \in [BElements -> SUBSET (Indices \cup {Twice})]
    /\ output_b \in [BElements -> SUBSET (Indices \cup {Twice})]
    /\ unset \subseteq BElements

(* The slots of the tree whose sums are still to be added.                   *)
Live == {t \in Threads : phase[t] \in {"tree", "merge"} /\ s_offset[t[1]][Slot(t)] # -1}

(* No contribution is in two of the sums that are still to be added or in    *)
(* one of them and in the result, and each is on its way to its own element: *)
(* what one thread of the tree merges no other adds again.                   *)
EachOnItsWay ==
    /\ TypeOK
    /\ \A t \in Live :
         /\ \A i \in s_grad[t[1]][Slot(t)] : i # Twice /\ BOffset(i) = s_offset[t[1]][Slot(t)]
         /\ s_grad[t[1]][Slot(t)] \cap output_b[s_offset[t[1]][Slot(t)]] = {}
         /\ \A u \in Live \ {t} : s_grad[t[1]][Slot(t)] \cap s_grad[u[1]][Slot(u)] = {}
    /\ \A k \in BElements : \A i \in output_b[k] : i # Twice /\ BOffset(i) = k

Finished == KernelEnded /\ todo = {}

(* In the end each element of A has its gradient and each element of B all   *)
(* of its contributions, whichever way was chosen, and to these nothing else *)
(* was added: memory was zeroed or stored to.  What falls out of it is a     *)
(* float gradient that is not contiguous, on equal shapes: the warps add to  *)
(* memory that nobody filled.                                                *)
GradientComplete ==
    Finished => /\ output_a = Indices
                /\ \A k \in BElements : output_b[k] = {i \in Indices : BOffset(i) = k}
                /\ unset # {} => call.type = "float" /\ call.same_dims /\ ~ call.contiguous

(* The packed atomic addition never reaches outside of the gradient of B.    *)
AtomicsInBounds ==
    \A t \in Threads :
        phase[t] = "tree" /\ stride[t] >= BlockThreads /\ AddsLeft(t) =>
            Touches(s_offset[t[1]][Slot(t)]) \subseteq BElements

(* No thread waits at a barrier for ever.                                    *)
EventuallyFinished == <>Finished
=============================================================================
