----------------------------- MODULE IndexKernels -----------------------------
(***************************************************************************)
(* The kernels that move elements without computing (kernels/slice.maca,   *)
(* gather.maca, scatter.maca, transform.maca, stack.maca, concat.maca,     *)
(* split.maca, embedding.maca, topk.maca).                                 *)
(*                                                                         *)
(* A cell is a tensor's number and an offset, a move an input cell and an  *)
(* output cell.  For a call c an operator gives what its two kernels do:   *)
(* forward and backward, the moves of their threads; ins and outs, the     *)
(* cells there are; fills, whether the output cells that get none are      *)
(* written as well, and gradFills of the gradient; adds, whether gradients *)
(* that meet in a cell are added up; killed, whether the host never comes  *)
(* to the launch.                                                          *)
(***************************************************************************)
EXTENDS Integers, Sequences, FiniteSets, SequencesExt

CONSTANT NaN            \* a floating-point value that is not a number

Product(dims) == FoldLeft(LAMBDA x, y : x * y, 1, dims)
Stride(dims, d) == Product(SubSeq(dims, d + 1, Len(dims)))
Total(terms) == FoldLeft(LAMBDA x, y : x + y, 0, terms)
Offset(coords, dims) == Total([d \in DOMAIN dims |-> coords[d] * Stride(dims, d)])
Decode(o, dims) == [d \in DOMAIN dims |-> (o \div Stride(dims, d)) % dims[d]]
Threads(dims) == 0 .. Product(dims) - 1
Cells(dims) == {<<1, o>> : o \in Threads(dims)}
Before(dims, d) == Product(SubSeq(dims, 1, d - 1))

Move(in, out) == <<<<1, in>>, <<1, out>>>>

Does(moves, ins, outs, fills, adds, gradFills) ==
    [forward |-> moves, backward |-> moves, ins |-> ins, outs |-> outs,
     fills |-> fills, adds |-> adds, gradFills |-> gradFills, killed |-> FALSE]

-----------------------------------------------------------------------------
(* SliceForwardKernel and SliceBackwardKernel.                               *)

(* The checks let a step of 0 in, by which the host then divides.            *)
Divides(c) == \A i \in DOMAIN c.steps : c.steps[i] # 0
NewDims(c) == [i \in DOMAIN c.dims |-> (c.ends[i] - c.starts[i] + c.steps[i] - 1) \div c.steps[i]]

Slice(c) ==
    LET Source(o) == Total([i \in DOMAIN c.dims |->
                        (c.starts[i] + Decode(o, NewDims(c))[i] * c.steps[i]) * Stride(c.dims, i)])
    IN  IF Divides(c)
        THEN Does({Move(Source(o), o) : o \in Threads(NewDims(c))},
                  Cells(c.dims), Cells(NewDims(c)), FALSE, FALSE, TRUE)
        ELSE [Does({}, {}, {}, FALSE, FALSE, FALSE) EXCEPT !.killed = TRUE]

(* GatherForwardKernel and GatherBackwardKernel: index says, for each        *)
(* element of the output, which one along dim it takes.                      *)
Normalized(j, size) ==
    LET k == IF j < 0 THEN j + size ELSE j
        low == IF k < 0 THEN 0 ELSE k
    IN  IF low >= size THEN size - 1 ELSE low

Gather(c) ==
    LET Source(o) == Offset([Decode(o, c.indexDims) EXCEPT ![c.dim] = Normalized(c.index[o], c.dims[c.dim])], c.dims)
    IN  Does({Move(Source(o), o) : o \in Threads(c.indexDims)},
             Cells(c.dims), Cells(c.indexDims), FALSE, TRUE, TRUE)

(* TransposeForwardKernel; the backward one is the same with dims swapped.   *)
Swapped(dims, d, e) == [dims EXCEPT ![d] = dims[e], ![e] = dims[d]]
TransposeMoves(dims, d, e) ==
    LET out == Swapped(dims, d, e)
    IN  {<<Offset(Swapped(Decode(o, out), d, e), dims), o>> : o \in Threads(out)}
Transpose(c) ==
    LET out == Swapped(c.dims, c.dim0, c.dim1)
    IN  [Does({Move(m[1], m[2]) : m \in TransposeMoves(c.dims, c.dim0, c.dim1)},
              Cells(c.dims), Cells(out), TRUE, FALSE, TRUE)
         EXCEPT !.backward = {Move(m[2], m[1]) : m \in TransposeMoves(out, c.dim1, c.dim0)}]

(* TrilForwardKernel, TriuForwardKernel and their backward kernels.          *)
Triangle(c) ==
    LET Kept(o) == LET side == (o \div c.dims[2]) - (o % c.dims[2]) + c.diagonal
                   IN  IF c.lower THEN side >= 0 ELSE side <= 0
    IN  Does({Move(o, o) : o \in {x \in Threads(c.dims) : Kept(x)}}, Cells(c.dims), Cells(c.dims), TRUE, FALSE, TRUE)

(* DecideMaskMode and the four kernels of MaskForward and MaskBackward.      *)
IsLeadMaskShape(in, mk) ==
    mk # <<>> /\ in # <<>> /\ Len(mk) <= Len(in) /\ \A d \in DOMAIN mk : mk[d] \in {in[d], 1}
IsTailMaskShape(in, mk) ==
    Len(mk) <= Len(in) /\ \A d \in DOMAIN mk : mk[d] \in {in[Len(in) - Len(mk) + d], 1}
MaskAccepted(c) == IsLeadMaskShape(c.dims, c.maskDims) \/ IsTailMaskShape(c.dims, c.maskDims)

Mask(c) ==
    LET size == Product(c.maskDims)
        inner == Product(c.dims) \div size
        MaskOf(o) == IF IsTailMaskShape(c.dims, c.maskDims) THEN o % size ELSE o \div inner
    IN  Does({Move(o, o) : o \in {x \in 0 .. size * inner - 1 : MaskOf(x) \notin c.masked}},
             Cells(c.dims), Cells(c.dims), TRUE, FALSE, TRUE)

(* RepeatInterleaveForwardKernel and RepeatInterleaveBackwardKernel.         *)
RepeatInterleave(c) ==
    LET size == c.dims[c.dim]
        outer == Before(c.dims, c.dim)
        inner == Stride(c.dims, c.dim)
        Source(o) == LET i == o \div inner
                     IN  ((i \div (size * c.repeat)) * size + ((i \div c.repeat) % size)) * inner + (o % inner)
        Target(o, r) == LET i == o \div inner
                        IN  ((i \div size) * size * c.repeat + (i % size) * c.repeat + r) * inner + (o % inner)
        outs == 0 .. outer * size * c.repeat * inner - 1
    IN  [Does({Move(Source(o), o) : o \in outs}, Cells(c.dims), {<<1, o>> : o \in outs}, FALSE, TRUE, TRUE)
         EXCEPT !.backward = {Move(o, Target(o, r)) : o \in 0 .. outer * size * inner - 1, r \in 0 .. c.repeat - 1}]

(* StackForwardKernel and StackBackwardKernel: the new axis is before dim.   *)
Stack(c) ==
    LET n == Before(c.dims, c.dim)
        d == Stride(c.dims, c.dim - 1)
        Source(o) == <<((o \div d) % c.count) + 1, (o \div (d * c.count)) * d + (o % d)>>
        outs == 0 .. n * c.count * d - 1
    IN  Does({<<Source(o), <<1, o>>>> : o \in outs}, (1 .. c.count) \X Threads(c.dims), {<<1, o>> : o \in outs},
             FALSE, FALSE, FALSE)

(* ConcatForwardKernel and ConcatBackwardKernel: pieces is the sizes of the  *)
(* inputs along dim.  The largest s with offsets[s] <= x is searched for.    *)
Offsets(pieces) == [s \in 0 .. Len(pieces) |-> Total(SubSeq(pieces, 1, s))]
UpperBoundI64First(offsets, count, x) ==
    CHOOSE s \in 0 .. count - 1 : offsets[s] <= x /\ \A r \in 0 .. s - 1 : offsets[r] < offsets[s]
                                  /\ (s = count - 1 \/ offsets[s + 1] >= x)
UpperBoundI64(offsets, count, x) ==
    LET Search[l \in 0 .. count, r \in 0 .. count] ==
            LET middle == l + (r - l) \div 2
            IN  IF l >= r THEN l - 1
                ELSE IF offsets[middle] <= x THEN Search[middle + 1, r] ELSE Search[l, middle]
    IN  Search[0, count]

Concat(c) ==
    LET offsets == Offsets(c.pieces)
        total == Total(c.pieces)
        d == Stride(c.dims, c.dim)
        outs == 0 .. Before(c.dims, c.dim) * total * d - 1
        Source(o) ==
            LET k == (o \div d) % total
                s == UpperBoundI64(offsets, Len(c.pieces) + 1, k)
            IN  <<s + 1, (o \div (d * total)) * c.pieces[s + 1] * d + (k - offsets[s]) * d + (o % d)>>
    IN  Does({<<Source(o), <<1, o>>>> : o \in outs},
             UNION {{s} \X Threads([c.dims EXCEPT ![c.dim] = c.pieces[s]]) : s \in DOMAIN c.pieces},
             {<<1, o>> : o \in outs}, FALSE, FALSE, FALSE)

(* SplitForwardKernel, launched for each piece, and SplitBackwardKernel.     *)
Split(c) ==
    LET hIn == c.dims[c.dim]
        n == Before(c.dims, c.dim)
        w == Stride(c.dims, c.dim)
        splits == (hIn + c.splitSize - 1) \div c.splitSize
        HOut(s) == IF c.splitSize < hIn - s * c.splitSize THEN c.splitSize ELSE hIn - s * c.splitSize
        Piece(s) == 0 .. n * HOut(s) * w - 1
        Source(s, o) == (o \div (HOut(s) * w)) * hIn * w + (((o \div w) % HOut(s)) + s * c.splitSize) * w + (o % w)
        Target(o) ==
            LET h == (o \div w) % hIn
                s == h \div c.splitSize
            IN  <<s + 1, ((o \div (hIn * w)) * HOut(s) + (h - s * c.splitSize)) * w + (o % w)>>
    IN  [Does(UNION {{<<<<1, Source(s, o)>>, <<s + 1, o>>>> : o \in Piece(s)} : s \in 0 .. splits - 1},
              Cells(c.dims), UNION {{s + 1} \X Piece(s) : s \in 0 .. splits - 1}, FALSE, FALSE, TRUE)
         EXCEPT !.backward = {<<<<1, o>>, Target(o)>> : o \in 0 .. n * hIn * w - 1}]

(* ScatterForwardKernel and ScatterBackwardKernel.                           *)
Scatter(c) ==
    Does({Move(o, (o \div c.topk) * c.experts + c.index[o]) : o \in 0 .. c.rows * c.topk - 1},
         Cells(<<c.rows, c.topk>>), Cells(<<c.rows, c.experts>>), TRUE, FALSE, FALSE)

(* EmbeddingForwardKernel and EmbeddingBackwardKernel.                       *)
Embedding(c) ==
    LET known == {o \in 0 .. Len(c.tokens) * c.width - 1 : c.tokens[o \div c.width + 1] \in 0 .. c.vocabulary - 1}
    IN  Does({Move(c.tokens[o \div c.width + 1] * c.width + (o % c.width), o) : o \in known},
             Cells(<<c.vocabulary, c.width>>), Cells(<<Len(c.tokens), c.width>>), FALSE, TRUE, TRUE)

(* TopKForwardKernel and TopKBackwardKernel.  No comparison of a NaN holds.  *)
Greater(x, y) == x # NaN /\ y # NaN /\ x > y
Same(x, y) == x # NaN /\ y # NaN /\ x = y
TopK(c) ==
    LET size == c.dims[c.dim]
        inner == Stride(c.dims, c.dim)
        At(row, idx) == (row \div inner) * size * inner + idx * inner + (row % inner)
        RanksBefore(row, i, j) ==
            LET x == c.values[At(row, i) + 1]
                y == c.values[At(row, j) + 1]
            IN  (IF c.largest THEN Greater(x, y) ELSE Greater(y, x)) \/ (Same(x, y) /\ i < j)
        Rank(row, idx) == Cardinality({i \in 0 .. size - 1 : RanksBefore(row, i, idx)})
        Slot(row, rank) == (row \div inner) * c.topk * inner + rank * inner + (row % inner)
        rows == 0 .. Before(c.dims, c.dim) * inner - 1
    IN  Does({Move(At(e[1], e[2]), Slot(e[1], Rank(e[1], e[2]))) :
                e \in {f \in rows \X (0 .. size - 1) : Rank(f[1], f[2]) < c.topk}},
             Cells(c.dims), Cells([c.dims EXCEPT ![c.dim] = c.topk]), FALSE, FALSE, TRUE)

Kernel(c) ==
    CASE c.op = "Slice" -> Slice(c)
      [] c.op = "Gather" -> Gather(c)
      [] c.op = "Transpose" -> Transpose(c)
      [] c.op = "Triangle" -> Triangle(c)
      [] c.op = "Mask" -> Mask(c)
      [] c.op = "RepeatInterleave" -> RepeatInterleave(c)
      [] c.op = "Stack" -> Stack(c)
      [] c.op = "Concat" -> Concat(c)
      [] c.op = "Split" -> Split(c)
      [] c.op = "Scatter" -> Scatter(c)
      [] c.op = "Embedding" -> Embedding(c)
      [] c.op = "TopK" -> TopK(c)

-----------------------------------------------------------------------------
(* What each operation promises, in coordinates.  The elements of the output *)
(* of Stack, Concat and Split are those of the pieces, numbered from 1.      *)

Coords(dims) == {Decode(o, dims) : o \in Threads(dims)}
Resized(dims, d, size) == [dims EXCEPT ![d] = size]

Taken(c, d) == {x \in c.starts[d] .. c.ends[d] - 1 : (x - c.starts[d]) % c.steps[d] = 0}
Place(c, x) == [d \in DOMAIN x |-> Cardinality({t \in Taken(c, d) : t < x[d]})]
SlicePromise(c) ==
    IF ~Divides(c) THEN {} ELSE     \* nothing is asked for
    {Move(Offset(x, c.dims), Offset(Place(c, x), [d \in DOMAIN c.dims |-> Cardinality(Taken(c, d))])) :
        x \in {y \in Coords(c.dims) : \A d \in DOMAIN c.dims : y[d] \in Taken(c, d)}}

(* The index -1 is the last place; one beyond an end is that end.            *)
Nearest(j, low, high) == CHOOSE k \in low .. high : \A i \in low .. high : (k - j) * (k - j) <= (i - j) * (i - j)
GatherPromise(c) ==
    LET size == c.dims[c.dim]
    IN  IF size = 0 THEN {}
        ELSE {Move(Offset([y EXCEPT ![c.dim] = Nearest(c.index[Offset(y, c.indexDims)], -size, size - 1) % size], c.dims),
                   Offset(y, c.indexDims)) : y \in Coords(c.indexDims)}

TransposePromise(c) ==
    {Move(Offset(x, c.dims), Offset(Swapped(x, c.dim0, c.dim1), Swapped(c.dims, c.dim0, c.dim1))) : x \in Coords(c.dims)}

TrianglePromise(c) ==
    {Move(Offset(x, c.dims), Offset(x, c.dims)) :
        x \in {y \in Coords(c.dims) : IF c.lower THEN y[2] <= y[1] + c.diagonal ELSE y[2] >= y[1] + c.diagonal}}

(* The dimensions of the mask are the last ones, or else the first ones.     *)
MaskShift(c) == IF IsTailMaskShape(c.dims, c.maskDims) THEN Len(c.dims) - Len(c.maskDims) ELSE 0
MaskPromise(c) ==
    LET MaskCoords(x) == [d \in DOMAIN c.maskDims |-> IF c.maskDims[d] = 1 THEN 0 ELSE x[d + MaskShift(c)]]
    IN  {Move(Offset(x, c.dims), Offset(x, c.dims)) :
            x \in {y \in Coords(c.dims) : Offset(MaskCoords(y), c.maskDims) \notin c.masked}}

RepeatInterleavePromise(c) ==
    {Move(Offset(e[1], c.dims), Offset([e[1] EXCEPT ![c.dim] = @ * c.repeat + e[2]],
                                       Resized(c.dims, c.dim, c.dims[c.dim] * c.repeat))) :
        e \in Coords(c.dims) \X (0 .. c.repeat - 1)}

StackPromise(c) ==
    {<<<<s, Offset(x, c.dims)>>, <<1, Offset(InsertAt(x, c.dim, s - 1), InsertAt(c.dims, c.dim, c.count))>>>> :
        s \in 1 .. c.count, x \in Coords(c.dims)}

ConcatPromise(c) ==
    UNION {{<<<<s, Offset(x, Resized(c.dims, c.dim, c.pieces[s]))>>,
              <<1, Offset([x EXCEPT ![c.dim] = @ + Total(SubSeq(c.pieces, 1, s - 1))],
                          Resized(c.dims, c.dim, Total(c.pieces)))>>>> :
              x \in Coords(Resized(c.dims, c.dim, c.pieces[s]))} : s \in DOMAIN c.pieces}

SplitPromise(c) ==
    LET Piece(s) == {h \in 0 .. c.dims[c.dim] - 1 : h \div c.splitSize = s}
    IN  {<<<<1, Offset(x, c.dims)>>,
           <<x[c.dim] \div c.splitSize + 1,
             Offset([x EXCEPT ![c.dim] = @ % c.splitSize],
                    Resized(c.dims, c.dim, Cardinality(Piece(x[c.dim] \div c.splitSize))))>>>> : x \in Coords(c.dims)}

ScatterPromise(c) ==
    {Move(Offset(x, <<c.rows, c.topk>>), Offset(<<x[1], c.index[Offset(x, <<c.rows, c.topk>>)]>>, <<c.rows, c.experts>>)) :
        x \in {y \in Coords(<<c.rows, c.topk>>) : c.index[Offset(y, <<c.rows, c.topk>>)] \in 0 .. c.experts - 1}}

EmbeddingPromise(c) ==
    {Move(Offset(<<c.tokens[x[1] + 1], x[2]>>, <<c.vocabulary, c.width>>), Offset(x, <<Len(c.tokens), c.width>>)) :
        x \in Coords(<<Len(c.tokens), c.width>>)}

(* The places along dim, best value first, and the first of equal values     *)
(* first.                                                                    *)
Sorted(c, x) ==
    LET Value(i) == c.values[Offset([x EXCEPT ![c.dim] = i], c.dims) + 1]
        Better(i, j) == IF Value(i) = Value(j) THEN i < j ELSE c.largest = (Value(i) > Value(j))
    IN  SetToSortSeq(0 .. c.dims[c.dim] - 1, Better)
Comparable(c) == c.dims[c.dim] = 1 \/ \A i \in DOMAIN c.values : c.values[i] # NaN
TopKPromise(c) ==
    IF ~Comparable(c) THEN {} ELSE
    {Move(Offset([y EXCEPT ![c.dim] = Sorted(c, y)[y[c.dim] + 1]], c.dims), Offset(y, Resized(c.dims, c.dim, c.topk))) :
        y \in Coords(Resized(c.dims, c.dim, c.topk))}

Promise(c) ==
    CASE c.op = "Slice" -> SlicePromise(c)
      [] c.op = "Gather" -> GatherPromise(c)
      [] c.op = "Transpose" -> TransposePromise(c)
      [] c.op = "Triangle" -> TrianglePromise(c)
      [] c.op = "Mask" -> MaskPromise(c)
      [] c.op = "RepeatInterleave" -> RepeatInterleavePromise(c)
      [] c.op = "Stack" -> StackPromise(c)
      [] c.op = "Concat" -> ConcatPromise(c)
      [] c.op = "Split" -> SplitPromise(c)
      [] c.op = "Scatter" -> ScatterPromise(c)
      [] c.op = "Embedding" -> EmbeddingPromise(c)
      [] c.op = "TopK" -> TopKPromise(c)

(* The inputs the kernels are right for; no check of the code asks for it.   *)
Sound(c) ==
    CASE c.op = "Slice" ->
            /\ Divides(c)
            /\ \A d \in DOMAIN c.dims : \/ \E e \in DOMAIN c.dims : Taken(c, e) = {}
                                         \/ Taken(c, d) \subseteq 0 .. c.dims[d] - 1
      [] c.op = "Gather" -> c.dims[c.dim] > 0 \/ Coords(c.indexDims) = {}
      [] c.op = "Mask" ->
            LET Cut(d) == c.maskDims[d] < c.dims[d + MaskShift(c)]
            IN  \A d, e \in DOMAIN c.maskDims :
                    IF IsTailMaskShape(c.dims, c.maskDims) THEN d < e /\ Cut(e) => c.maskDims[d] = 1
                                                           ELSE d < e /\ Cut(d) => c.maskDims[e] = 1
      [] c.op = "Scatter" -> \A o \in DOMAIN c.index :
                                /\ c.index[o] \in 0 .. c.experts - 1
                                /\ \A p \in DOMAIN c.index \ {o} :
                                       p \div c.topk = o \div c.topk => c.index[p] # c.index[o]
      [] c.op = "Embedding" -> \A i \in DOMAIN c.tokens : c.tokens[i] \in 0 .. c.vocabulary - 1
      [] c.op = "TopK" -> Comparable(c)
      [] OTHER -> TRUE

(* Forward and backward do what is promised; no cell is written twice or     *)
(* read beyond its tensor, none is left as it was allocated, and the process *)
(* is not killed.                                                            *)
Right(k, p) ==
    /\ ~k.killed
    /\ k.forward = p /\ k.backward = p
    /\ \A e \in p : e[1] \in k.ins /\ e[2] \in k.outs
    /\ \A e, f \in p : e[2] = f[2] => e = f
    /\ k.fills \/ {e[2] : e \in p} = k.outs
    /\ k.adds \/ \A e, f \in p : e[1] = f[1] => e = f
    /\ k.gradFills \/ {e[1] : e \in p} = k.ins
=============================================================================
