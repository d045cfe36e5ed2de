------------------------------- MODULE MacaGemm -------------------------------
(***************************************************************************)
(* Matrix products (kernels/common/gemm.cc, kernels/linear.maca,           *)
(* kernels/outer.maca): the row-major products of the framework as         *)
(* column-major calls of mcBLAS, and the developer's path that accumulates *)
(* the FP32 ones in double precision.                                      *)
(*                                                                         *)
(* Values are symbolic.  A cell of a buffer is the set of its terms, a     *)
(* term the set of the input cells it is the product of; an input cell, or *)
(* one that was not written, is the one term of itself.  The kernels of a  *)
(* call are carried out one after another by the stream of the handle.     *)
(***************************************************************************)
EXTENDS Integers, Sequences

CONSTANTS
    Jobs,       \* the calls to consider (see Job)
    Values,     \* values of INFINI_MACA_GEMM_FP64_ACCUM
    MaxCalls,   \* bound on the calls made
    MaxChanges  \* bound on the changes of the environment

VARIABLES
    env,        \* INFINI_MACA_GEMM_FP64_ACCUM
    enabled,    \* what Fp64AccumEnabled keeps, or "unread"
    job,        \* the call that is carried out, or NoJob
    memory,     \* buffer -> its data type and cells
    queue,      \* the kernels to carry out
    modes,      \* by whom FP32 products were accumulated, and how
    calls, changes,
    status      \* "running", or why the process was aborted

gemmVars == <<env, enabled, job, memory, queue, modes, calls, changes, status>>

(* A call: the operation, its sizes, the types of what it is given, which no *)
(* operation compares; transpose and bias for those that have them, and what *)
(* a caller of Gemm itself may choose.                                       *)
DataTypes == {"kFLOAT32", "kBFLOAT16", "kFLOAT16"}
Matmuls == {"MatmulForward", "MatmulBackwardInput", "MatmulBackwardOther"}
Linears == {"LinearForward", "LinearBackwardInput", "LinearBackwardWeight", "LinearBackwardBias"}
Outers == {"OuterForward", "OuterBackward"}
Forwards == {"MatmulForward", "LinearForward", "OuterForward", "Gemm"}
Job == [op : Matmuls \cup Linears \cup Outers \cup {"Gemm"},
        m : Nat, k : Nat, n : Nat, bs : Nat, inputType : DataTypes, otherType : DataTypes,
        biasType : DataTypes, gradType : DataTypes, transpose : BOOLEAN, bias : BOOLEAN, alpha : {0, 1}, beta : {0, 1}, pad : Nat,
        broadcast : BOOLEAN]
NoJob == [op |-> "none"]

(* Only matrix products come in batches.                                     *)
ASSUME GemmAssumption ==
    /\ Jobs \subseteq Job /\ MaxCalls \in Nat /\ MaxChanges \in Nat
    /\ \A j \in Jobs : j.op \in Linears \cup Outers => j.bs = 1

(* The type that a call computes in: in the forward operations the type of   *)
(* the input, whatever the others have; in the backward ones the type of the *)
(* operand that was kept for them, or what two of them are promoted to.      *)
PromoteDataTypes(a, b) == IF a = b THEN a ELSE "kFLOAT32"
ComputeType(j) ==
    CASE j.op \in {"MatmulBackwardInput", "LinearBackwardInput"} -> j.otherType
      [] j.op = "LinearBackwardBias" -> j.gradType
      [] j.op = "OuterBackward" -> PromoteDataTypes(j.inputType, j.otherType)
      [] OTHER -> j.inputType

(* The operands that a forward operation reads as ComputeType have it.       *)
SameTypes(j) ==
    j.op \in Forwards => /\ j.otherType = j.inputType
                         /\ j.bias => j.biasType = j.inputType

-----------------------------------------------------------------------------
(* Memory.                                                                   *)

Operands == {"input", "other", "grad", "bias"}
PromotedOf == [input |-> "promotedInput", other |-> "promotedOther", grad |-> "promotedGrad"]
Promotions == {"promotedInput", "promotedOther", "promotedGrad"}
Temporaries == {"a64", "b64", "c64"}

Unwritten(name, size, dtype) ==
    [dtype |-> dtype, cells |-> [o \in 0 .. size - 1 |-> {{<<name, o>>}}]]

CellAt(buffer, dtype, o) ==
    IF o \in DOMAIN memory[buffer].cells /\ memory[buffer].dtype = dtype
    THEN memory[buffer].cells[o]
    ELSE {{<<"misread", o>>}}

(* The cells that a kernel writes: for each x, value[x] at place[x].  They    *)
(* are misread when the buffer is of another type.                           *)
Scatter(place, value) ==
    [o \in {place[x] : x \in DOMAIN place} |-> UNION {value[x] : x \in {y \in DOMAIN place : place[y] = o}}]

Wrote(buffer, dtype, cells) ==
    memory' = [memory EXCEPT ![buffer].cells =
                 [o \in DOMAIN cells \cup DOMAIN @ |->
                    IF o \notin DOMAIN cells THEN @[o]
                    ELSE IF memory[buffer].dtype = dtype THEN cells[o] ELSE {{<<"misread", o>>}}]]

Times(p, q) == {x \cup y : x \in p, y \in q}

-----------------------------------------------------------------------------
(* Kernels.                                                                  *)

(* Where element idx of a batch of matrices is, column by column.            *)
ElementAt(idx, rows, cols, ld, stride) ==
    LET element == idx % (rows * cols)
    IN  (idx \div (rows * cols)) * stride + (element \div rows) * ld + (element % rows)

CopyMatrix(q) ==
    LET S == 0 .. q.count - 1
    IN  Wrote(q.dst, q.dstType, Scatter(
            [x \in S |-> ElementAt(x, q.rows, q.cols, q.dstLd, q.dstStride)],
            [x \in S |-> CellAt(q.src, q.srcType, ElementAt(x, q.rows, q.cols, q.srcLd, q.srcStride))]))

ScaleOutput(q) ==
    LET S == 0 .. q.count - 1
        At(x) == ElementAt(x, q.rows, q.cols, q.ld, q.stride)
    IN  Wrote(q.output, "kFLOAT32", Scatter([x \in S |-> At(x)],
            [x \in S |-> IF q.beta = 0 THEN {} ELSE CellAt(q.output, "kFLOAT32", At(x))]))

BiasCopyKernel(q) ==
    Wrote("output", q.dtype, [idx \in 0 .. q.bs * q.outFeatures - 1 |->
                       CellAt("bias", q.dtype, idx % q.outFeatures)])

ReduceRowsKernel(q) ==
    Wrote("output", "kFLOAT32", [col \in 0 .. q.cols - 1 |->
                       UNION {CellAt("grad", q.dtype, row * q.cols + col) : row \in 0 .. q.rows - 1}])

(* To of the framework, from operands to copies of another type.             *)
Convert(q) ==
    memory' = [x \in DOMAIN memory |->
                 [memory[x] EXCEPT !.cells = IF \E b \in q.of : x = PromotedOf[b]
                                             THEN memory[CHOOSE b \in q.of : x = PromotedOf[b]].cells ELSE @]]

(* mcblasGemmEx and mcblasDgemm, one matrix of a batch after another.        *)
McblasGemm(p) ==
    LET A(b, i, l) == CellAt(p.A, p.in, b * p.strideA + (IF p.transA THEN i * p.lda + l ELSE l * p.lda + i))
        B(b, l, h) == CellAt(p.B, p.in, b * p.strideB + (IF p.transB THEN l * p.ldb + h ELSE h * p.ldb + l))
        At(b, i, h) == b * p.strideC + h * p.ldc + i
        Sum(b, i, h) == IF p.alpha = 0 THEN {} ELSE UNION {Times(A(b, i, l), B(b, l, h)) : l \in 0 .. p.k - 1}
        Old(b, i, h) == IF p.beta = 0 THEN {} ELSE CellAt(p.C, p.out, At(b, i, h))
        S == (0 .. p.batchCount - 1) \X (0 .. p.m - 1) \X (0 .. p.n - 1)
    IN  Wrote(p.C, p.out, Scatter([x \in S |-> At(x[1], x[2], x[3])],
            [x \in S |-> Sum(x[1], x[2], x[3]) \cup Old(x[1], x[2], x[3])]))

CarryOut(q) ==
    \/ q.kernel = "CopyMatrix" /\ CopyMatrix(q)
    \/ q.kernel = "ScaleOutput" /\ ScaleOutput(q)
    \/ q.kernel = "BiasCopyKernel" /\ BiasCopyKernel(q)
    \/ q.kernel = "ReduceRowsKernel" /\ ReduceRowsKernel(q)
    \/ q.kernel = "Convert" /\ Convert(q)
    \/ q.kernel = "mcblas" /\ McblasGemm(q)

-----------------------------------------------------------------------------
(* Gemm: the kernels that it submits for its parameters.                     *)

(* The parameters; batch has the number of matrices and their strides.       *)
Params(transA, transB, m, n, k, A, lda, B, ldb, C, ldc, alpha, beta, batch, in, out) ==
    [kernel |-> "mcblas", transA |-> transA, transB |-> transB, m |-> m, n |-> n, k |-> k,
     A |-> A, lda |-> lda, B |-> B, ldb |-> ldb, C |-> C, ldc |-> ldc, alpha |-> alpha, beta |-> beta,
     batchCount |-> batch[1], strideA |-> batch[2], strideB |-> batch[3], strideC |-> batch[4],
     in |-> in, out |-> out]

Copied(src, srcType, dst, dstType, rows, cols, srcLd, dstLd, srcStride, dstStride, count) ==
    [kernel |-> "CopyMatrix", src |-> src, srcType |-> srcType, dst |-> dst, dstType |-> dstType,
     rows |-> rows, cols |-> cols, srcLd |-> srcLd, dstLd |-> dstLd, srcStride |-> srcStride, dstStride |-> dstStride,
     count |-> count]

(* Operands packed into FP64, the product there, and its cells copied back.  *)
CopiedInNever(p) == FALSE
CopiedIn(p) == p.beta # 0
RowsA(p) == IF p.transA THEN p.k ELSE p.m
ColsA(p) == IF p.transA THEN p.m ELSE p.k
RowsB(p) == IF p.transB THEN p.n ELSE p.k
ColsB(p) == IF p.transB THEN p.k ELSE p.n
SizeA(p) == RowsA(p) * ColsA(p)
SizeB(p) == RowsB(p) * ColsB(p)
PackedA(p) == Copied(p.A, p.in, "a64", "kFLOAT64", RowsA(p), ColsA(p), p.lda, RowsA(p), p.strideA, SizeA(p),
                     SizeA(p) * p.batchCount)
PackedB(p) == Copied(p.B, p.in, "b64", "kFLOAT64", RowsB(p), ColsB(p), p.ldb, RowsB(p), p.strideB, SizeB(p),
                     SizeB(p) * p.batchCount)
PackedC(p) == Copied(p.C, p.out, "c64", "kFLOAT64", p.m, p.n, p.ldc, p.m, p.strideC, p.m * p.n,
                     p.m * p.n * p.batchCount)
InDouble(p) ==
    Params(p.transA, p.transB, p.m, p.n, p.k, "a64", RowsA(p), "b64", RowsB(p), "c64", p.m, p.alpha, p.beta,
           <<p.batchCount, SizeA(p), SizeB(p), p.m * p.n>>, "kFLOAT64", "kFLOAT64")
Unpacked(p) == Copied("c64", "kFLOAT64", p.C, p.out, p.m, p.n, p.m, p.ldc, p.m * p.n, p.strideC,
                      p.m * p.n * p.batchCount)
Scaled(p) ==
    [kernel |-> "ScaleOutput", output |-> p.C, rows |-> p.m, cols |-> p.n, ld |-> p.ldc,
     stride |-> p.strideC, count |-> p.m * p.n * p.batchCount, beta |-> p.beta]

GemmFp64Accum(p) ==
    IF p.m = 0 \/ p.n = 0 \/ p.batchCount = 0 THEN <<>>
    ELSE IF p.k = 0 \/ p.alpha = 0 THEN <<Scaled(p)>>
    ELSE IF CopiedIn(p) THEN <<PackedA(p), PackedB(p), PackedC(p), InDouble(p), Unpacked(p)>>
    ELSE <<PackedA(p), PackedB(p), InDouble(p), Unpacked(p)>>

(* What Fp64AccumEnabled says, once it was read.                             *)
Fp64AccumEnabledEachTime == IF env \in {"unset", "", "0"} THEN FALSE ELSE TRUE
Fp64AccumEnabled ==
    IF enabled # "unread" THEN enabled = "yes" ELSE IF env \in {"unset", "", "0"} THEN FALSE ELSE TRUE

InFp64(p) == Fp64AccumEnabled /\ p.in = "kFLOAT32" /\ p.out = "kFLOAT32"
HasMacaDataType(dtype) == dtype \in {"kFLOAT32", "kBFLOAT16"}

Gemm(p) == IF InFp64(p) THEN GemmFp64Accum(p) ELSE <<p>>

Batch(bs, a, b, c) == IF bs > 1 THEN <<bs, a, b, c>> ELSE <<bs, 0, 0, 0>>

-----------------------------------------------------------------------------
(* The operations.  For the linear ones m counts the rows of the input, k    *)
(* and n are in_features and out_features, and other is the weight.          *)

OutputType(dtype) == IF dtype = "kBFLOAT16" THEN "kFLOAT32" ELSE dtype

GivenType(j, b) ==
    CASE b = "input" -> j.inputType
      [] b = "other" -> j.otherType
      [] b = "bias" -> j.biasType
      [] b = "grad" -> j.gradType

(* What is converted to the type of the call before it computes: a gradient, *)
(* and by OuterBackward any of its operands.                                 *)
ConvertedGradient(j) == {b \in {"grad"} : j.op \notin Forwards /\ GivenType(j, b) # ComputeType(j)}
Converted(j) ==
    {b \in {"input", "other", "grad"} :
       /\ j.op \notin Forwards
       /\ b = "grad" \/ j.op = "OuterBackward"
       /\ GivenType(j, b) # ComputeType(j)}
Operand(j, b) == IF b \in Converted(j) THEN PromotedOf[b] ELSE b
Grad(j) == Operand(j, "grad")
Promote(j) == IF Converted(j) = {} THEN <<>> ELSE <<[kernel |-> "Convert", of |-> Converted(j)]>>

MatmulForward(j) ==
    Gemm(Params(FALSE, FALSE, j.n, j.m, j.k, "other", j.n, "input", j.k, "output", j.n, 1, 0,
                Batch(j.bs, j.n * j.k, j.k * j.m, j.m * j.n), ComputeType(j), ComputeType(j)))

MatmulBackwardInput(j) ==
    Promote(j) \o
    Gemm(Params(TRUE, FALSE, j.k, j.m, j.n, "other", j.n, Grad(j), j.n, "output", j.k, 1, 0,
                Batch(j.bs, j.k * j.n, j.n * j.m, j.m * j.k), ComputeType(j), OutputType(ComputeType(j))))

MatmulBackwardOther(j) ==
    Promote(j) \o
    Gemm(Params(FALSE, TRUE, j.n, j.k, j.m, Grad(j), j.n, "input", j.k, "output", j.n, 1, 0,
                Batch(j.bs, j.n * j.m, j.k * j.m, j.n * j.k), ComputeType(j), OutputType(ComputeType(j))))

LinearForward(j) ==
    (IF j.bias THEN <<[kernel |-> "BiasCopyKernel", bs |-> j.m, outFeatures |-> j.n, dtype |-> ComputeType(j)]>>
     ELSE <<>>) \o
    Gemm(Params(j.transpose, FALSE, j.n, j.m, j.k, "other", IF j.transpose THEN j.k ELSE j.n,
                "input", j.k, "output", j.n, 1, IF j.bias THEN 1 ELSE 0, Batch(1, 0, 0, 0), ComputeType(j), ComputeType(j)))

LinearBackwardInput(j) ==
    Promote(j) \o
    Gemm(Params(~j.transpose, FALSE, j.k, j.m, j.n, "other", IF j.transpose THEN j.k ELSE j.n,
                Grad(j), j.n, "output", j.k, 1, 0, Batch(1, 0, 0, 0), ComputeType(j), OutputType(ComputeType(j))))

LinearBackwardWeight(j) ==
    LET inputSide == <<"input", j.k>>
        gradSide == <<Grad(j), j.n>>
        a == IF j.transpose THEN inputSide ELSE gradSide
        b == IF j.transpose THEN gradSide ELSE inputSide
    IN  Promote(j) \o
        Gemm(Params(FALSE, TRUE, a[2], b[2], j.m, a[1], a[2], b[1], b[2], "output", a[2], 1, 0,
                    Batch(1, 0, 0, 0), ComputeType(j), OutputType(ComputeType(j))))

LinearBackwardBias(j) ==
    <<[kernel |-> "ReduceRowsKernel", rows |-> j.m, cols |-> j.n, dtype |-> ComputeType(j)]>>

OuterForward(j) ==
    Gemm(Params(FALSE, FALSE, j.n, j.m, 1, "other", j.n, "input", 1, "output", j.n, 1, 0,
                Batch(1, 0, 0, 0), ComputeType(j), ComputeType(j)))

(* The FP32 products of a matrix and a vector are calls of mcblasSgemv.      *)
OuterBackward(j) ==
    Promote(j) \o
    IF ComputeType(j) = "kFLOAT32"
    THEN <<Params(TRUE, FALSE, j.m, 1, j.n, Grad(j), j.n, Operand(j, "other"), j.n, "output", j.m, 1, 0,
                  Batch(1, 0, 0, 0), ComputeType(j), ComputeType(j)),
           Params(FALSE, FALSE, j.n, 1, j.m, Grad(j), j.n, Operand(j, "input"), j.m, "output2", j.n, 1, 0,
                  Batch(1, 0, 0, 0), ComputeType(j), ComputeType(j))>>
    ELSE Gemm(Params(FALSE, FALSE, 1, j.m, j.n, Operand(j, "other"), 1, Grad(j), j.n, "output", 1, 1, 0,
                     Batch(1, 0, 0, 0), ComputeType(j), OutputType(ComputeType(j)))) \o
         Gemm(Params(FALSE, TRUE, 1, j.n, j.m, Operand(j, "input"), 1, Grad(j), j.n, "output2", 1, 1, 0,
                     Batch(1, 0, 0, 0), ComputeType(j), OutputType(ComputeType(j))))

(* A call of Gemm itself: matrices with padding, and one A for a batch.      *)
Ld(rows, j) == (IF rows = 0 THEN 1 ELSE rows) + j.pad
DirectA(j) == [ld |-> Ld(IF j.transpose THEN j.k ELSE j.m, j), cols |-> IF j.transpose THEN j.m ELSE j.k]
DirectStrides(j) == Batch(j.bs, IF j.broadcast THEN 0 ELSE DirectA(j).ld * DirectA(j).cols,
                          Ld(j.k, j) * j.n, Ld(j.m, j) * j.n)
DirectGemm(j) ==
    Gemm(Params(j.transpose, FALSE, j.m, j.n, j.k, "input", DirectA(j).ld, "other", Ld(j.k, j),
                "output", Ld(j.m, j), j.alpha, j.beta, DirectStrides(j), ComputeType(j), ComputeType(j)))

Kernels(j) ==
    CASE j.op = "MatmulForward" -> MatmulForward(j)
      [] j.op = "MatmulBackwardInput" -> MatmulBackwardInput(j)
      [] j.op = "MatmulBackwardOther" -> MatmulBackwardOther(j)
      [] j.op = "LinearForward" -> LinearForward(j)
      [] j.op = "LinearBackwardInput" -> LinearBackwardInput(j)
      [] j.op = "LinearBackwardWeight" -> LinearBackwardWeight(j)
      [] j.op = "LinearBackwardBias" -> LinearBackwardBias(j)
      [] j.op = "OuterForward" -> OuterForward(j)
      [] j.op = "OuterBackward" -> OuterBackward(j)
      [] j.op = "Gemm" -> DirectGemm(j)

(* Which of the calls ask Gemm for their products: not the one with none,    *)
(* and not the one that calls mcblasSgemv.                                   *)
UsesSgemv(j) == j.op = "OuterBackward" /\ ComputeType(j) = "kFLOAT32"
UsesGemm(j) == j.op # "LinearBackwardBias" /\ ~UsesSgemv(j)

(* How the FP32 products of a call are accumulated; mcblasSgemv knows of no  *)
(* switch.                                                                   *)
Accumulated(j) ==
    IF UsesSgemv(j) THEN {[by |-> "Sgemv", fp64 |-> FALSE]}
    ELSE IF UsesGemm(j) /\ ComputeType(j) = "kFLOAT32" THEN {[by |-> "Gemm", fp64 |-> Fp64AccumEnabled]}
    ELSE {}

-----------------------------------------------------------------------------
(* What the operations promise, element by element in row-major order.       *)

Input(j, b, i, l) == {{<<"input", (b * j.m + i) * j.k + l>>}}
Other(j, b, l, h) == {{<<"other", (b * j.k + l) * j.n + h>>}}
Weight(j, l, h) == {{<<"other", IF j.transpose THEN h * j.k + l ELSE l * j.n + h>>}}
GradOut(j, b, i, h) == {{<<"grad", (b * j.m + i) * j.n + h>>}}

(* A row-major array of batches of rows by cols, given its elements.         *)
RowMajor(batches, rows, cols, Element(_, _, _)) ==
    [o \in 0 .. batches * rows * cols - 1 |->
       Element(o \div (rows * cols), (o \div cols) % rows, o % cols)]

SumOver(count, Term(_)) == UNION {Term(x) : x \in 0 .. count - 1}

(* Column-major, with what lies between the columns left as it was.          *)
ExpectedOfGemm(j) ==
    LET A(b, i, l) == {{<<"input", b * DirectStrides(j)[2] + (IF j.transpose THEN i * DirectA(j).ld + l
                                                             ELSE l * DirectA(j).ld + i)>>}}
        B(b, l, h) == {{<<"other", b * DirectStrides(j)[3] + h * Ld(j.k, j) + l>>}}
        Old(o) == {{<<"output", o>>}}
    IN  [o \in 0 .. Ld(j.m, j) * j.n * j.bs - 1 |->
           LET i == o % Ld(j.m, j)
               h == (o \div Ld(j.m, j)) % j.n
               b == o \div (Ld(j.m, j) * j.n)
           IN  IF i >= j.m THEN Old(o)
               ELSE (IF j.alpha = 0 THEN {} ELSE SumOver(j.k, LAMBDA l : Times(A(b, i, l), B(b, l, h))))
                    \cup (IF j.beta = 0 THEN {} ELSE Old(o))]

Expected(j) ==
    CASE j.op = "MatmulForward" ->
           RowMajor(j.bs, j.m, j.n, LAMBDA b, i, h :
               SumOver(j.k, LAMBDA l : Times(Input(j, b, i, l), Other(j, b, l, h))))
      [] j.op = "MatmulBackwardInput" ->
           RowMajor(j.bs, j.m, j.k, LAMBDA b, i, l :
               SumOver(j.n, LAMBDA h : Times(GradOut(j, b, i, h), Other(j, b, l, h))))
      [] j.op = "MatmulBackwardOther" ->
           RowMajor(j.bs, j.k, j.n, LAMBDA b, l, h :
               SumOver(j.m, LAMBDA i : Times(Input(j, b, i, l), GradOut(j, b, i, h))))
      [] j.op = "LinearForward" ->
           RowMajor(1, j.m, j.n, LAMBDA b, i, h :
               SumOver(j.k, LAMBDA l : Times(Input(j, 0, i, l), Weight(j, l, h)))
               \cup (IF j.bias THEN {{<<"bias", h>>}} ELSE {}))
      [] j.op = "LinearBackwardInput" ->
           RowMajor(1, j.m, j.k, LAMBDA b, i, l :
               SumOver(j.n, LAMBDA h : Times(GradOut(j, 0, i, h), Weight(j, l, h))))
      [] j.op = "LinearBackwardWeight" ->
           LET Of(l, h) == SumOver(j.m, LAMBDA i : Times(Input(j, 0, i, l), GradOut(j, 0, i, h)))
           IN  IF j.transpose THEN RowMajor(1, j.n, j.k, LAMBDA b, h, l : Of(l, h))
               ELSE RowMajor(1, j.k, j.n, LAMBDA b, l, h : Of(l, h))
      [] j.op = "LinearBackwardBias" ->
           RowMajor(1, 1, j.n, LAMBDA b, r, h : SumOver(j.m, LAMBDA i : GradOut(j, 0, i, h)))
      [] j.op = "OuterForward" ->
           RowMajor(1, j.m, j.n, LAMBDA b, i, h : Times({{<<"input", i>>}}, {{<<"other", h>>}}))
      [] j.op = "OuterBackward" ->
           RowMajor(1, 1, j.m, LAMBDA b, r, i :
               SumOver(j.n, LAMBDA h : Times(GradOut(j, 0, i, h), {{<<"other", h>>}})))
      [] j.op = "Gemm" -> ExpectedOfGemm(j)

(* The other gradient of OuterBackward.                                      *)
Expected2(j) ==
    RowMajor(1, 1, j.n, LAMBDA b, r, h :
        SumOver(j.m, LAMBDA i : Times(GradOut(j, 0, i, h), {{<<"input", i>>}})))

TypeOfOutput(j) ==
    IF j.op \in Forwards THEN ComputeType(j) ELSE OutputType(ComputeType(j))

-----------------------------------------------------------------------------
(* The buffers of a call.  What was not written yet in a temporary of Gemm   *)
(* is misread; what was not in an output is a term of its own.               *)
OutputSize(j) ==
    CASE j.op \in {"MatmulForward", "LinearForward", "OuterForward"} -> j.bs * j.m * j.n
      [] j.op \in {"MatmulBackwardInput", "LinearBackwardInput"} -> j.bs * j.m * j.k
      [] j.op \in {"MatmulBackwardOther", "LinearBackwardWeight"} -> j.bs * j.k * j.n
      [] j.op = "LinearBackwardBias" -> j.n
      [] j.op = "OuterBackward" -> j.m
      [] j.op = "Gemm" -> Ld(j.m, j) * j.n * j.bs

Size(j, buffer) ==
    CASE buffer = "input" -> IF j.op = "Gemm" THEN DirectA(j).ld * DirectA(j).cols * (IF j.broadcast THEN 1 ELSE j.bs)
                             ELSE IF j.op \in Outers THEN j.m ELSE j.bs * j.m * j.k
      [] buffer = "other" -> IF j.op = "Gemm" THEN Ld(j.k, j) * j.n * j.bs
                             ELSE IF j.op \in Outers THEN j.n ELSE j.bs * j.k * j.n
      [] buffer \in {"grad", "promotedGrad"} -> j.bs * j.m * j.n
      [] buffer = "promotedInput" -> j.m
      [] buffer = "promotedOther" -> j.n
      [] buffer = "bias" -> j.n
      [] buffer = "output" -> OutputSize(j)
      [] buffer = "output2" -> IF j.op = "OuterBackward" THEN j.n ELSE 0
      [] buffer \in Temporaries -> 0

TypeOf(j, buffer) ==
    CASE buffer \in Operands -> GivenType(j, buffer)
      [] buffer \in Promotions -> ComputeType(j)
      [] buffer \in {"output", "output2"} -> TypeOfOutput(j)
      [] buffer \in Temporaries -> "kFLOAT64"

Memory(j) == [buffer \in Operands \cup Promotions \cup {"output", "output2"} \cup Temporaries |->
                Unwritten(buffer, Size(j, buffer), TypeOf(j, buffer))]

-----------------------------------------------------------------------------
GemmInit ==
    /\ env \in Values
    /\ enabled = "unread"
    /\ job = NoJob /\ memory = <<>> /\ queue = <<>>
    /\ modes = {} /\ calls = 0 /\ changes = 0
    /\ status = "running"

(* The program or a library changes its environment.                         *)
SetEnv(v) ==
    /\ status = "running" /\ changes < MaxChanges
    /\ env # v
    /\ env' = v
    /\ changes' = changes + 1
    /\ UNCHANGED <<enabled, job, memory, queue, modes, calls, status>>

(* The host's part of a call.  It is fatal to set the switch to anything but *)
(* 0 or 1, when it is read, and to ask for another data type.                *)
SwitchRefused(j) == UsesGemm(j) /\ enabled = "unread" /\ env \notin {"unset", "", "0", "1"}

Call(j) ==
    /\ status = "running" /\ job = NoJob /\ calls < MaxCalls
    /\ HasMacaDataType(ComputeType(j)) /\ ~SwitchRefused(j)
    /\ job' = j
    /\ memory' = Memory(j)
    /\ queue' = Kernels(j)
    /\ enabled' = IF ~UsesGemm(j) THEN enabled ELSE IF Fp64AccumEnabled THEN "yes" ELSE "no"
    /\ modes' = modes \cup Accumulated(j)
    /\ calls' = calls + 1
    /\ UNCHANGED <<env, changes, status>>

CallRefused(j) ==
    /\ status = "running" /\ job = NoJob /\ calls < MaxCalls
    /\ ~HasMacaDataType(ComputeType(j)) \/ SwitchRefused(j)
    /\ status' = "aborted"
    /\ UNCHANGED <<env, enabled, job, memory, queue, modes, calls, changes>>

(* The stream carries out its next kernel.                                   *)
Step ==
    /\ queue # <<>>
    /\ CarryOut(Head(queue))
    /\ queue' = Tail(queue)
    /\ UNCHANGED <<env, enabled, job, modes, calls, changes, status>>

Release ==
    /\ job # NoJob /\ queue = <<>>
    /\ job' = NoJob /\ memory' = <<>>
    /\ UNCHANGED <<env, enabled, queue, modes, calls, changes, status>>

GemmNext ==
    \/ \E v \in Values : SetEnv(v)
    \/ \E j \in Jobs : Call(j) \/ CallRefused(j)
    \/ Step
    \/ Release

GemmSpec == GemmInit /\ [][GemmNext]_gemmVars

-----------------------------------------------------------------------------
(* Properties.                                                               *)

GemmTypeOK ==
    /\ env \in Values
    /\ enabled \in {"unread", "yes", "no"}
    /\ job \in Jobs \cup {NoJob}
    /\ modes \subseteq [by : {"Gemm", "Sgemv"}, fp64 : BOOLEAN]
    /\ calls \in 0 .. MaxCalls /\ changes \in 0 .. MaxChanges

(* Once the stream has carried out a call, its results are the products that *)
(* the operation stands for, element by element, from no cell outside of the *)
(* operands, of another type or not written yet; nothing else is changed, the *)
(* padding of a matrix and the operands included.  It holds in both paths.   *)
(* The gradients are right for operands of any types, which are converted. A *)
(* forward operation converts nothing and checks nothing: only of operands   *)
(* of one type does it make the product; of others it leaves the operands    *)
(* alone and no more is claimed.                                             *)
ResultIsProduct ==
    /\ GemmTypeOK
    /\ job # NoJob /\ queue = <<>> =>
         /\ SameTypes(job) => memory["output"].cells = Expected(job)
         /\ job.op = "OuterBackward" => memory["output2"].cells = Expected2(job)
         /\ \A b \in Operands : memory[b] = Memory(job)[b]

(* All of the FP32 products that a process asks of Gemm are accumulated      *)
(* alike, whatever becomes of the environment after the first.  Those of     *)
(* OuterBackward do not pass through Gemm and do not obey the switch: with   *)
(* it set, they are accumulated otherwise than the products of OuterForward. *)
PrecisionKept == \A a, b \in modes : a.by = b.by => a.fp64 = b.fp64
=============================================================================
