------------------------------ MODULE MCMacaGemm ------------------------------
(* Instances of MacaGemm for TLC.                                            *)
EXTENDS MacaGemm

Shape(m, k, n, bs) == [m |-> m, k |-> k, n |-> n, bs |-> bs]
Types(input, other, bias, grad) == [input |-> input, other |-> other, bias |-> bias, grad |-> grad]
CallOf(op, s, t, transpose, bias) ==
    [op |-> op, m |-> s.m, k |-> s.k, n |-> s.n, bs |-> s.bs,
     inputType |-> t.input, otherType |-> t.other, biasType |-> t.bias, gradType |-> t.grad,
     transpose |-> transpose, bias |-> bias, alpha |-> 1, beta |-> 0, pad |-> 0, broadcast |-> FALSE]

Batched == {Shape(2, 3, 1, 1), Shape(3, 2, 2, 2), Shape(1, 2, 3, 2)}
Flat == {Shape(2, 3, 1, 1), Shape(3, 1, 2, 1), Shape(2, 2, 3, 1)}
Vectors == {Shape(2, 1, 3, 1), Shape(3, 1, 1, 1)}

(* The operands of forward operations, of one type and of two; a gradient    *)
(* beside operands of one type; and any types.                               *)
ForwardTypes == {Types(a, b, c, a) : a \in DataTypes, b \in DataTypes, c \in DataTypes}
GradTypes == {Types(a, a, a, g) : a \in DataTypes, g \in DataTypes}
AnyTypes == {Types(a, b, a, g) : a \in DataTypes, b \in DataTypes, g \in DataTypes}

MatmulCalls ==
    {CallOf("MatmulForward", s, t, FALSE, FALSE) : s \in Batched, t \in {x \in ForwardTypes : x.bias = x.input}}
    \cup {CallOf(op, s, t, FALSE, FALSE) :
            op \in {"MatmulBackwardInput", "MatmulBackwardOther"}, s \in Batched, t \in GradTypes}
LinearCalls ==
    {CallOf("LinearForward", s, t, transpose, bias) :
       s \in Flat, t \in ForwardTypes, transpose \in BOOLEAN, bias \in BOOLEAN}
    \cup {CallOf(op, s, t, transpose, FALSE) :
            op \in {"LinearBackwardInput", "LinearBackwardWeight", "LinearBackwardBias"}, s \in Flat,
            t \in GradTypes, transpose \in BOOLEAN}
OuterCalls == {CallOf(op, s, t, FALSE, FALSE) : op \in Outers, s \in Vectors, t \in AnyTypes}
Gemms == {[CallOf("Gemm", s, Types("kFLOAT32", "kFLOAT32", "kFLOAT32", "kFLOAT32"), transpose, FALSE) EXCEPT
             !.alpha = alpha, !.beta = beta, !.pad = pad, !.broadcast = s.bs > 1 /\ pad = 0] :
            s \in Batched \cup {Shape(2, 0, 2, 1), Shape(0, 2, 2, 1)}, transpose \in BOOLEAN,
            alpha \in {0, 1}, beta \in {0, 1}, pad \in {0, 1}}

AllJobs == MatmulCalls \cup LinearCalls \cup OuterCalls \cup Gemms
=============================================================================
