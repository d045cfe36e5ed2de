---------------------------- MODULE MCBroadcastGrad ----------------------------
(* Instances of BroadcastGrad for TLC.                                       *)
EXTENDS BroadcastGrad

Launch(type, out_shape, b_shape, block, sm, aligned) ==
    [type |-> type, out_shape |-> out_shape, b_shape |-> b_shape, same_dims |-> FALSE,
     contiguous |-> TRUE, block |-> block, sm_count |-> sm, aligned |-> aligned]

Shapes ==
    {<<<<2, 3>>, <<1, 3>>>>, <<<<2, 3>>, <<2, 1>>>>, <<<<7>>, <<1>>>>,
     <<<<3, 1, 2>>, <<3, 1, 1>>>>, <<<<3, 2>>, <<1, 2>>>>}

Floats == {Launch("float", s[1], s[2], 4, 1, TRUE) : s \in Shapes}

Trees ==
    {Launch("half", <<2, 4>>, <<1, 4>>, 4, 1, TRUE),        \* too many for a histogram
     Launch("half", <<2, 3>>, <<2, 1>>, 4, 1, FALSE)}       \* runs that cross a block
    \cup {Launch("half", <<2, 2, 1>>, b, 4, 1, TRUE) : b \in {<<2, 1, 1>>, <<1, 2, 1>>, <<1, 1, 1>>}}
    \cup {Launch("half", <<3>>, <<1>>, 4, 1, FALSE), Launch("half", <<1, 5>>, <<1, 1>>, 8, 1, TRUE)}

Histograms ==
    {Launch("half", <<3, 2>>, <<1, 2>>, 2, sm, TRUE) : sm \in {1, 2}}
    \cup {Launch("half", <<2, 3>>, <<1, 3>>, 4, 1, TRUE)}

(* The same shapes, and <<1, 3>> from <<3>>, which are not the same.          *)
SameShapes ==
    {[Launch(type, <<2, 3>>, <<2, 3>>, 4, 1, TRUE) EXCEPT !.same_dims = TRUE, !.contiguous = c] :
        type \in {"float", "half"}, c \in BOOLEAN}
    \cup {Launch(type, <<1, 3>>, <<1, 3>>, 4, 1, TRUE) : type \in {"float", "half"}}

MCLaunches == Floats \cup Trees \cup Histograms \cup SameShapes
=============================================================================
