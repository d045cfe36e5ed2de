------------------------------ MODULE KernelProofs ------------------------------
(***************************************************************************)
(* Theorems about the kernels.  BroadcastGrad: whichever of the ways that  *)
(* LaunchBackward chooses, each contribution is added just once and to its *)
(* own element, for any shapes, blocks, warps and tiles.  MacaGemm: the    *)
(* column-major products that the operations ask for leave the row-major   *)
(* ones that they stand for, in both paths, for any sizes and strides.     *)
(***************************************************************************)
EXTENDS BroadcastGrad, MacaGemm, SequenceTheorems, TLAPS

-----------------------------------------------------------------------------
(* BroadcastGrad.                                                            *)

(* The threads that are launched.                                            *)
Working == (0 .. Grid - 1) \X Tids

-----------------------------------------------------------------------------
(* The invariant, one part for each way.                                     *)

Types ==
    /\ call \in Launches
    /\ phase \in [Threads -> {"store", "warp", "load", "tree", "merge", "zero", "count",
                              "flush", "done"}]
    /\ stride \in [Threads -> Nat]
    /\ DOMAIN reg = Threads
    /\ s_offset \in [Blocks -> [Slots -> BElements \cup {-1}]]
    /\ s_grad \in [Blocks -> [Slots -> SUBSET (Indices \cup {Twice})]]
    /\ work \in [Blocks -> [BElements -> SUBSET (Indices \cup {Twice})]]
    /\ todo \subseteq Cells
    /\ output_a \subseteq Indices
    /\ outB_accum \in [BElements -> SUBSET (Indices \cup {Twice})]
    /\ output_b \in [BElements -> SUBSET (Indices \cup {Twice})]

PhasesOf(path) ==
    CASE path \in {"Fast", "NoBroadcast"} -> {"store", "done"}
      [] path = "Warp"                   -> {"warp", "done"}
      [] path = "BlockReduce"            -> {"load", "tree", "merge", "done"}
      [] path = "TwoPassHist"            -> {"zero", "count", "flush", "done"}

OnPath == /\ \A t \in Working : phase[t] \in PhasesOf(DecidePath)
          /\ \A t \in Threads \ Working : phase[t] = "done"

(* The elements of the output that some threads are for.                     *)
IndicesOf(S) == {GlobalIdx(t) : t \in {u \in S : InBounds(u)}}
For(k, S) == {i \in S : BOffset(i) = k}

(* Direct stores and warps: a thread is done when its contribution is in.    *)
Placed ==
    /\ output_a = IndicesOf({t \in Working : phase[t] = "done"})
    /\ \A k \in BElements : output_b[k] = For(k, output_a)

(* The tree: where its threads are with regard to each other.                *)
Offset(t) == s_offset[t[1]][Slot(t)]
Gradient(t) == s_grad[t[1]][Slot(t)]
Loaded == {t \in Working : phase[t] # "load"}

TreeSteps ==
    \A t \in Working :
        /\ phase[t] = "load" => stride[t] = 0
        /\ phase[t] \in {"tree", "merge"} => stride[t] >= 1
        /\ phase[t] = "merge" =>
             /\ stride[t] < BlockThreads /\ Merges(t)
             /\ \A u \in BlockOf(t) : phase[u] \in {"tree", "merge"} /\ stride[u] >= stride[t]
             /\ reg[t] = [o1 |-> Offset(t), o2 |-> Offset(Partner(t)),
                          g1 |-> Gradient(t), g2 |-> Gradient(Partner(t))]
        /\ phase[t] = "done" =>
             \A u \in BlockOf(t) : \/ phase[u] = "done"
                                   \/ phase[u] = "tree" /\ stride[u] >= BlockThreads

(* ... and what their slots hold.                                            *)
TreeSums ==
    /\ output_a = IndicesOf(Loaded)
    /\ \A t \in Loaded : Offset(t) # -1 => InBounds(t) /\ Offset(t) = BOffset(GlobalIdx(t))
    /\ \A t \in Live : \A i \in Gradient(t) :
         i \in output_a /\ BOffset(i) = Offset(t) /\ i \notin output_b[Offset(t)]
    /\ \A t, u \in Live : t # u => Gradient(t) \cap Gradient(u) = {}
    /\ \A k \in BElements : \A i \in output_b[k] : i \in output_a /\ BOffset(i) = k
    /\ \A i \in output_a : i \in output_b[BOffset(i)] \/ \E t \in Live : i \in Gradient(t)

(* The histograms: the grid-stride loop gives each thread one element.       *)
Counted == {t \in Working : phase[t] # "zero" /\ stride[t] # GlobalIdx(t)}
Of(b) == {b} \X Tids

HistSteps ==
    \A t \in Working :
        /\ phase[t] # "zero" => stride[t] \in {GlobalIdx(t), GlobalIdx(t) + Grid * BlockThreads}
        /\ t \in Counted => InBounds(t)
        /\ phase[t] = "zero" => \A u \in BlockOf(t) : phase[u] \in {"zero", "count"} /\ u \notin Counted
        /\ phase[t] \in {"flush", "done"} /\ InBounds(t) => t \in Counted
        /\ phase[t] = "done" => \A u \in BlockOf(t) : phase[u] \in {"flush", "done"}

HistSums ==
    /\ output_a = IndicesOf(Counted)
    /\ \A b \in 0 .. Grid - 1, k \in BElements :
         /\ phase[<<b, Padded(k) % BlockThreads>>] # "zero" =>
              s_grad[b][Padded(k)] = For(k, IndicesOf(Of(b) \cap Counted))
         /\ phase[<<b, k % BlockThreads>>] = "done" => work[b][k] = For(k, IndicesOf(Of(b)))

RowsDone(k) == UNION {Rows(tile) : tile \in {x \in Tiles : <<"2D", k, x>> \notin todo}}

HistReduced ==
    /\ ~KernelEnded => todo = Cells
    /\ \A k \in BElements :
         IF Use2D
         THEN /\ outB_accum[k] = UNION {For(k, IndicesOf(Of(b))) : b \in RowsDone(k)}
              /\ <<"cast", k, 0>> \in todo => output_b[k] = {}
              /\ <<"cast", k, 0>> \notin todo => /\ output_b[k] = outB_accum[k]
                                                /\ todo \subseteq {"cast"} \X BElements \X {0}
         ELSE output_b[k] = IF <<"1D", k, 0>> \in todo THEN {} ELSE For(k, Indices)

Tree == TreeSteps /\ TreeSums
Histograms == HistSteps /\ HistSums /\ HistReduced

(* Memory that nobody has filled or stored to yet.                           *)
Unfilled ==
    /\ NeedsBroadcast => unset = {}
    /\ ~NeedsBroadcast /\ DecidePath = "Warp" => unset = BElements
    /\ ~NeedsBroadcast /\ DecidePath # "Warp" => unset = BElements \ output_a

Inv ==
    /\ Types
    /\ OnPath
    /\ DecidePath \in {"Fast", "NoBroadcast", "Warp"} => Placed
    /\ DecidePath = "BlockReduce" => Tree
    /\ DecidePath = "TwoPassHist" => Histograms

-----------------------------------------------------------------------------
(* Arithmetic.                                                               *)

LEMMA Division ==
    ASSUME NEW n \in Nat, NEW d \in Nat \ {0}
    PROVE  /\ n = d * (n \div d) + (n % d) /\ n % d \in 0 .. d - 1 /\ n \div d \in Nat
           /\ d * (n \div d) <= n /\ n < d * (n \div d) + d
<1>1. n = d * (n \div d) + (n % d) /\ n % d \in 0 .. d - 1 /\ n \div d \in Nat
  OBVIOUS
<1>2. d * (n \div d) \in Nat
  BY <1>1
<1> QED
  BY <1>1, <1>2

LEMMA TimesOrdered ==
    ASSUME NEW a \in Nat, NEW b \in Nat, NEW d \in Nat, a < b
    PROVE  a * d + d <= b * d /\ a * d \in Nat /\ b * d \in Nat
<1>1. b >= a + 1
  OBVIOUS
<1>2. (a + 1) * d = a * d + d
  OBVIOUS
<1>3. \A x, y \in Nat : x <= y => x * d <= y * d
  OBVIOUS
<1>4. (a + 1) * d <= b * d
  BY <1>1, <1>3
<1> QED
  BY <1>2, <1>4

(* Numbers in two digits, the lower below d.                                 *)
LEMMA Digits ==
    ASSUME NEW d \in Nat, NEW a \in Nat, NEW b \in Nat, NEW i \in 0 .. d - 1, NEW j \in 0 .. d - 1,
           a * d + i = b * d + j
    PROVE  a = b /\ i = j
<1>0. a * d \in Nat /\ b * d \in Nat
  OBVIOUS
<1>1. ~(a < b)
  BY <1>0, TimesOrdered
<1>2. ~(b < a)
  BY <1>0, TimesOrdered
<1>3. a = b
  BY <1>1, <1>2
<1> QED
  BY <1>0, <1>3

LEMMA QuotientsOrdered ==
    ASSUME NEW m \in Nat, NEW n \in Nat, m <= n, NEW d \in Nat \ {0}
    PROVE  m \div d <= n \div d
<1>1. /\ m \div d \in Nat /\ d * (m \div d) <= m
      /\ n \div d \in Nat /\ n < d * (n \div d) + d
  BY Division
<1>2. SUFFICES ASSUME n \div d < m \div d PROVE FALSE
  BY <1>1
<1>3. (n \div d) * d + d <= (m \div d) * d
  BY <1>1, <1>2, TimesOrdered
<1>4. (n \div d) * d = d * (n \div d) /\ (m \div d) * d = d * (m \div d)
      /\ d * (n \div d) \in Nat /\ d * (m \div d) \in Nat
  BY <1>1
<1> QED
  BY <1>1, <1>3, <1>4

LEMMA CeilDivCovers ==
    ASSUME NEW n \in Nat, NEW d \in Nat \ {0}
    PROVE  CeilDiv(n, d) \in Nat /\ n <= CeilDiv(n, d) * d
<1>1. n + d - 1 \in Nat
  OBVIOUS
<1>2. /\ (n + d - 1) \div d \in Nat
      /\ n + d - 1 < d * ((n + d - 1) \div d) + d
  BY <1>1, Division
<1>3. d * ((n + d - 1) \div d) = ((n + d - 1) \div d) * d /\ d * ((n + d - 1) \div d) \in Nat
  BY <1>2
<1> QED
  BY <1>2, <1>3 DEF CeilDiv

(* The padding keeps slots apart and inside of the room that is made.        *)
LEMMA PaddedOrdered ==
    ASSUME NEW i \in Nat, NEW j \in Nat, i < j
    PROVE  Padded(i) < Padded(j) /\ Padded(i) \in Nat /\ Padded(j) \in Nat /\ Padded(i) < Room(j)
<1>1. WarpSize \in Nat \ {0}
  BY SizesAssumption
<1>2. i \div WarpSize \in Nat /\ j \div WarpSize \in Nat /\ i \div WarpSize <= j \div WarpSize
  BY <1>1, Division, QuotientsOrdered
<1> QED
  BY <1>2 DEF Padded, Room

LEMMA PaddedApart ==
    ASSUME NEW i \in Nat, NEW j \in Nat, Padded(i) = Padded(j)
    PROVE  i = j
<1>1. ~(i < j) /\ ~(j < i)
  BY PaddedOrdered
<1> QED
  BY <1>1

LEMMA RoomOrdered ==
    ASSUME NEW m \in Nat, NEW n \in Nat, m <= n
    PROVE  Room(m) <= Room(n) /\ Room(m) \in Nat /\ Room(n) \in Nat
<1>1. WarpSize \in Nat \ {0}
  BY SizesAssumption
<1>2. m \div WarpSize \in Nat /\ n \div WarpSize \in Nat /\ m \div WarpSize <= n \div WarpSize
  BY <1>1, Division, QuotientsOrdered
<1> QED
  BY <1>2 DEF Room

-----------------------------------------------------------------------------
(* The call and its threads.                                                 *)

LEMMA CallFacts ==
    ASSUME call \in Launches
    PROVE  /\ BlockThreads \in 1 .. MaxBlock /\ MaxBlock \in Nat /\ MaxGrid \in Nat
           /\ NumElements \in Nat \ {0} /\ BNumElements \in Nat \ {0}
           /\ Grid \in 0 .. MaxGrid /\ NumElements <= Grid * BlockThreads
           /\ \A i \in Indices : BOffset(i) \in BElements
           /\ call.b_shape = call.out_shape => \A i \in Indices : BOffset(i) = i
<1>1. /\ MaxBlock \in Nat /\ MaxGrid \in Nat
      /\ call.block \in 1 .. MaxBlock
      /\ NumElements \in Nat \ {0} /\ BNumElements \in Nat \ {0}
      /\ CeilDiv(NumElements, call.block) <= MaxGrid
      /\ \A idx \in Indices : /\ Offsets[call][idx] \in BElements
                              /\ call.b_shape = call.out_shape => Offsets[call][idx] = idx
  BY SizesAssumption, LaunchesAssumption DEF NumElements, BNumElements, Indices, BElements
<1>2. Grid \in Nat /\ NumElements <= Grid * BlockThreads
  BY <1>1, CeilDivCovers DEF Grid, BlockThreads
<1>3. Grid <= MaxGrid
  BY <1>1 DEF Grid, BlockThreads
<1> QED
  BY <1>1, <1>2, <1>3 DEF BlockThreads, BOffset

LEMMA ThreadFacts ==
    ASSUME call \in Launches
    PROVE  /\ Working \subseteq Threads
           /\ \A t \in Working : /\ t = <<t[1], t[2]>> /\ t[1] \in 0 .. Grid - 1 /\ t[1] \in Blocks
                                 /\ t[1] \in Nat /\ t[2] \in Tids /\ t[2] \in Nat
           /\ \A t \in Threads : t \in Working <=> t[1] < Grid /\ t[2] < BlockThreads
           /\ \A b \in 0 .. Grid - 1, i \in Tids : <<b, i>> \in Working
<1>1. BlockThreads \in 1 .. MaxBlock /\ MaxBlock \in Nat /\ MaxGrid \in Nat /\ Grid \in 0 .. MaxGrid
  BY CallFacts
<1> QED
  BY <1>1 DEF Working, Threads, Blocks, Tids

LEMMA GlobalIdxFacts ==
    ASSUME call \in Launches
    PROVE  /\ \A t \in Working : /\ GlobalIdx(t) \in Nat
                                 /\ InBounds(t) <=> GlobalIdx(t) \in Indices
           /\ \A t, u \in Working : GlobalIdx(t) = GlobalIdx(u) => t = u
           /\ \A i \in Indices : \E t \in Working : GlobalIdx(t) = i
<1>1. /\ BlockThreads \in Nat \ {0} /\ Grid \in Nat /\ NumElements \in Nat
      /\ NumElements <= Grid * BlockThreads
  BY CallFacts
<1>2. ASSUME NEW t \in Working
      PROVE  GlobalIdx(t) \in Nat /\ (InBounds(t) <=> GlobalIdx(t) \in Indices)
  <2>1. t[1] \in Nat /\ t[2] \in Nat
    BY ThreadFacts
  <2>2. t[1] * BlockThreads \in Nat
    BY <1>1, <2>1
  <2> QED
    BY <1>1, <2>1, <2>2 DEF GlobalIdx, InBounds, Indices
<1>3. ASSUME NEW t \in Working, NEW u \in Working, GlobalIdx(t) = GlobalIdx(u)
      PROVE  t = u
  <2>1. /\ t[1] \in Nat /\ t[2] \in 0 .. BlockThreads - 1 /\ t = <<t[1], t[2]>>
        /\ u[1] \in Nat /\ u[2] \in 0 .. BlockThreads - 1 /\ u = <<u[1], u[2]>>
    BY ThreadFacts DEF Tids
  <2>2. t[1] = u[1] /\ t[2] = u[2]
    BY <1>1, <1>3, <2>1, Digits DEF GlobalIdx
  <2> QED
    BY <2>1, <2>2
<1>4. ASSUME NEW i \in Indices
      PROVE  \E t \in Working : GlobalIdx(t) = i
  <2> DEFINE b == i \div BlockThreads
             j == i % BlockThreads
  <2>1. i \in Nat /\ i < NumElements
    BY <1>1 DEF Indices
  <2>2. i = BlockThreads * b + j /\ j \in Tids /\ b \in Nat /\ j \in Nat
    <3>1. i = BlockThreads * b + j /\ j \in 0 .. BlockThreads - 1 /\ b \in Nat
      BY <1>1, <2>1, Division
    <3> QED
      BY <1>1, <3>1 DEF Tids
  <2> HIDE DEF b, j
  <2>3. BlockThreads * b = b * BlockThreads /\ b * BlockThreads \in Nat
    BY <1>1, <2>2
  <2>4. b < Grid
    <3>1. SUFFICES ASSUME Grid <= b PROVE FALSE
      BY <1>1, <2>2
    <3>2. Grid * BlockThreads <= b * BlockThreads
      <4>1. CASE Grid = b
        BY <1>1, <4>1
      <4>2. CASE Grid < b
        BY <1>1, <2>2, <4>2, TimesOrdered
      <4> QED
        BY <1>1, <2>2, <3>1, <4>1, <4>2
    <3>3. Grid * BlockThreads \in Nat
      BY <1>1
    <3> QED
      BY <1>1, <2>1, <2>2, <2>3, <3>2, <3>3
  <2>5. <<b, j>> \in Working
    BY <1>1, <2>2, <2>4, ThreadFacts
  <2>6. GlobalIdx(<<b, j>>) = i
    BY <2>2, <2>3 DEF GlobalIdx
  <2> QED
    BY <2>5, <2>6
<1> QED
  BY <1>2, <1>3, <1>4

(* The call stays, and with it all that is worked out from it.               *)
LEMMA CallStays ==
    ASSUME UNCHANGED call
    PROVE  /\ Working' = Working /\ Tids' = Tids /\ BlockThreads' = BlockThreads
           /\ NumElements' = NumElements /\ BNumElements' = BNumElements /\ Grid' = Grid
           /\ Indices' = Indices /\ BElements' = BElements /\ Cells' = Cells
           /\ DecidePath' = DecidePath /\ (NeedsBroadcast' <=> NeedsBroadcast) /\ Tiles' = Tiles /\ (Use2D' <=> Use2D)
           /\ \A t : GlobalIdx(t)' = GlobalIdx(t) /\ (InBounds(t)' <=> InBounds(t))
           /\ \A t : BlockOf(t)' = BlockOf(t)
           /\ \A S : IndicesOf(S)' = IndicesOf(S)
           /\ \A k, S : For(k, S)' = For(k, S)
           /\ \A i : BOffset(i)' = BOffset(i)
           /\ \A b : Of(b)' = Of(b)
           /\ \A tile : Rows(tile)' = Rows(tile)
BY DEF Working, Tids, BlockThreads, NumElements, BNumElements, Grid, Indices, BElements,
       Cells, DecidePath, DecideBF16Path, NeedsBroadcast, Tiles, Use2D, GlobalIdx, InBounds, BlockOf, IndicesOf, For,
       BOffset, Of, Rows

LEMMA Paths ==
    /\ DecidePath \in {"Fast", "NoBroadcast", "Warp", "BlockReduce", "TwoPassHist"}
    /\ DecidePath = "NoBroadcast" => call.b_shape = call.out_shape
    /\ DecidePath = "TwoPassHist" => BNumElements <= HistLimit
    /\ DecidePath # "TwoPassHist" => Cells = {}
BY DEF DecidePath, DecideBF16Path, Cells

(* Equal shapes are stored or go to the warps.                               *)
LEMMA SameShapes ==
    ASSUME call \in Launches
    PROVE  /\ DecidePath = "Fast" => ~NeedsBroadcast /\ call.b_shape = call.out_shape
           /\ ~NeedsBroadcast =>
                /\ call.b_shape = call.out_shape
                /\ DecidePath \in {"Fast", "NoBroadcast", "Warp"}
                /\ DecidePath = "Warp" => call.type = "float" /\ call.same_dims /\ ~ call.contiguous
<1>1. /\ call.same_dims \in BOOLEAN /\ call.contiguous \in BOOLEAN
      /\ call.same_dims => call.b_shape = call.out_shape
  BY LaunchesAssumption
<1>2. CASE ~ call.same_dims
  BY <1>1, <1>2 DEF DecidePath, DecideBF16Path, NeedsBroadcast
<1>3. CASE call.same_dims /\ call.contiguous
  BY <1>1, <1>3 DEF DecidePath, NeedsBroadcast
<1>4. CASE call.same_dims /\ ~ call.contiguous
  BY <1>1, <1>4 DEF DecidePath, DecideBF16Path, NeedsBroadcast
<1> QED
  BY <1>1, <1>2, <1>3, <1>4

(* A thread that has not ended is one of those launched.                     *)
LEMMA Launched ==
    ASSUME Inv, NEW t \in Threads, phase[t] # "done"
    PROVE  t \in Working /\ phase[t] \in PhasesOf(DecidePath)
BY DEF Inv, OnPath

-----------------------------------------------------------------------------
(* The threads go to phases of their path: what is left to show is about     *)
(* the sums.                                                                 *)

LEMMA PhasesKept ==
    ASSUME Inv, UNCHANGED call, NEW S \in SUBSET Threads, NEW p,
           S \subseteq Working, p \in PhasesOf(DecidePath),
           phase' = [t \in Threads |-> IF t \in S THEN p ELSE phase[t]]
    PROVE  OnPath' /\ phase' \in [Threads -> {"store", "warp", "load", "tree", "merge", "zero",
                                              "count", "flush", "done"}]
<1>1. p \in {"store", "warp", "load", "tree", "merge", "zero", "count", "flush", "done"}
  BY Paths DEF PhasesOf
<1>2. Working \subseteq Threads
  BY ThreadFacts DEF Inv, Types
<1>3. PhasesOf(DecidePath)' = PhasesOf(DecidePath) /\ Working' = Working
  BY CallStays DEF PhasesOf
<1>4. \A t \in Working : phase'[t] \in PhasesOf(DecidePath)
  BY <1>2 DEF Inv, OnPath
<1>5. \A t \in Threads \ Working : phase'[t] = "done"
  BY DEF Inv, OnPath
<1>6. OnPath'
  BY <1>3, <1>4, <1>5 DEF OnPath
<1> QED
  BY <1>1, <1>6 DEF Inv, Types

(* The same for a single thread.                                             *)
LEMMA PhaseKept ==
    ASSUME Inv, UNCHANGED call, NEW t \in Working, NEW p, p \in PhasesOf(DecidePath),
           phase' = [phase EXCEPT ![t] = p]
    PROVE  OnPath' /\ phase' \in [Threads -> {"store", "warp", "load", "tree", "merge", "zero",
                                              "count", "flush", "done"}]
<1>1. {t} \in SUBSET Threads /\ {t} \subseteq Working
  BY ThreadFacts DEF Inv, Types
<1>2. phase' = [u \in Threads |-> IF u \in {t} THEN p ELSE phase[u]]
  BY DEF Inv, Types
<1> QED
  BY <1>1, <1>2, PhasesKept

-----------------------------------------------------------------------------
(* Direct stores and warps.                                                  *)

(* Some threads end and put what they were for in place.                     *)
LEMMA PlacedMore ==
    ASSUME Types, Placed, UNCHANGED call, NEW S \in SUBSET Working,
           \A t \in S : phase[t] # "done",
           \A t \in Working : (phase'[t] = "done") <=> (phase[t] = "done" \/ t \in S),
           output_a' = output_a \cup IndicesOf(S),
           \A k \in BElements : output_b'[k] = output_b[k] \cup For(k, IndicesOf(S))
    PROVE  Placed'
<1>1. output_a' = IndicesOf({t \in Working : phase'[t] = "done"})
  BY DEF Placed, IndicesOf
<1>2. \A k \in BElements : output_b'[k] = For(k, output_a')
  BY DEF Placed, For
<1> QED
  BY <1>1, <1>2, CallStays DEF Placed

LEMMA StoreDirectKeeps ==
    ASSUME Inv, NEW t \in Threads, StoreDirect(t)
    PROVE  Inv'
<1>1. /\ phase[t] = "store" /\ phase' = [phase EXCEPT ![t] = "done"]
      /\ IF InBounds(t)
         THEN /\ output_a' = output_a \cup {GlobalIdx(t)}
              /\ output_b' = [output_b EXCEPT ![BOffset(GlobalIdx(t))] = {GlobalIdx(t)}]
         ELSE UNCHANGED <<output_a, output_b>>
      /\ UNCHANGED <<call, stride, reg, s_offset, s_grad, work, todo, outB_accum>>
  BY DEF StoreDirect
<1>2. Types /\ t \in Working /\ "store" \in PhasesOf(DecidePath) /\ call \in Launches
  BY <1>1, Launched DEF Inv, Types
<1>3. /\ DecidePath \in {"Fast", "NoBroadcast"} /\ call.b_shape = call.out_shape
      /\ "done" \in PhasesOf(DecidePath)
  <2>1. DecidePath \in {"Fast", "NoBroadcast"} /\ "done" \in PhasesOf(DecidePath)
    BY <1>2, Paths DEF PhasesOf
  <2> QED
    BY <1>2, <2>1, Paths, SameShapes
<1>4. OnPath' /\ phase' \in [Threads -> {"store", "warp", "load", "tree", "merge", "zero",
                                         "count", "flush", "done"}]
  BY <1>1, <1>2, <1>3, PhaseKept
<1>5. Placed
  BY <1>3 DEF Inv
<1>6. InBounds(t) => /\ GlobalIdx(t) \in Indices /\ BOffset(GlobalIdx(t)) = GlobalIdx(t)
                     /\ GlobalIdx(t) \in BElements
  BY <1>2, <1>3, GlobalIdxFacts, CallFacts
<1>7. output_b' \in [BElements -> SUBSET (Indices \cup {Twice})] /\ output_a' \subseteq Indices
  BY <1>1, <1>2, <1>6 DEF Types
<1>8. Types'
  BY <1>1, <1>2, <1>4, <1>7, CallStays DEF Types
<1>9. IndicesOf({t}) = IF InBounds(t) THEN {GlobalIdx(t)} ELSE {}
  BY DEF IndicesOf
<1>10. ASSUME NEW k \in BElements
       PROVE  output_b'[k] = output_b[k] \cup For(k, IndicesOf({t}))
  <2>1. CASE ~InBounds(t)
    BY <1>1, <1>9, <2>1 DEF For
  <2>2. CASE InBounds(t) /\ k # GlobalIdx(t)
    BY <1>1, <1>2, <1>6, <1>9, <2>2 DEF For, Types
  <2>3. CASE InBounds(t) /\ k = GlobalIdx(t)
    <3>1. output_b[k] \subseteq {k}
      <4>1. output_b[k] = For(k, output_a) /\ output_a \subseteq Indices
        BY <1>2, <1>5 DEF Placed, Types
      <4>2. \A i \in Indices : BOffset(i) = i
        BY <1>2, <1>3, CallFacts
      <4> QED
        BY <4>1, <4>2 DEF For
    <3>2. output_b'[k] = {k}
      BY <1>1, <1>2, <1>6, <2>3 DEF Types
    <3> QED
      BY <1>6, <1>9, <2>3, <3>1, <3>2 DEF For
  <2> QED
    BY <2>1, <2>2, <2>3
<1>11. output_a' = output_a \cup IndicesOf({t})
  BY <1>1, <1>9
<1>12. \A u \in Working : phase'[u] = "done" <=> phase[u] = "done" \/ u \in {t}
  BY <1>1, <1>2, ThreadFacts DEF Types
<1>13. Placed'
  BY <1>1, <1>2, <1>5, <1>10, <1>11, <1>12, PlacedMore
<1> QED
  BY <1>1, <1>3, <1>4, <1>8, <1>13, CallStays DEF Inv

LEMMA WarpReduceKeeps ==
    ASSUME Inv, NEW b \in Blocks, NEW w, WarpReduce(b, w)
    PROVE  Inv'
<1> DEFINE S == Lanes(b, w)
<1>1. /\ S # {} /\ \A t \in S : phase[t] = "warp"
      /\ phase' = [t \in Threads |-> IF t \in S THEN "done" ELSE phase[t]]
      /\ IF ActiveIdx(b, w) = {} THEN UNCHANGED <<output_a, output_b>>
         ELSE /\ output_a' = output_a \cup ActiveIdx(b, w)
              /\ output_b' = [k \in BElements |-> Plus(output_b[k], WarpSums(b, w)[k])]
      /\ UNCHANGED <<call, stride, reg, s_offset, s_grad, work, todo, outB_accum>>
  BY DEF WarpReduce
<1>2. Types /\ call \in Launches /\ BlockThreads \in 1 .. MaxBlock /\ MaxBlock \in Nat
  BY CallFacts DEF Inv, Types
<1>3. S \subseteq Threads
  BY <1>2 DEF Lanes, Tids, Threads
<1>4. S \subseteq Working /\ "warp" \in PhasesOf(DecidePath)
  BY <1>1, <1>3, Launched
<1>5. DecidePath = "Warp" /\ "done" \in PhasesOf(DecidePath)
  BY <1>4, Paths DEF PhasesOf
<1>6. OnPath' /\ phase' \in [Threads -> {"store", "warp", "load", "tree", "merge", "zero",
                                         "count", "flush", "done"}]
  BY <1>1, <1>3, <1>4, <1>5, PhasesKept
<1>7. Placed
  BY <1>5 DEF Inv
<1>8. ActiveIdx(b, w) = IndicesOf(S)
  BY DEF ActiveIdx, IndicesOf
<1>9. \A k \in BElements : WarpSums(b, w)[k] = For(k, IndicesOf(S))
  BY <1>8 DEF WarpSums, WarpUniform, For
<1>10. IndicesOf(S) \subseteq Indices /\ IndicesOf(S) \cap output_a = {}
  <2>1. \A t \in S : t \in Working /\ phase[t] # "done"
    BY <1>1, <1>4
  <2>2. output_a = IndicesOf({u \in Working : phase[u] = "done"})
    BY <1>7 DEF Placed
  <2> QED
    BY <1>2, <2>1, <2>2, GlobalIdxFacts DEF IndicesOf
<1> HIDE DEF S
<1>11. ASSUME NEW k \in BElements
       PROVE  output_b'[k] = output_b[k] \cup For(k, IndicesOf(S))
  <2>1. CASE ActiveIdx(b, w) = {}
    BY <1>1, <1>8, <2>1 DEF For
  <2>2. CASE ActiveIdx(b, w) # {}
    <3>1. output_b'[k] = Plus(output_b[k], For(k, IndicesOf(S)))
      BY <1>1, <1>9, <2>2
    <3>2. output_b[k] \cap For(k, IndicesOf(S)) = {}
      BY <1>7, <1>10 DEF Placed, For
    <3> QED
      BY <3>1, <3>2 DEF Plus
  <2> QED
    BY <2>1, <2>2
<1>12. output_a' = output_a \cup IndicesOf(S)
  BY <1>1, <1>8
<1>13. \A u \in Working : phase'[u] = "done" <=> phase[u] = "done" \/ u \in S
  BY <1>1, <1>2, ThreadFacts
<1>14. Placed'
  BY <1>1, <1>2, <1>4, <1>7, <1>11, <1>12, <1>13, PlacedMore
<1>15. Types'
  <2>1. DOMAIN output_b' = BElements /\ output_b' = [k \in BElements |-> output_b'[k]]
    BY <1>1, <1>2 DEF Types
  <2>2. \A k \in BElements : output_b'[k] \subseteq Indices \cup {Twice}
    BY <1>2, <1>10, <1>11 DEF For, Types
  <2>3. output_b' \in [BElements -> SUBSET (Indices \cup {Twice})] /\ output_a' \subseteq Indices
    BY <1>2, <1>10, <1>12, <2>1, <2>2 DEF Types
  <2> QED
    BY <1>1, <1>2, <1>6, <2>3, CallStays DEF Types
<1> QED
  BY <1>1, <1>5, <1>6, <1>14, <1>15, CallStays DEF Inv

-----------------------------------------------------------------------------
(* The tree.                                                                 *)

(* The slots of the threads of a block are apart.                            *)
LEMMA SlotFacts ==
    ASSUME call \in Launches
    PROVE  /\ \A t \in Working : Slot(t) \in Slots /\ t[1] \in Blocks
           /\ \A t, u \in Working : t[1] = u[1] /\ Slot(t) = Slot(u) => t = u
           /\ \A t \in Working : \A u : u \in BlockOf(t) <=> u \in Working /\ u[1] = t[1]
<1>1. /\ BlockThreads \in 1 .. MaxBlock /\ MaxBlock \in Nat /\ HistLimit \in Nat
  BY CallFacts, SizesAssumption
<1>2. ASSUME NEW t \in Working PROVE Slot(t) \in Slots /\ t[1] \in Blocks
  <2>1. t[2] \in 0 .. BlockThreads - 1 /\ t[1] \in Blocks
    BY ThreadFacts DEF Tids
  <2>2. t[2] \in Nat /\ t[2] < BlockThreads
    BY <1>1, <2>1
  <2>3. Padded(t[2]) \in Nat /\ Padded(t[2]) < Room(BlockThreads)
    BY <1>1, <2>2, PaddedOrdered
  <2> DEFINE most == IF MaxBlock < HistLimit THEN HistLimit ELSE MaxBlock
  <2>4. BlockThreads <= most /\ most \in Nat
    BY <1>1
  <2> HIDE DEF most
  <2>5. Room(BlockThreads) <= Room(most) /\ Room(BlockThreads) \in Nat /\ Room(most) \in Nat
    BY <1>1, <2>4, RoomOrdered
  <2>6. Padded(t[2]) \in 0 .. Room(most) - 1
    BY <2>3, <2>5
  <2> QED
    BY <2>1, <2>6 DEF Slot, Slots, most
<1>3. ASSUME NEW t \in Working, NEW u \in Working, t[1] = u[1], Slot(t) = Slot(u) PROVE t = u
  <2>1. t[2] \in Nat /\ u[2] \in Nat /\ t = <<t[1], t[2]>> /\ u = <<u[1], u[2]>>
    BY ThreadFacts
  <2>2. t[2] = u[2]
    BY <1>3, <2>1, PaddedApart DEF Slot
  <2> QED
    BY <1>3, <2>1, <2>2
<1>4. ASSUME NEW t \in Working, NEW u
      PROVE  u \in BlockOf(t) <=> u \in Working /\ u[1] = t[1]
  <2>1. t[1] \in 0 .. Grid - 1
    BY ThreadFacts
  <2> QED
    BY <2>1 DEF BlockOf, Working
<1> QED
  BY <1>2, <1>3, <1>4

(* A thread that merges has a partner in its block that does not merge at    *)
(* the same stride, and is nobody else's.                                    *)
LEMMA PartnerFacts ==
    ASSUME call \in Launches, NEW t \in Working, stride[t] \in Nat, stride[t] >= 1, Merges(t)
    PROVE  /\ Partner(t) \in Working /\ Partner(t) # t /\ Partner(t)[1] = t[1]
           /\ \A u \in Working : u[1] = t[1] /\ stride[u] = stride[t] /\ Merges(u) /\ u # t =>
                /\ Partner(t) # u /\ Partner(u) # t /\ Partner(u) # Partner(t)
<1> DEFINE s == stride[t]
<1>1. /\ t[1] \in 0 .. Grid - 1 /\ t[2] \in Nat /\ t = <<t[1], t[2]>>
      /\ BlockThreads \in Nat /\ s \in Nat /\ s >= 1
  BY ThreadFacts, CallFacts
<1>2. t[2] + s \in Tids
  BY <1>1 DEF Merges, Tids
<1>3. Partner(t) \in Working /\ Partner(t) # t /\ Partner(t)[1] = t[1]
  <2>1. Partner(t) = <<t[1], t[2] + s>>
    BY DEF Partner
  <2>2. t[2] + s # t[2]
    BY <1>1
  <2>3. <<t[1], t[2] + s>> # <<t[1], t[2]>>
    BY <2>2
  <2> QED
    BY <1>1, <1>2, <2>1, <2>3, ThreadFacts
<1>4. ASSUME NEW x \in Nat, NEW y \in Nat, x % (2 * s) = 0, y % (2 * s) = 0
      PROVE  x + s # y
  <2>1. 2 * s \in Nat \ {0}
    BY <1>1
  <2>2. x = (2 * s) * (x \div (2 * s)) /\ x \div (2 * s) \in Nat
    <3>1. x = (2 * s) * (x \div (2 * s)) + (x % (2 * s)) /\ x \div (2 * s) \in Nat
      BY <2>1, Division
    <3> QED
      BY <1>4, <2>1, <3>1
  <2>3. y = (2 * s) * (y \div (2 * s)) /\ y \div (2 * s) \in Nat
    <3>1. y = (2 * s) * (y \div (2 * s)) + (y % (2 * s)) /\ y \div (2 * s) \in Nat
      BY <2>1, Division
    <3> QED
      BY <1>4, <2>1, <3>1
  <2>4. PICK a \in Nat : x = (2 * s) * a
    BY <2>2
  <2>5. PICK c \in Nat : y = (2 * s) * c
    BY <2>3
  <2>6. a * (2 * s) + 0 = x /\ c * (2 * s) + 0 = y /\ a * (2 * s) + s = x + s
    BY <1>1, <2>4, <2>5
  <2>7. 0 \in 0 .. (2 * s) - 1 /\ s \in 0 .. (2 * s) - 1 /\ s # 0 /\ 2 * s \in Nat
    BY <1>1
  <2>8. SUFFICES ASSUME a * (2 * s) + s = c * (2 * s) + 0 PROVE FALSE
    BY <2>6
  <2>9. s = 0
    <3>1. PICK d \in Nat : d = 2 * s
      BY <2>7
    <3>2. a * d + s = c * d /\ s \in 0 .. d - 1 /\ a * d \in Nat /\ c * d \in Nat
      BY <2>7, <2>8, <3>1
    <3>3. CASE a < c
      <4>1. a * d + d <= c * d
        BY <3>1, <3>3, TimesOrdered
      <4> QED
        BY <3>1, <3>2, <4>1
    <3>4. CASE c < a
      <4>1. c * d + d <= a * d
        BY <3>1, <3>4, TimesOrdered
      <4> QED
        BY <3>1, <3>2, <4>1
    <3>5. CASE a = c
      BY <3>2, <3>5
    <3> QED
      BY <3>3, <3>4, <3>5
  <2> QED
    BY <2>7, <2>9
<1>5. ASSUME NEW u \in Working, u[1] = t[1], stride[u] = stride[t], Merges(u), u # t
      PROVE  Partner(t) # u /\ Partner(u) # t /\ Partner(u) # Partner(t)
  <2>1. u[2] \in Nat /\ u = <<u[1], u[2]>> /\ u[2] # t[2]
    BY <1>1, <1>5, ThreadFacts
  <2>2. t[2] % (2 * s) = 0 /\ u[2] % (2 * s) = 0
    BY <1>5 DEF Merges
  <2>3. t[2] + s # u[2] /\ u[2] + s # t[2] /\ u[2] + s # t[2] + s
    BY <1>1, <1>4, <2>1, <2>2
  <2>4. Partner(t) = <<t[1], t[2] + s>> /\ Partner(u) = <<u[1], u[2] + s>>
    BY <1>5 DEF Partner
  <2>5. Partner(t)[2] = t[2] + s /\ Partner(u)[2] = u[2] + s
    BY <2>4
  <2> QED
    BY <2>3, <2>5
<1> QED
  BY <1>3, <1>5

(* Whoever may pass a barrier knows that no thread of its block has still to *)
(* load.                                                                     *)
LEMMA Arrived ==
    ASSUME Types, OnPath, DecidePath = "BlockReduce", TreeSteps, NEW t \in Working, Synced(t),
           phase[t] \in {"tree", "merge"}, NEW u \in BlockOf(t)
    PROVE  phase[u] = "done" \/ (phase[u] \in {"tree", "merge"} /\ stride[u] >= stride[t])
<1>1. u \in Working
  BY SlotFacts DEF Types
<1>2. stride[t] >= 1 /\ stride[u] >= stride[t] /\ stride[t] \in Nat /\ stride[u] \in Nat
  BY <1>1, ThreadFacts DEF Types, TreeSteps, Synced
<1>3. phase[u] # "load"
  <2>1. phase[u] = "load" => stride[u] = 0
    BY <1>1 DEF TreeSteps
  <2> QED
    BY <1>2, <2>1
<1>4. phase[u] \in {"load", "tree", "merge", "done"}
  BY <1>1 DEF OnPath, PhasesOf
<1> QED
  BY <1>2, <1>3, <1>4

(* A step of one thread leaves the others where they are with regard to it.  *)
LEMMA TreeStepsKept ==
    ASSUME Types, TreeSteps, UNCHANGED call, NEW t \in Working,
           stride' \in [Threads -> Nat], phase'[t] \in {"tree", "merge", "done"},
           \A u \in BlockOf(t) : phase[u] = "merge" =>
             phase'[t] # "done" /\ stride'[t] >= stride[t],
           \A u \in Working \ {t} :
             /\ phase'[u] = phase[u] /\ stride'[u] = stride[u] /\ reg'[u] = reg[u]
             /\ phase[u] = "merge" =>
                  /\ s_offset'[u[1]][Slot(u)] = Offset(u) /\ s_grad'[u[1]][Slot(u)] = Gradient(u)
                  /\ s_offset'[u[1]][Slot(Partner(u))] = Offset(Partner(u))
                  /\ s_grad'[u[1]][Slot(Partner(u))] = Gradient(Partner(u))
             /\ phase[u] = "done" /\ t \in BlockOf(u) =>
                  phase'[t] = "done" \/ (phase'[t] = "tree" /\ stride'[t] >= BlockThreads),
           phase'[t] \in {"tree", "merge"} => stride'[t] >= 1,
           phase'[t] = "merge" =>
             /\ stride'[t] < BlockThreads /\ Merges(t)'
             /\ \A u \in BlockOf(t) : phase'[u] \in {"tree", "merge"} /\ stride'[u] >= stride'[t]
             /\ reg'[t] = [o1 |-> Offset(t), o2 |-> Offset(Partner(t)),
                           g1 |-> Gradient(t), g2 |-> Gradient(Partner(t))]'
    PROVE  (\A u \in BlockOf(t) \ {t} : phase'[t] = "done" =>
              phase[u] = "done" \/ (phase[u] = "tree" /\ stride[u] >= BlockThreads)) => TreeSteps'
<1> SUFFICES ASSUME \A u \in BlockOf(t) \ {t} : phase'[t] = "done" =>
                       phase[u] = "done" \/ (phase[u] = "tree" /\ stride[u] >= BlockThreads)
             PROVE  TreeSteps'
  OBVIOUS
<1>1. /\ call \in Launches /\ Working \subseteq Threads /\ stride \in [Threads -> Nat]
      /\ \A u, v : u \in Working => (v \in BlockOf(u) <=> v \in Working /\ v[1] = u[1])
  BY ThreadFacts, SlotFacts DEF Types
<1>2. ASSUME NEW u \in Working, u # t, phase'[u] = "merge"
      PROVE  /\ stride'[u] < BlockThreads /\ Merges(u)'
             /\ \A v \in BlockOf(u) : phase'[v] \in {"tree", "merge"} /\ stride'[v] >= stride'[u]
             /\ reg'[u] = [o1 |-> Offset(u), o2 |-> Offset(Partner(u)),
                           g1 |-> Gradient(u), g2 |-> Gradient(Partner(u))]'
  <2>1. phase[u] = "merge" /\ stride'[u] = stride[u] /\ reg'[u] = reg[u]
    BY <1>2
  <2>2. /\ stride[u] < BlockThreads /\ Merges(u)
        /\ \A v \in BlockOf(u) : phase[v] \in {"tree", "merge"} /\ stride[v] >= stride[u]
        /\ reg[u] = [o1 |-> Offset(u), o2 |-> Offset(Partner(u)),
                     g1 |-> Gradient(u), g2 |-> Gradient(Partner(u))]
    BY <2>1 DEF TreeSteps
  <2>3. Partner(u)' = Partner(u) /\ (Merges(u)' <=> Merges(u))
    BY <2>1, CallStays DEF Partner, Merges
  <2>4. ASSUME NEW v \in BlockOf(u)
        PROVE  phase'[v] \in {"tree", "merge"} /\ stride'[v] >= stride'[u]
    <3>1. v \in Working /\ v[1] = u[1]
      BY <1>1
    <3>2. CASE v # t
      BY <2>1, <2>2, <3>1, <3>2
    <3>3. CASE v = t
      <4>1. phase'[t] # "done" /\ stride'[t] >= stride[t]
        BY <1>1, <2>1, <3>1, <3>3
      <4>2. stride[t] >= stride[u] /\ stride[t] \in Nat /\ stride'[t] \in Nat /\ stride[u] \in Nat
        BY <1>1, <2>2, <3>3
      <4> QED
        BY <2>1, <3>3, <4>1, <4>2
    <3> QED
      BY <3>2, <3>3
  <2>5. /\ Offset(u)' = Offset(u) /\ Gradient(u)' = Gradient(u)
        /\ Offset(Partner(u))' = Offset(Partner(u)) /\ Gradient(Partner(u))' = Gradient(Partner(u))
    <3>1. Partner(u)[1] = u[1]
      BY DEF Partner
    <3> QED
      BY <1>2, <2>1, <2>3, <3>1 DEF Offset, Gradient, Slot, Padded
  <2> QED
    BY <2>1, <2>2, <2>3, <2>4, <2>5, CallStays
<1>3. ASSUME NEW u \in Working, phase'[u] = "done", NEW v \in BlockOf(u)
      PROVE  phase'[v] = "done" \/ (phase'[v] = "tree" /\ stride'[v] >= BlockThreads)
  <2>1. v \in Working /\ v[1] = u[1] /\ (t = v => t \in BlockOf(u))
        /\ (u = t => v \in BlockOf(t))
    BY <1>1
  <2>2. CASE u # t /\ v # t
    <3>1. phase[u] = "done" /\ phase'[v] = phase[v] /\ stride'[v] = stride[v]
      BY <1>3, <2>1, <2>2
    <3>2. phase[v] = "done" \/ (phase[v] = "tree" /\ stride[v] >= BlockThreads)
      BY <3>1 DEF TreeSteps
    <3> QED
      BY <3>1, <3>2
  <2>3. CASE u # t /\ v = t
    BY <1>3, <2>1, <2>3
  <2>4. CASE u = t /\ v # t
    BY <1>3, <2>1, <2>4
  <2>5. CASE u = t /\ v = t
    BY <1>3, <2>5
  <2> QED
    BY <2>2, <2>3, <2>4, <2>5
<1>4. \A u \in Working : /\ phase'[u] \in {"tree", "merge"} => stride'[u] >= 1
                         /\ phase'[u] = "load" => stride'[u] = 0
  BY DEF TreeSteps
<1>5. \A u \in Working : phase'[u] = "merge" =>
        /\ stride'[u] < BlockThreads /\ Merges(u)'
        /\ \A v \in BlockOf(u) : phase'[v] \in {"tree", "merge"} /\ stride'[v] >= stride'[u]
        /\ reg'[u] = [o1 |-> Offset(u), o2 |-> Offset(Partner(u)),
                      g1 |-> Gradient(u), g2 |-> Gradient(Partner(u))]'
  BY <1>2
<1>6. \A u \in Working : phase'[u] = "done" =>
        \A v \in BlockOf(u) : phase'[v] = "done" \/ (phase'[v] = "tree" /\ stride'[v] >= BlockThreads)
  BY <1>3
<1>7. BlockThreads' = BlockThreads /\ Working' = Working /\ \A u : BlockOf(u)' = BlockOf(u)
  BY CallStays
<1>8. \A u \in Working : phase'[u] = "load" => stride'[u] = 0
  BY <1>4
<1>9. \A u \in Working : phase'[u] \in {"tree", "merge"} => stride'[u] >= 1
  BY <1>4
<1>10. ASSUME NEW u \in Working'
       PROVE  /\ phase'[u] = "load" => stride'[u] = 0
              /\ phase'[u] \in {"tree", "merge"} => stride'[u] >= 1
              /\ phase'[u] = "merge" =>
                   /\ stride'[u] < BlockThreads' /\ Merges(u)'
                   /\ \A v \in BlockOf(u)' : phase'[v] \in {"tree", "merge"} /\ stride'[v] >= stride'[u]
                   /\ reg'[u] = [o1 |-> Offset(u), o2 |-> Offset(Partner(u)),
                                 g1 |-> Gradient(u), g2 |-> Gradient(Partner(u))]'
              /\ phase'[u] = "done" =>
                   \A v \in BlockOf(u)' : \/ phase'[v] = "done"
                                          \/ phase'[v] = "tree" /\ stride'[v] >= BlockThreads'
  BY <1>5, <1>6, <1>7, <1>8, <1>9
<1> QED
  BY <1>10 DEF TreeSteps

(* The slots stay, and the threads that have one to add.                     *)
LEMMA TreeSumsKept ==
    ASSUME TreeSums, UNCHANGED <<call, s_offset, s_grad, output_a, output_b>>,
           Live' = Live, Loaded' = Loaded
    PROVE  TreeSums'
<1>1. /\ \A t : Offset(t)' = Offset(t) /\ Gradient(t)' = Gradient(t)
      /\ IndicesOf(Loaded)' = IndicesOf(Loaded)
  BY CallStays DEF Offset, Gradient, Slot, Padded
<1> QED
  BY <1>1, CallStays DEF TreeSums

LEMMA TreeKeeps ==
    ASSUME Inv, DecidePath = "BlockReduce", UNCHANGED call, OnPath', Types', TreeSteps', TreeSums'
    PROVE  Inv'
BY CallStays DEF Inv, Tree

LEMMA LiveWorks ==
    ASSUME Inv
    PROVE  Live = {t \in Working : phase[t] \in {"tree", "merge"} /\ Offset(t) # -1}
BY ThreadFacts DEF Inv, Types, OnPath, Live, Offset

LEMMA LiveWorksNext ==
    ASSUME Types', OnPath', UNCHANGED call
    PROVE  Live' = {t \in Working : phase'[t] \in {"tree", "merge"} /\ s_offset'[t[1]][Slot(t)] # -1}
<1>1. call \in Launches
  BY DEF Types
<1> QED
  BY <1>1, ThreadFacts, CallStays DEF Types, OnPath, Live, Slot, Padded

LEMMA SkipKeeps ==
    ASSUME Inv, NEW t \in Threads, Skip(t)
    PROVE  Inv'
<1>1. /\ phase[t] = "tree" /\ stride[t] < BlockThreads /\ stride' = [stride EXCEPT ![t] = 2 * @]
      /\ UNCHANGED <<call, phase, reg, s_offset, s_grad, work, todo, outB_accum,
                     output_a, output_b>>
  BY DEF Skip, InLoop
<1>2. Types /\ t \in Working /\ "tree" \in PhasesOf(DecidePath) /\ call \in Launches
  BY <1>1, Launched DEF Inv, Types
<1>3. DecidePath = "BlockReduce"
  BY <1>2, Paths DEF PhasesOf
<1>4. TreeSteps /\ TreeSums
  BY <1>3 DEF Inv, Tree
<1>5. stride[t] \in Nat /\ stride[t] >= 1 /\ stride' \in [Threads -> Nat]
      /\ stride'[t] = 2 * stride[t] /\ stride'[t] >= stride[t] /\ stride'[t] >= 1
  <2>1. stride[t] \in Nat /\ stride[t] >= 1 /\ t \in Threads
    BY <1>1, <1>2, <1>4 DEF TreeSteps, Types
  <2>2. 2 * stride[t] \in Nat /\ 2 * stride[t] >= stride[t] /\ 2 * stride[t] >= 1
    BY <2>1
  <2> QED
    BY <1>1, <1>2, <2>1, <2>2 DEF Types
<1>6. Types' /\ OnPath'
  BY <1>1, <1>2, <1>5, CallStays DEF Inv, Types, OnPath, PhasesOf
<1>7. TreeSteps'
  <2>1. \A u \in Working \ {t} : stride'[u] = stride[u]
    BY <1>1, <1>2, ThreadFacts DEF Types
  <2>2. \A u \in Working : phase[u] = "done" /\ t \in BlockOf(u) => stride[t] >= BlockThreads
    BY <1>1, <1>4 DEF TreeSteps
  <2>3. BlockThreads \in Nat
    BY <1>2, CallFacts
  <2>4. \A u \in Working : phase[u] = "done" => t \notin BlockOf(u)
    BY <1>1, <1>5, <2>2, <2>3
  <2> QED
    BY <1>1, <1>2, <1>4, <1>5, <2>1, <2>4, TreeStepsKept DEF Offset, Gradient, Slot, Padded, Partner
<1>8. TreeSums'
  <2>1. Live' = Live
    BY <1>1, <1>2, <1>6, LiveWorks, LiveWorksNext DEF Offset
  <2>2. Loaded' = Loaded
    BY <1>1, CallStays DEF Loaded
  <2> QED
    BY <1>1, <1>4, <2>1, <2>2, TreeSumsKept
<1> QED
  BY <1>1, <1>3, <1>6, <1>7, <1>8, TreeKeeps

LEMMA ReadKeeps ==
    ASSUME Inv, NEW t \in Threads, Read(t)
    PROVE  Inv'
<1>1. /\ phase[t] = "tree" /\ stride[t] < BlockThreads /\ Synced(t) /\ Merges(t)
      /\ phase' = [phase EXCEPT ![t] = "merge"]
      /\ reg' = [reg EXCEPT ![t] = [o1 |-> Offset(t), o2 |-> Offset(Partner(t)),
                                    g1 |-> Gradient(t), g2 |-> Gradient(Partner(t))]]
      /\ UNCHANGED <<call, stride, s_offset, s_grad, work, todo, outB_accum,
                     output_a, output_b>>
  <2>1. Partner(t)[1] = t[1]
    BY DEF Partner
  <2> QED
    BY <2>1 DEF Read, InLoop, Offset, Gradient
<1>2. Types /\ t \in Working /\ "tree" \in PhasesOf(DecidePath) /\ call \in Launches
  BY <1>1, Launched DEF Inv, Types
<1>3. DecidePath = "BlockReduce" /\ "merge" \in PhasesOf(DecidePath)
  BY <1>2, Paths DEF PhasesOf
<1>4. TreeSteps /\ TreeSums
  BY <1>3 DEF Inv, Tree
<1>5. OnPath' /\ phase' \in [Threads -> {"store", "warp", "load", "tree", "merge", "zero",
                                         "count", "flush", "done"}]
  BY <1>1, <1>2, <1>3, PhaseKept
<1>6. Types'
  BY <1>1, <1>2, <1>5, CallStays DEF Types
<1>7. /\ phase'[t] = "merge" /\ stride[t] \in Nat /\ stride[t] >= 1 /\ BlockThreads \in Nat
      /\ \A u \in Working \ {t} : phase'[u] = phase[u] /\ reg'[u] = reg[u]
      /\ reg'[t] = [o1 |-> Offset(t), o2 |-> Offset(Partner(t)),
                    g1 |-> Gradient(t), g2 |-> Gradient(Partner(t))]
  BY <1>1, <1>2, <1>4, CallFacts, ThreadFacts DEF Types, TreeSteps
<1>8. ASSUME NEW u \in Working, phase[u] = "done" PROVE t \notin BlockOf(u)
  <2>1. t \in BlockOf(u) => stride[t] >= BlockThreads
    BY <1>1, <1>4, <1>8 DEF TreeSteps
  <2> QED
    BY <1>1, <1>7, <2>1
<1>9. TreeSteps'
  <2>1. /\ Offset(t)' = Offset(t) /\ Gradient(t)' = Gradient(t) /\ Partner(t)' = Partner(t)
        /\ Offset(Partner(t))' = Offset(Partner(t)) /\ Gradient(Partner(t))' = Gradient(Partner(t))
        /\ (Merges(t)' <=> Merges(t))
    BY <1>1, CallStays DEF Offset, Gradient, Slot, Padded, Partner, Merges
  <2>2. \A u \in BlockOf(t) : phase'[u] \in {"tree", "merge"} /\ stride'[u] >= stride'[t]
    <3>1. ASSUME NEW u \in BlockOf(t)
          PROVE  phase[u] \in {"tree", "merge"} /\ stride[u] >= stride[t] /\ u \in Working
      <4>1. u \in Working /\ t \in BlockOf(u)
        BY <1>2, SlotFacts
      <4> QED
        BY <1>1, <1>2, <1>3, <1>4, <1>8, <4>1, Arrived DEF Inv
    <3> QED
      BY <1>1, <1>7, <3>1
  <2>3. ASSUME NEW u \in Working \ {t}, phase[u] = "merge"
        PROVE  /\ s_offset'[u[1]][Slot(u)] = Offset(u) /\ s_grad'[u[1]][Slot(u)] = Gradient(u)
               /\ s_offset'[u[1]][Slot(Partner(u))] = Offset(Partner(u))
               /\ s_grad'[u[1]][Slot(Partner(u))] = Gradient(Partner(u))
    BY <1>1 DEF Offset, Gradient, Partner
  <2>4. stride' \in [Threads -> Nat]
    BY <1>1, <1>2 DEF Types
  <2>5. \A u \in Working \ {t} : stride'[u] = stride[u]
    BY <1>1
  <2>6. stride'[t] >= stride[t] /\ stride'[t] >= 1 /\ stride'[t] < BlockThreads /\ Merges(t)'
    BY <1>1, <1>7, <2>1
  <2>7. reg'[t] = [o1 |-> Offset(t), o2 |-> Offset(Partner(t)),
                   g1 |-> Gradient(t), g2 |-> Gradient(Partner(t))]'
    BY <1>7, <2>1
  <2> QED
    BY <1>1, <1>2, <1>4, <1>7, <1>8, <2>2, <2>3, <2>4, <2>5, <2>6, <2>7, TreeStepsKept
<1>10. TreeSums'
  <2>1. \A u \in Working : /\ phase'[u] \in {"tree", "merge"} <=> phase[u] \in {"tree", "merge"}
                           /\ phase'[u] = "load" <=> phase[u] = "load"
    BY <1>1, <1>7
  <2>2. Live' = Live
    <3>1. Live = {u \in Working : phase[u] \in {"tree", "merge"} /\ Offset(u) # -1}
      BY LiveWorks
    <3>2. Live' = {u \in Working : phase'[u] \in {"tree", "merge"} /\ Offset(u) # -1}
      BY <1>1, <1>5, <1>6, LiveWorksNext DEF Offset
    <3> QED
      BY <2>1, <3>1, <3>2
  <2>3. Loaded' = Loaded
    BY <1>1, <2>1, CallStays DEF Loaded
  <2> QED
    BY <1>1, <1>4, <2>2, <2>3, TreeSumsKept
<1> QED
  BY <1>1, <1>3, <1>5, <1>6, <1>9, <1>10, TreeKeeps

(* A thread loads what no other is for.                                      *)
LEMMA LoadKeeps ==
    ASSUME Inv, NEW t \in Threads, Load(t)
    PROVE  Inv'
<1> DEFINE g == GlobalIdx(t)
<1>1. /\ phase[t] = "load" /\ phase' = [phase EXCEPT ![t] = "tree"]
      /\ stride' = [stride EXCEPT ![t] = 1]
      /\ s_offset' = [s_offset EXCEPT ![t[1]][Slot(t)] = IF InBounds(t) THEN BOffset(g) ELSE -1]
      /\ s_grad' = [s_grad EXCEPT ![t[1]][Slot(t)] = IF InBounds(t) THEN {g} ELSE {}]
      /\ output_a' = IF InBounds(t) THEN output_a \cup {g} ELSE output_a
      /\ UNCHANGED <<call, reg, work, todo, outB_accum, output_b>>
  BY DEF Load
<1>2. Types /\ t \in Working /\ "load" \in PhasesOf(DecidePath) /\ call \in Launches
  BY <1>1, Launched DEF Inv, Types
<1>3. DecidePath = "BlockReduce" /\ "tree" \in PhasesOf(DecidePath)
  BY <1>2, Paths DEF PhasesOf
<1>4. TreeSteps /\ TreeSums
  BY <1>3 DEF Inv, Tree
<1>5. OnPath' /\ phase' \in [Threads -> {"store", "warp", "load", "tree", "merge", "zero",
                                         "count", "flush", "done"}]
  BY <1>1, <1>2, <1>3, PhaseKept
<1>6. InBounds(t) => g \in Indices /\ BOffset(g) \in BElements
  BY <1>2, GlobalIdxFacts, CallFacts
<1> HIDE DEF g
<1>7. Types'
  <2>1. stride' \in [Threads -> Nat]
    BY <1>1, <1>2 DEF Types
  <2>2. s_offset' \in [Blocks -> [Slots -> BElements \cup {-1}]]
    BY <1>1, <1>2, <1>6 DEF Types
  <2>3. s_grad' \in [Blocks -> [Slots -> SUBSET (Indices \cup {Twice})]]
    BY <1>1, <1>2, <1>6 DEF Types
  <2>4. output_a' \subseteq Indices
    BY <1>1, <1>2, <1>6 DEF Types
  <2> QED
    BY <1>1, <1>2, <1>5, <2>1, <2>2, <2>3, <2>4, CallStays DEF Types
<1>8. ASSUME NEW u \in Working
      PROVE  /\ u # t => /\ phase'[u] = phase[u] /\ stride'[u] = stride[u]
                         /\ s_offset'[u[1]][Slot(u)] = Offset(u)
                         /\ s_grad'[u[1]][Slot(u)] = Gradient(u)
             /\ u = t => /\ phase'[u] = "tree" /\ stride'[u] = 1
                         /\ s_offset'[u[1]][Slot(u)] = IF InBounds(t) THEN BOffset(g) ELSE -1
                         /\ s_grad'[u[1]][Slot(u)] = IF InBounds(t) THEN {g} ELSE {}
  <2>1. u[1] \in Blocks /\ Slot(u) \in Slots /\ t[1] \in Blocks /\ Slot(t) \in Slots
        /\ u \in Threads /\ (u # t => u[1] # t[1] \/ Slot(u) # Slot(t))
    BY <1>2, SlotFacts, ThreadFacts
  <2>2. DOMAIN s_offset = Blocks /\ DOMAIN s_grad = Blocks
        /\ \A b \in Blocks : DOMAIN s_offset[b] = Slots /\ DOMAIN s_grad[b] = Slots
    BY <1>2 DEF Types
  <2>3. DOMAIN phase = Threads /\ DOMAIN stride = Threads
    BY <1>2 DEF Types
  <2>4. CASE u = t
    BY <1>1, <2>1, <2>2, <2>3, <2>4
  <2>5. CASE u # t
    <3>1. s_offset'[u[1]][Slot(u)] = s_offset[u[1]][Slot(u)]
      BY <1>1, <2>1, <2>2, <2>5
    <3>2. s_grad'[u[1]][Slot(u)] = s_grad[u[1]][Slot(u)]
      BY <1>1, <2>1, <2>2, <2>5
    <3> QED
      BY <1>1, <2>1, <2>3, <2>5, <3>1, <3>2 DEF Offset, Gradient
  <2> QED
    BY <2>4, <2>5
<1>9. TreeSteps'
  <2>1. \A u \in Working : t \in BlockOf(u) => phase[u] # "merge" /\ phase[u] # "done"
    BY <1>1, <1>4 DEF TreeSteps
  <2>2. ASSUME NEW u \in Working \ {t}, phase[u] = "merge"
        PROVE  /\ s_offset'[u[1]][Slot(u)] = Offset(u) /\ s_grad'[u[1]][Slot(u)] = Gradient(u)
               /\ s_offset'[u[1]][Slot(Partner(u))] = Offset(Partner(u))
               /\ s_grad'[u[1]][Slot(Partner(u))] = Gradient(Partner(u))
    <3>1. u[1] # t[1] /\ Partner(u)[1] = u[1]
      BY <1>2, <2>1, <2>2, SlotFacts DEF Partner
    <3>2. s_offset'[u[1]] = s_offset[u[1]] /\ s_grad'[u[1]] = s_grad[u[1]]
      <4>1. u[1] \in Blocks /\ DOMAIN s_offset = Blocks /\ DOMAIN s_grad = Blocks
        BY <1>2, SlotFacts DEF Types
      <4> QED
        BY <1>1, <3>1, <4>1
    <3> QED
      BY <3>1, <3>2 DEF Offset, Gradient
  <2>3. ASSUME NEW u \in Working \ {t}
        PROVE  /\ phase'[u] = phase[u] /\ stride'[u] = stride[u] /\ reg'[u] = reg[u]
               /\ ~(phase[u] = "done" /\ t \in BlockOf(u))
    BY <1>1, <1>8, <2>1
  <2>4. phase'[t] = "tree" /\ stride'[t] = 1
    BY <1>2, <1>8
  <2>5. stride' \in [Threads -> Nat]
    BY <1>7, CallStays DEF Types
  <2>6. \A u \in BlockOf(t) : phase[u] # "merge"
    BY <1>2, <2>1, SlotFacts
  <2>7. phase'[t] \in {"tree", "merge", "done"} /\ stride'[t] >= 1
        /\ phase'[t] # "merge" /\ phase'[t] # "done"
    BY <2>4
  <2>8. TreeSteps /\ Types /\ UNCHANGED call
    BY <1>1, <1>2, <1>4
  <2> QED
    BY <1>2, <2>2, <2>3, <2>5, <2>6, <2>7, <2>8, TreeStepsKept
<1>10. TreeSums'
  <2>1. /\ Live = {u \in Working : phase[u] \in {"tree", "merge"} /\ Offset(u) # -1}
        /\ Live' = {u \in Working : phase'[u] \in {"tree", "merge"}
                                    /\ s_offset'[u[1]][Slot(u)] # -1}
    BY <1>1, <1>5, <1>7, LiveWorks, LiveWorksNext
  <2>2. Loaded' = Loaded \cup {t} /\ t \notin Loaded
    BY <1>1, <1>2, <1>8, CallStays DEF Loaded
  <2>3. t \notin Live /\ Live' = IF InBounds(t) THEN Live \cup {t} ELSE Live
    <3>1. InBounds(t) => BOffset(g) # -1
      BY <1>6 DEF BElements
    <3> QED
      BY <1>1, <1>2, <1>8, <2>1, <3>1
  <2>4. output_a' = IndicesOf(Loaded') /\ (InBounds(t) => g \notin output_a)
    <3>1. output_a = IndicesOf(Loaded) /\ Loaded \subseteq Working
      BY <1>4 DEF TreeSums, Loaded
    <3>2. InBounds(t) => g \notin output_a
      BY <1>2, <2>2, <3>1, GlobalIdxFacts DEF IndicesOf, g
    <3>3. IndicesOf(Loaded \cup {t}) = IndicesOf(Loaded) \cup (IF InBounds(t) THEN {g} ELSE {})
      BY DEF IndicesOf, g
    <3> QED
      BY <1>1, <2>2, <3>1, <3>2, <3>3
  <2> DEFINE O(u) == s_offset'[u[1]][Slot(u)]
             G(u) == s_grad'[u[1]][Slot(u)]
  <2>5. \A u \in Working \ {t} : O(u) = Offset(u) /\ G(u) = Gradient(u)
    BY <1>8
  <2>6. /\ InBounds(t) => O(t) = BOffset(g) /\ G(t) = {g}
        /\ ~InBounds(t) => O(t) = -1
    BY <1>2, <1>8
  <2> HIDE DEF O, G
  <2>7. Live \subseteq Working \ {t} /\ Loaded \subseteq Working \ {t}
    BY <2>1, <2>2, <2>3 DEF Loaded
  <2>8. \A u \in Loaded' : O(u) # -1 => InBounds(u) /\ O(u) = BOffset(GlobalIdx(u))
    BY <1>4, <2>2, <2>5, <2>6, <2>7 DEF TreeSums, g
  <2>9. \A u \in Live' : \A i \in G(u) :
          i \in output_a' /\ BOffset(i) = O(u) /\ i \notin output_b'[O(u)]
    <3>1. ASSUME NEW u \in Live, NEW i \in G(u)
          PROVE  i \in output_a' /\ BOffset(i) = O(u) /\ i \notin output_b'[O(u)]
      BY <1>1, <1>4, <2>5, <2>7 DEF TreeSums
    <3>2. InBounds(t) => g \in output_a' /\ g \notin output_b'[BOffset(g)]
      BY <1>1, <1>4, <1>6, <2>4 DEF TreeSums
    <3> QED
      BY <2>3, <2>6, <3>1, <3>2
  <2>10. \A u, v \in Live' : u # v => G(u) \cap G(v) = {}
    <3>1. \A u, v \in Live : u # v => G(u) \cap G(v) = {}
      BY <1>4, <2>5, <2>7 DEF TreeSums
    <3>2. \A u \in Live : InBounds(t) => G(u) \cap {g} = {}
      BY <1>4, <2>4, <2>5, <2>7 DEF TreeSums
    <3> QED
      BY <2>3, <2>6, <3>1, <3>2
  <2>11. \A k \in BElements : \A i \in output_b'[k] : i \in output_a' /\ BOffset(i) = k
    BY <1>1, <1>4 DEF TreeSums
  <2>12. \A i \in output_a' : i \in output_b'[BOffset(i)] \/ \E u \in Live' : i \in G(u)
    <3>1. ASSUME NEW i \in output_a
          PROVE  i \in output_b'[BOffset(i)] \/ \E u \in Live' : i \in G(u)
      BY <1>1, <1>4, <2>3, <2>5, <2>7 DEF TreeSums
    <3>2. InBounds(t) => \E u \in Live' : g \in G(u)
      BY <2>3, <2>6
    <3> QED
      BY <1>1, <2>3, <2>6, <3>1
  <2>13. \A u : Offset(u)' = O(u) /\ Gradient(u)' = G(u)
    BY DEF Offset, Gradient, Slot, Padded, O, G
  <2> QED
    BY <1>1, <2>4, <2>8, <2>9, <2>10, <2>11, <2>12, <2>13, CallStays DEF TreeSums
<1> QED
  BY <1>1, <1>3, <1>5, <1>7, <1>9, <1>10, TreeKeeps

(* The sum moves from the partner's slot to the thread's own.                *)
LEMMA MergeKeeps ==
    ASSUME Inv, NEW t \in Threads, Merge(t)
    PROVE  Inv'
<1> DEFINE p == Partner(t)
           same == reg[t].o1 = reg[t].o2 /\ reg[t].o1 # -1
<1>1. /\ phase[t] = "merge" /\ phase' = [phase EXCEPT ![t] = "tree"]
      /\ stride' = [stride EXCEPT ![t] = 2 * @]
      /\ reg' = [reg EXCEPT ![t] = NoReg]
      /\ IF same
         THEN /\ s_grad' = [s_grad EXCEPT ![t[1]][Slot(t)] = Plus(reg[t].g1, reg[t].g2)]
              /\ s_offset' = [s_offset EXCEPT ![t[1]] = [s_offset[t[1]] EXCEPT ![Slot(p)] = -1]]
         ELSE UNCHANGED <<s_grad, s_offset>>
      /\ UNCHANGED <<call, work, todo, outB_accum, output_a, output_b>>
  BY DEF Merge, Cleared
<1>2. Types /\ t \in Working /\ "merge" \in PhasesOf(DecidePath) /\ call \in Launches
  BY <1>1, Launched DEF Inv, Types
<1>3. DecidePath = "BlockReduce" /\ "tree" \in PhasesOf(DecidePath)
  BY <1>2, Paths DEF PhasesOf
<1>4. TreeSteps /\ TreeSums
  BY <1>3 DEF Inv, Tree
<1>5. OnPath' /\ phase' \in [Threads -> {"store", "warp", "load", "tree", "merge", "zero",
                                         "count", "flush", "done"}]
  BY <1>1, <1>2, <1>3, PhaseKept
<1>6. /\ stride[t] \in Nat /\ stride[t] >= 1 /\ stride[t] < BlockThreads /\ Merges(t)
      /\ \A u \in BlockOf(t) : phase[u] \in {"tree", "merge"} /\ stride[u] >= stride[t]
      /\ reg[t] = [o1 |-> Offset(t), o2 |-> Offset(p), g1 |-> Gradient(t), g2 |-> Gradient(p)]
  BY <1>1, <1>2, <1>4, ThreadFacts DEF TreeSteps, Types
<1>7. /\ p \in Working /\ p # t /\ p[1] = t[1]
      /\ \A u \in Working : u[1] = t[1] /\ stride[u] = stride[t] /\ Merges(u) /\ u # t =>
           Partner(t) # u /\ Partner(u) # t /\ Partner(u) # Partner(t)
  BY <1>2, <1>6, PartnerFacts
<1>8. phase[p] \in {"tree", "merge"}
  BY <1>2, <1>6, <1>7, SlotFacts
<1>9. reg[t].o1 = Offset(t) /\ reg[t].o2 = Offset(p) /\ reg[t].g1 = Gradient(t) /\ reg[t].g2 = Gradient(p)
  BY <1>6
<1> DEFINE O(u) == s_offset'[u[1]][Slot(u)]
           G(u) == s_grad'[u[1]][Slot(u)]
<1>10. Gradient(t) \in SUBSET (Indices \cup {Twice}) /\ Gradient(p) \in SUBSET (Indices \cup {Twice})
  <2>1. t[1] \in Blocks /\ p[1] \in Blocks /\ Slot(t) \in Slots /\ Slot(p) \in Slots
    BY <1>2, <1>7, SlotFacts
  <2> QED
    BY <1>2, <2>1 DEF Types, Gradient
<1> HIDE DEF p
<1>11. ASSUME NEW u \in Working
       PROVE  /\ O(u) = IF same /\ u = p THEN -1 ELSE Offset(u)
              /\ G(u) = IF same /\ u = t THEN Plus(Gradient(t), Gradient(p)) ELSE Gradient(u)
  <2>1. /\ u[1] \in Blocks /\ Slot(u) \in Slots /\ t[1] \in Blocks /\ Slot(t) \in Slots
        /\ p[1] \in Blocks /\ Slot(p) \in Slots
        /\ u # t => u[1] # t[1] \/ Slot(u) # Slot(t)
        /\ u # p => u[1] # p[1] \/ Slot(u) # Slot(p)
    BY <1>2, <1>7, SlotFacts
  <2>2. /\ DOMAIN s_offset = Blocks /\ DOMAIN s_grad = Blocks
        /\ \A b \in Blocks : DOMAIN s_offset[b] = Slots /\ DOMAIN s_grad[b] = Slots
    BY <1>2 DEF Types
  <2>3. CASE ~same
    BY <1>1, <2>3 DEF Offset, Gradient
  <2>4. CASE same
    <3>1. /\ s_grad' = [s_grad EXCEPT ![t[1]][Slot(t)] = Plus(Gradient(t), Gradient(p))]
          /\ s_offset' = [s_offset EXCEPT ![t[1]] = [s_offset[t[1]] EXCEPT ![Slot(p)] = -1]]
      BY <1>1, <1>9, <2>4
    <3>2. G(u) = IF u = t THEN Plus(Gradient(t), Gradient(p)) ELSE Gradient(u)
      BY <2>1, <2>2, <3>1 DEF Gradient
    <3>3. O(u) = IF u = p THEN -1 ELSE Offset(u)
      BY <1>7, <2>1, <2>2, <3>1 DEF Offset
    <3> QED
      BY <2>4, <3>2, <3>3
  <2> QED
    BY <2>3, <2>4
<1>12. Types'
  <2>1. stride' \in [Threads -> Nat]
    <3>1. 2 * stride[t] \in Nat
      BY <1>6
    <3> QED
      BY <1>1, <1>2, <3>1 DEF Types
  <2>2. s_offset' \in [Blocks -> [Slots -> BElements \cup {-1}]]
    <3>1. s_offset \in [Blocks -> [Slots -> BElements \cup {-1}]] /\ t[1] \in Blocks
      BY <1>2, SlotFacts DEF Types
    <3>2. [s_offset[t[1]] EXCEPT ![Slot(p)] = -1] \in [Slots -> BElements \cup {-1}]
      BY <3>1
    <3>3. \/ s_offset' = s_offset
          \/ s_offset' = [s_offset EXCEPT ![t[1]] = [s_offset[t[1]] EXCEPT ![Slot(p)] = -1]]
      BY <1>1
    <3> QED
      BY <3>1, <3>2, <3>3
  <2>3. s_grad' \in [Blocks -> [Slots -> SUBSET (Indices \cup {Twice})]]
    <3> DEFINE sum == Plus(reg[t].g1, reg[t].g2)
    <3>1. sum \in SUBSET (Indices \cup {Twice})
      BY <1>9, <1>10 DEF Plus
    <3>2. s_grad' = s_grad \/ s_grad' = [s_grad EXCEPT ![t[1]][Slot(t)] = sum]
      BY <1>1
    <3>3. s_grad \in [Blocks -> [Slots -> SUBSET (Indices \cup {Twice})]]
      BY <1>2 DEF Types
    <3> HIDE DEF sum
    <3> QED
      BY <3>1, <3>2, <3>3
  <2>4. DOMAIN reg' = Threads
    BY <1>1, <1>2 DEF Types
  <2> QED
    BY <1>1, <1>2, <1>5, <2>1, <2>2, <2>3, <2>4, CallStays DEF Types
<1>13. ASSUME NEW u \in Working
       PROVE  /\ u # t => phase'[u] = phase[u] /\ stride'[u] = stride[u] /\ reg'[u] = reg[u]
              /\ u = t => phase'[u] = "tree" /\ stride'[u] = 2 * stride[u]
  BY <1>1, <1>2, ThreadFacts DEF Types
<1>14. TreeSteps'
  <2>1. ASSUME NEW u \in Working \ {t}, phase[u] = "merge"
        PROVE  /\ s_offset'[u[1]][Slot(u)] = Offset(u) /\ s_grad'[u[1]][Slot(u)] = Gradient(u)
               /\ s_offset'[u[1]][Slot(Partner(u))] = Offset(Partner(u))
               /\ s_grad'[u[1]][Slot(Partner(u))] = Gradient(Partner(u))
    <3>1. /\ stride[u] \in Nat /\ stride[u] >= 1 /\ Merges(u)
          /\ \A v \in BlockOf(u) : stride[v] >= stride[u]
      BY <1>2, <1>4, <2>1, ThreadFacts DEF TreeSteps, Types
    <3>2. Partner(u) \in Working /\ Partner(u)[1] = u[1]
      BY <1>2, <3>1, PartnerFacts
    <3>3. u # p /\ Partner(u) # t /\ Partner(u) # p
      <4>1. CASE u[1] = t[1]
        <5>1. stride[u] >= stride[t] /\ stride[t] >= stride[u]
          BY <1>2, <1>6, <3>1, <4>1, SlotFacts
        <5>2. stride[u] = stride[t]
          BY <1>6, <3>1, <5>1
        <5> QED
          BY <1>7, <3>1, <4>1, <5>2 DEF p
      <4>2. CASE u[1] # t[1]
        BY <1>7, <3>2, <4>2
      <4> QED
        BY <4>1, <4>2
    <3>4. O(u) = Offset(u) /\ G(u) = Gradient(u)
      BY <1>11, <3>3
    <3>5. O(Partner(u)) = Offset(Partner(u)) /\ G(Partner(u)) = Gradient(Partner(u))
      BY <1>11, <3>2, <3>3
    <3> QED
      BY <3>2, <3>4, <3>5
  <2>2. ASSUME NEW u \in Working \ {t}
        PROVE  /\ phase'[u] = phase[u] /\ stride'[u] = stride[u] /\ reg'[u] = reg[u]
               /\ ~(phase[u] = "done" /\ t \in BlockOf(u))
    <3>1. t \in BlockOf(u) => u \in BlockOf(t)
      BY <1>2, SlotFacts
    <3> QED
      BY <1>6, <1>13, <3>1
  <2>3. /\ phase'[t] = "tree" /\ stride'[t] >= stride[t] /\ stride'[t] >= 1
        /\ stride' \in [Threads -> Nat]
    <3>1. stride'[t] = 2 * stride[t] /\ phase'[t] = "tree"
      BY <1>2, <1>13
    <3>2. stride' \in [Threads -> Nat]
      BY <1>12, CallStays DEF Types
    <3> QED
      BY <1>6, <3>1, <3>2
  <2>4. phase'[t] \in {"tree", "merge", "done"} /\ phase'[t] # "merge" /\ phase'[t] # "done"
    BY <2>3
  <2> QED
    BY <1>1, <1>2, <1>4, <2>1, <2>2, <2>3, <2>4, TreeStepsKept
<1>15. Loaded' = Loaded /\ t \in Loaded /\ p \in Loaded
  <2>1. \A u \in Working : phase'[u] # "load" <=> phase[u] # "load"
    BY <1>1, <1>13
  <2> QED
    BY <1>1, <1>2, <1>7, <1>8, <2>1, CallStays DEF Loaded
<1>16. /\ Live = {u \in Working : phase[u] \in {"tree", "merge"} /\ Offset(u) # -1}
       /\ Live' = {u \in Working : phase[u] \in {"tree", "merge"} /\ O(u) # -1}
  <2>1. Live' = {u \in Working : phase'[u] \in {"tree", "merge"} /\ O(u) # -1}
    BY <1>1, <1>5, <1>12, LiveWorksNext
  <2>2. \A u \in Working : phase'[u] \in {"tree", "merge"} <=> phase[u] \in {"tree", "merge"}
    BY <1>1, <1>13
  <2> QED
    BY <2>1, <2>2, LiveWorks
<1>17. CASE ~same
  <2>1. UNCHANGED <<s_offset, s_grad>>
    BY <1>1, <1>17
  <2>2. Live' = Live
    BY <1>16, <2>1 DEF Offset
  <2>3. TreeSums'
    BY <1>1, <1>4, <1>15, <2>1, <2>2, TreeSumsKept
  <2> QED
    BY <1>1, <1>3, <1>5, <1>12, <1>14, <2>3, TreeKeeps
<1>18. CASE same
  <2>1. t \in Live /\ p \in Live /\ Offset(t) = Offset(p) /\ Offset(t) # -1
    BY <1>1, <1>2, <1>7, <1>8, <1>9, <1>16, <1>18
  <2>2. Live' = Live \ {p} /\ Live \subseteq Working
    BY <1>11, <1>16, <1>18
  <2>3. \A u \in Working : O(u) = IF u = p THEN -1 ELSE Offset(u)
    BY <1>11, <1>18
  <2>4. \A u \in Working \ {t} : G(u) = Gradient(u)
    BY <1>11
  <2>5. G(t) = Gradient(t) \cup Gradient(p)
    <3>1. Gradient(t) \cap Gradient(p) = {}
      BY <1>4, <1>7, <2>1 DEF TreeSums
    <3> QED
      BY <1>2, <1>11, <1>18, <3>1 DEF Plus
  <2> HIDE DEF O, G
  <2>6. \A u \in Loaded : O(u) # -1 => InBounds(u) /\ O(u) = BOffset(GlobalIdx(u))
    BY <1>4, <2>3 DEF TreeSums, Loaded
  <2>7. ASSUME NEW u \in Live', NEW i \in G(u)
        PROVE  i \in output_a /\ BOffset(i) = O(u) /\ i \notin output_b[O(u)]
    <3>1. u \in Live /\ u # p /\ u \in Working /\ O(u) = Offset(u)
      BY <2>2, <2>3
    <3>2. CASE u # t
      BY <1>4, <2>4, <2>7, <3>1, <3>2 DEF TreeSums
    <3>3. CASE u = t
      BY <1>4, <2>1, <2>5, <2>7, <3>1, <3>3 DEF TreeSums
    <3> QED
      BY <3>2, <3>3
  <2>8. ASSUME NEW u \in Live', NEW v \in Live', u # v
        PROVE  G(u) \cap G(v) = {}
    <3>1. u \in Live \ {p} /\ v \in Live \ {p} /\ u \in Working /\ v \in Working
      BY <2>2
    <3>2. \A x, y \in Live : x # y => Gradient(x) \cap Gradient(y) = {}
      BY <1>4 DEF TreeSums
    <3>3. CASE u # t /\ v # t
      BY <2>4, <2>8, <3>1, <3>2, <3>3
    <3>4. CASE u = t
      BY <2>1, <2>4, <2>5, <2>8, <3>1, <3>2, <3>4
    <3>5. CASE v = t
      BY <2>1, <2>4, <2>5, <2>8, <3>1, <3>2, <3>5
    <3> QED
      BY <3>3, <3>4, <3>5
  <2>9. ASSUME NEW i \in output_a
        PROVE  i \in output_b[BOffset(i)] \/ \E u \in Live' : i \in G(u)
    <3>1. i \in output_b[BOffset(i)] \/ \E u \in Live : i \in Gradient(u)
      BY <1>4 DEF TreeSums
    <3>2. ASSUME NEW u \in Live, i \in Gradient(u)
          PROVE  \E v \in Live' : i \in G(v)
      <4>1. CASE u \in {t, p}
        BY <1>7, <2>1, <2>2, <2>5, <3>2, <4>1
      <4>2. CASE u \notin {t, p}
        BY <2>2, <2>4, <3>2, <4>2
      <4> QED
        BY <4>1, <4>2
    <3> QED
      BY <3>1, <3>2
  <2>10. \A u : Offset(u)' = O(u) /\ Gradient(u)' = G(u)
    BY DEF Offset, Gradient, Slot, Padded, O, G
  <2>11. TreeSums'
    <3>1. /\ output_a' = IndicesOf(Loaded)
          /\ \A k \in BElements : \A i \in output_b'[k] : i \in output_a' /\ BOffset(i) = k
      BY <1>1, <1>4 DEF TreeSums
    <3> QED
      BY <1>1, <1>15, <2>6, <2>7, <2>8, <2>9, <2>10, <3>1, CallStays DEF TreeSums
  <2> QED
    BY <1>1, <1>3, <1>5, <1>12, <1>14, <2>11, TreeKeeps
<1> QED
  BY <1>17, <1>18

(* What is left in the slot goes to the result, and nobody merges any more.  *)
LEMMA AddKeeps ==
    ASSUME Inv, NEW t \in Threads, Add(t)
    PROVE  Inv'
<1> DEFINE k == Offset(t)
<1>1. /\ phase[t] = "tree" /\ stride[t] >= BlockThreads /\ Synced(t)
      /\ phase' = [phase EXCEPT ![t] = "done"]
      /\ output_b' = IF InBounds(t) /\ k # -1
                     THEN [output_b EXCEPT ![k] = Plus(@, Gradient(t))] ELSE output_b
      /\ UNCHANGED <<call, stride, reg, s_offset, s_grad, work, todo, outB_accum, output_a>>
  BY DEF Add, AddsLeft, Offset, Gradient
<1>2. Types /\ t \in Working /\ "tree" \in PhasesOf(DecidePath) /\ call \in Launches
  BY <1>1, Launched DEF Inv, Types
<1>3. DecidePath = "BlockReduce" /\ "done" \in PhasesOf(DecidePath)
  BY <1>2, Paths DEF PhasesOf
<1>4. TreeSteps /\ TreeSums
  BY <1>3 DEF Inv, Tree
<1>5. OnPath' /\ phase' \in [Threads -> {"store", "warp", "load", "tree", "merge", "zero",
                                         "count", "flush", "done"}]
  BY <1>1, <1>2, <1>3, PhaseKept
<1>6. /\ phase'[t] = "done" /\ \A u \in Working \ {t} : phase'[u] = phase[u]
      /\ stride \in [Threads -> Nat] /\ BlockThreads \in Nat /\ stride[t] \in Nat
  BY <1>1, <1>2, ThreadFacts, CallFacts DEF Types
<1>7. k \in BElements \cup {-1} /\ Gradient(t) \in SUBSET (Indices \cup {Twice})
  BY <1>2, SlotFacts DEF Types, Offset, Gradient
<1> HIDE DEF k
<1>8. Types'
  <2>1. output_b' \in [BElements -> SUBSET (Indices \cup {Twice})]
    BY <1>1, <1>2, <1>7 DEF Types, Plus
  <2> QED
    BY <1>1, <1>2, <1>5, <2>1, CallStays DEF Types
<1>9. TreeSteps'
  <2>1. ASSUME NEW u \in BlockOf(t)
        PROVE  phase[u] = "done" \/ (phase[u] = "tree" /\ stride[u] >= BlockThreads)
    <3>1. u \in Working /\ u \in Threads
      BY <1>2, SlotFacts, ThreadFacts
    <3>2. phase[u] = "done" \/ (phase[u] \in {"tree", "merge"} /\ stride[u] >= stride[t])
      BY <1>1, <1>2, <1>3, <1>4, Arrived DEF Inv
    <3>3. CASE phase[u] = "done"
      BY <3>3
    <3>4. CASE phase[u] \in {"tree", "merge"} /\ stride[u] >= stride[t]
      <4>1. stride[u] >= BlockThreads /\ stride[u] \in Nat
        BY <1>1, <1>6, <3>1, <3>4
      <4>2. phase[u] # "merge"
        <5>1. phase[u] = "merge" => stride[u] < BlockThreads
          BY <1>4, <3>1 DEF TreeSteps
        <5> QED
          BY <1>6, <4>1, <5>1
      <4> QED
        BY <3>4, <4>1, <4>2
    <3> QED
      BY <3>2, <3>3, <3>4
  <2>2. \A u \in BlockOf(t) : phase[u] # "merge"
    BY <2>1
  <2>3. ASSUME NEW u \in Working \ {t}, phase[u] = "merge"
        PROVE  /\ s_offset'[u[1]][Slot(u)] = Offset(u) /\ s_grad'[u[1]][Slot(u)] = Gradient(u)
               /\ s_offset'[u[1]][Slot(Partner(u))] = Offset(Partner(u))
               /\ s_grad'[u[1]][Slot(Partner(u))] = Gradient(Partner(u))
    BY <1>1 DEF Offset, Gradient, Partner
  <2>4. stride' \in [Threads -> Nat] /\ phase'[t] \in {"tree", "merge", "done"}
        /\ phase'[t] \notin {"tree", "merge"} /\ phase'[t] # "merge"
    BY <1>1, <1>6
  <2>5. \A u \in Working \ {t} : phase'[u] = phase[u] /\ stride'[u] = stride[u] /\ reg'[u] = reg[u]
    BY <1>1, <1>6
  <2> QED
    BY <1>1, <1>2, <1>4, <1>6, <2>1, <2>2, <2>3, <2>4, <2>5, TreeStepsKept
<1>10. Loaded' = Loaded /\ t \in Loaded
  <2>1. \A u \in Working : phase'[u] # "load" <=> phase[u] # "load"
    BY <1>1, <1>6
  <2> QED
    BY <1>1, <1>2, <2>1, CallStays DEF Loaded
<1>11. Live' = Live \ {t} /\ Live \subseteq Working /\ (t \in Live <=> k # -1)
  <2>1. Live = {u \in Working : phase[u] \in {"tree", "merge"} /\ Offset(u) # -1}
    BY LiveWorks
  <2>2. Live' = {u \in Working : phase'[u] \in {"tree", "merge"} /\ Offset(u) # -1}
    BY <1>1, <1>5, <1>8, LiveWorksNext DEF Offset
  <2>3. \A u \in Working : phase'[u] \in {"tree", "merge"} <=>
                           (phase[u] \in {"tree", "merge"} /\ u # t)
    BY <1>1, <1>6
  <2> QED
    BY <1>1, <1>2, <2>1, <2>2, <2>3 DEF k
<1>12. CASE k = -1
  <2>1. Live' = Live /\ output_b' = output_b
    BY <1>1, <1>11, <1>12
  <2>2. TreeSums'
    BY <1>1, <1>4, <1>10, <2>1, TreeSumsKept
  <2> QED
    BY <1>1, <1>3, <1>5, <1>8, <1>9, <2>2, TreeKeeps
<1>13. CASE k # -1
  <2>1. t \in Live /\ k \in BElements /\ InBounds(t)
    BY <1>4, <1>7, <1>10, <1>11, <1>13 DEF TreeSums, k
  <2>2. \A i \in Gradient(t) : i \in output_a /\ BOffset(i) = k /\ i \notin output_b[k]
    BY <1>4, <2>1 DEF TreeSums, k
  <2>3. output_b'[k] = output_b[k] \cup Gradient(t)
    <3>1. output_b[k] \cap Gradient(t) = {}
      BY <2>2
    <3> QED
      BY <1>1, <1>2, <1>13, <2>1, <3>1 DEF Plus, Types
  <2>4. \A j \in BElements \ {k} : output_b'[j] = output_b[j]
    BY <1>1, <1>2 DEF Types
  <2>5. ASSUME NEW u \in Live', NEW i \in Gradient(u)
        PROVE  i \in output_a /\ BOffset(i) = Offset(u) /\ i \notin output_b'[Offset(u)]
    <3>1. u \in Live /\ u # t
      BY <1>11
    <3>2. i \in output_a /\ BOffset(i) = Offset(u) /\ i \notin output_b[Offset(u)]
      BY <1>4, <3>1 DEF TreeSums
    <3>3. i \notin Gradient(t)
      BY <1>4, <2>1, <3>1 DEF TreeSums
    <3>4. Offset(u) \in BElements
      <4>1. i \in Indices
        BY <1>2, <3>2 DEF Types
      <4> QED
        BY <1>2, <3>2, <4>1, CallFacts
    <3> QED
      BY <2>3, <2>4, <3>2, <3>3, <3>4
  <2>6. \A u, v \in Live' : u # v => Gradient(u) \cap Gradient(v) = {}
    BY <1>4, <1>11 DEF TreeSums
  <2>7. \A j \in BElements : \A i \in output_b'[j] : i \in output_a /\ BOffset(i) = j
    BY <1>4, <2>2, <2>3, <2>4 DEF TreeSums
  <2>8. ASSUME NEW i \in output_a
        PROVE  i \in output_b'[BOffset(i)] \/ \E u \in Live' : i \in Gradient(u)
    <3>1. i \in output_b[BOffset(i)] \/ \E u \in Live : i \in Gradient(u)
      BY <1>4 DEF TreeSums
    <3>2. CASE i \in Gradient(t)
      BY <2>2, <2>3, <3>2
    <3>3. CASE i \in output_b[BOffset(i)]
      <4>1. BOffset(i) \in BElements
        <5>1. i \in Indices
          BY <1>2 DEF Types
        <5> QED
          BY <1>2, <5>1, CallFacts
      <4> QED
        BY <2>3, <2>4, <3>3, <4>1
    <3> QED
      BY <1>11, <3>1, <3>2, <3>3
  <2>9. \A u : Offset(u)' = Offset(u) /\ Gradient(u)' = Gradient(u)
    BY <1>1 DEF Offset, Gradient, Slot, Padded
  <2>10. TreeSums'
    <3>1. output_a' = IndicesOf(Loaded) /\ \A u \in Loaded : Offset(u) # -1 =>
             InBounds(u) /\ Offset(u) = BOffset(GlobalIdx(u))
      BY <1>1, <1>4 DEF TreeSums
    <3> QED
      BY <1>1, <1>10, <2>5, <2>6, <2>7, <2>8, <2>9, <3>1, CallStays DEF TreeSums
  <2> QED
    BY <1>1, <1>3, <1>5, <1>8, <1>9, <2>10, TreeKeeps
<1> QED
  BY <1>12, <1>13

-----------------------------------------------------------------------------
(* The histograms.                                                           *)

LEMMA BinFacts ==
    ASSUME call \in Launches, DecidePath = "TwoPassHist"
    PROVE  \A k \in BElements :
             /\ Padded(k) \in Slots /\ Padded(k) \in 0 .. Room(BNumElements) - 1
             /\ Padded(k) % BlockThreads \in Tids /\ k % BlockThreads \in Tids
             /\ \A j \in BElements : Padded(j) = Padded(k) => j = k
<1>1. /\ BlockThreads \in Nat \ {0} /\ BNumElements \in Nat /\ MaxBlock \in Nat
      /\ HistLimit \in Nat /\ BNumElements <= HistLimit
  BY CallFacts, SizesAssumption, Paths
<1> DEFINE most == IF MaxBlock < HistLimit THEN HistLimit ELSE MaxBlock
<1>2. most \in Nat /\ BNumElements <= most
  BY <1>1
<1> HIDE DEF most
<1>3. Room(BNumElements) <= Room(most) /\ Room(BNumElements) \in Nat /\ Room(most) \in Nat
  BY <1>1, <1>2, RoomOrdered
<1>4. Slots = 0 .. Room(most) - 1
  BY DEF Slots, most
<1>5. ASSUME NEW k \in BElements
      PROVE  /\ Padded(k) \in Slots /\ Padded(k) \in 0 .. Room(BNumElements) - 1
             /\ Padded(k) % BlockThreads \in Tids /\ k % BlockThreads \in Tids
             /\ \A j \in BElements : Padded(j) = Padded(k) => j = k
  <2>1. k \in Nat /\ k < BNumElements
    BY <1>1 DEF BElements
  <2>2. Padded(k) \in Nat /\ Padded(k) < Room(BNumElements)
    BY <1>1, <2>1, PaddedOrdered
  <2>3. Padded(k) \in 0 .. Room(BNumElements) - 1 /\ Padded(k) \in 0 .. Room(most) - 1
    BY <1>3, <2>2
  <2>4. Padded(k) % BlockThreads \in Tids /\ k % BlockThreads \in Tids
    BY <1>1, <2>1, <2>2, Division DEF Tids
  <2>5. \A j \in BElements : Padded(j) = Padded(k) => j = k
    BY <1>1, <2>1, PaddedApart DEF BElements
  <2> QED
    BY <1>4, <2>3, <2>4, <2>5
<1> QED
  BY <1>5

(* The threads of a block, and what they are for.                            *)
LEMMA BlockFacts ==
    ASSUME call \in Launches
    PROVE  /\ \A b \in 0 .. Grid - 1 : Of(b) \subseteq Working
           /\ \A t \in Working : /\ BlockOf(t) = Of(t[1]) /\ t \in Of(t[1])
                                 /\ \A b : t \in Of(b) => b = t[1]
           /\ \A S : S \subseteq Working => IndicesOf(S) \subseteq Indices
           /\ \A S, t : S \subseteq Working /\ t \in Working /\ t \notin S =>
                GlobalIdx(t) \notin IndicesOf(S)
<1>1. \A b \in 0 .. Grid - 1 : Of(b) \subseteq Working
  BY DEF Of, Working
<1>2. \A t \in Working : /\ BlockOf(t) = Of(t[1]) /\ t \in Of(t[1])
                         /\ \A b : t \in Of(b) => b = t[1]
  BY ThreadFacts DEF Of, BlockOf
<1>3. \A S : S \subseteq Working => IndicesOf(S) \subseteq Indices
  BY GlobalIdxFacts DEF IndicesOf
<1>4. \A S, t : S \subseteq Working /\ t \in Working /\ t \notin S =>
                GlobalIdx(t) \notin IndicesOf(S)
  BY GlobalIdxFacts DEF IndicesOf
<1> QED
  BY <1>1, <1>2, <1>3, <1>4

LEMMA HistKeeps ==
    ASSUME Inv, DecidePath = "TwoPassHist", UNCHANGED call, OnPath', Types',
           HistSteps', HistSums', HistReduced'
    PROVE  Inv'
BY CallStays DEF Inv, Histograms

(* Nothing is reduced before the first kernel has ended.                     *)
LEMMA HistReducedKept ==
    ASSUME HistReduced, UNCHANGED <<call, todo, outB_accum, output_b>>, ~KernelEnded
    PROVE  HistReduced'
<1>1. /\ \A k : RowsDone(k)' = RowsDone(k)
      /\ \A k, b : For(k, IndicesOf(Of(b)))' = For(k, IndicesOf(Of(b)))
      /\ \A k : For(k, Indices)' = For(k, Indices)
  BY CallStays DEF RowsDone, Rows, For, IndicesOf, Of, InBounds, GlobalIdx
<1>2. todo' = Cells'
  BY CallStays DEF HistReduced
<1>3. \A k \in BElements :
         IF Use2D
         THEN /\ outB_accum'[k] = UNION {For(k, IndicesOf(Of(b))) : b \in RowsDone(k)}
              /\ <<"cast", k, 0>> \in todo' => output_b'[k] = {}
              /\ <<"cast", k, 0>> \notin todo' => /\ output_b'[k] = outB_accum'[k]
                                                 /\ todo' \subseteq {"cast"} \X BElements \X {0}
         ELSE output_b'[k] = IF <<"1D", k, 0>> \in todo' THEN {} ELSE For(k, Indices)
  BY DEF HistReduced
<1> QED
  BY <1>1, <1>2, <1>3, CallStays DEF HistReduced

(* What the sums have to be after a step.                                    *)
LEMMA HistSumsNext ==
    ASSUME UNCHANGED call, output_a' = IndicesOf(Counted'),
           \A b \in 0 .. Grid - 1, k \in BElements :
             phase'[<<b, Padded(k) % BlockThreads>>] # "zero" =>
               s_grad'[b][Padded(k)] = For(k, IndicesOf(Of(b) \cap Counted')),
           \A b \in 0 .. Grid - 1, k \in BElements :
             phase'[<<b, k % BlockThreads>>] = "done" => work'[b][k] = For(k, IndicesOf(Of(b)))
    PROVE  HistSums'
<1>1. /\ (0 .. Grid - 1)' = 0 .. Grid - 1 /\ BElements' = BElements
      /\ BlockThreads' = BlockThreads /\ \A k : Padded(k)' = Padded(k)
  BY CallStays DEF Padded
<1>2. /\ IndicesOf(Counted)' = IndicesOf(Counted')
      /\ \A b, k : /\ For(k, IndicesOf(Of(b) \cap Counted))' =
                        For(k, IndicesOf(Of(b) \cap Counted'))
                   /\ For(k, IndicesOf(Of(b)))' = For(k, IndicesOf(Of(b)))
  BY CallStays DEF For, IndicesOf, Of, InBounds, GlobalIdx
<1>3. ASSUME NEW b \in (0 .. Grid - 1)', NEW k \in BElements'
      PROVE  /\ (phase[<<b, Padded(k) % BlockThreads>>] # "zero" =>
                   s_grad[b][Padded(k)] = For(k, IndicesOf(Of(b) \cap Counted)))'
             /\ (phase[<<b, k % BlockThreads>>] = "done" =>
                   work[b][k] = For(k, IndicesOf(Of(b))))'
  <2>1. b \in 0 .. Grid - 1 /\ k \in BElements
    BY <1>1, <1>3
  <2>2. /\ (<<b, Padded(k) % BlockThreads>>)' = <<b, Padded(k) % BlockThreads>>
        /\ (<<b, k % BlockThreads>>)' = <<b, k % BlockThreads>>
    BY <1>1
  <2>3. (phase[<<b, Padded(k) % BlockThreads>>] # "zero" =>
           s_grad[b][Padded(k)] = For(k, IndicesOf(Of(b) \cap Counted)))'
    BY <1>1, <1>2, <2>1, <2>2
  <2>4. (phase[<<b, k % BlockThreads>>] = "done" => work[b][k] = For(k, IndicesOf(Of(b))))'
    BY <1>1, <1>2, <2>1, <2>2
  <2> QED
    BY <2>3, <2>4
<1>4. (output_a = IndicesOf(Counted))'
  BY <1>2
<1> QED
  BY <1>3, <1>4 DEF HistSums

LEMMA ZeroKeeps ==
    ASSUME Inv, NEW t \in Threads, Zero(t)
    PROVE  Inv'
<1>1. /\ phase[t] = "zero" /\ phase' = [phase EXCEPT ![t] = "count"]
      /\ stride' = [stride EXCEPT ![t] = GlobalIdx(t)]
      /\ s_grad' = [s_grad EXCEPT ![t[1]] = [i \in Slots |->
                       IF i \in Zeroed(t) THEN {} ELSE s_grad[t[1]][i]]]
      /\ UNCHANGED <<call, reg, s_offset, work, todo, outB_accum, output_a, output_b>>
  BY DEF Zero, Inv, Types
<1>2. Types /\ t \in Working /\ "zero" \in PhasesOf(DecidePath) /\ call \in Launches
  BY <1>1, Launched DEF Inv, Types
<1>3. DecidePath = "TwoPassHist" /\ "count" \in PhasesOf(DecidePath)
  BY <1>2, Paths DEF PhasesOf
<1>4. HistSteps /\ HistSums /\ HistReduced
  BY <1>3 DEF Inv, Histograms
<1>5. OnPath' /\ phase' \in [Threads -> {"store", "warp", "load", "tree", "merge", "zero",
                                         "count", "flush", "done"}]
  BY <1>1, <1>2, <1>3, PhaseKept
<1>6. GlobalIdx(t) \in Nat /\ t[1] \in Blocks
  BY <1>2, GlobalIdxFacts, ThreadFacts
<1>7. Types'
  <2>1. stride' \in [Threads -> Nat]
    BY <1>1, <1>2, <1>6 DEF Types
  <2>2. s_grad' \in [Blocks -> [Slots -> SUBSET (Indices \cup {Twice})]]
    BY <1>1, <1>2, <1>6 DEF Types
  <2> QED
    BY <1>1, <1>2, <1>5, <2>1, <2>2, CallStays DEF Types
<1>8. ASSUME NEW u \in Working
      PROVE  /\ u # t => phase'[u] = phase[u] /\ stride'[u] = stride[u]
             /\ u = t => phase'[u] = "count" /\ stride'[u] = GlobalIdx(u)
  BY <1>1, <1>2, ThreadFacts DEF Types
<1>9. Counted' = Counted
  <2>1. Counted' = {u \in Working : phase'[u] # "zero" /\ stride'[u] # GlobalIdx(u)}
    BY <1>1, CallStays DEF Counted
  <2> QED
    BY <1>1, <1>8, <2>1 DEF Counted
<1>10. HistSteps'
  <2>1. ASSUME NEW u \in Working
        PROVE  /\ phase'[u] # "zero" =>
                    stride'[u] \in {GlobalIdx(u), GlobalIdx(u) + Grid * BlockThreads}
               /\ u \in Counted => InBounds(u)
               /\ phase'[u] = "zero" =>
                    \A v \in BlockOf(u) : phase'[v] \in {"zero", "count"} /\ v \notin Counted
               /\ phase'[u] \in {"flush", "done"} /\ InBounds(u) => u \in Counted
               /\ phase'[u] = "done" => \A v \in BlockOf(u) : phase'[v] \in {"flush", "done"}
    <3>1. \A v \in BlockOf(u) : v \in Working
      BY <1>2, SlotFacts
    <3>2. phase'[u] # "zero" =>
             stride'[u] \in {GlobalIdx(u), GlobalIdx(u) + Grid * BlockThreads}
      BY <1>4, <1>8 DEF HistSteps
    <3>3. phase'[u] = "zero" =>
             \A v \in BlockOf(u) : phase'[v] \in {"zero", "count"} /\ v \notin Counted
      BY <1>4, <1>8, <3>1 DEF HistSteps
    <3>4. phase'[u] = "done" => \A v \in BlockOf(u) : phase'[v] \in {"flush", "done"}
      BY <1>1, <1>4, <1>8, <3>1 DEF HistSteps
    <3>5. /\ u \in Counted => InBounds(u)
          /\ phase'[u] \in {"flush", "done"} /\ InBounds(u) => u \in Counted
      BY <1>4, <1>8 DEF HistSteps
    <3> QED
      BY <3>2, <3>3, <3>4, <3>5
  <2> QED
    BY <1>1, <1>9, <2>1, CallStays DEF HistSteps
<1>11. HistSums'
  <2>1. ASSUME NEW b \in 0 .. Grid - 1, NEW k \in BElements,
               phase'[<<b, Padded(k) % BlockThreads>>] # "zero"
        PROVE  s_grad'[b][Padded(k)] = For(k, IndicesOf(Of(b) \cap Counted))
    <3> DEFINE z == <<b, Padded(k) % BlockThreads>>
    <3>1. /\ z \in Working /\ Padded(k) \in Slots /\ Padded(k) \in 0 .. Room(BNumElements) - 1
          /\ b \in Blocks /\ z[1] = b
      BY <1>2, <1>3, BinFacts, ThreadFacts
    <3>2. Padded(k) \in Zeroed(t) <=> Padded(k) % BlockThreads = t[2]
      BY <3>1 DEF Zeroed
    <3>3. CASE z = t
      <4>1. s_grad'[b][Padded(k)] = {}
        <5>1. b = t[1] /\ Padded(k) \in Zeroed(t)
          BY <3>2, <3>3
        <5> QED
          BY <1>1, <1>2, <3>1, <5>1 DEF Types
      <4>2. Of(b) \cap Counted = {}
        BY <1>1, <1>2, <1>4, <3>1, <3>3, BlockFacts DEF HistSteps
      <4> QED
        BY <4>1, <4>2 DEF For, IndicesOf
    <3>4. CASE z # t
      <4>1. s_grad'[b][Padded(k)] = s_grad[b][Padded(k)]
        <5>1. CASE b # t[1]
          BY <1>1, <1>2, <3>1, <5>1 DEF Types
        <5>2. CASE b = t[1]
          <6>1. t = <<t[1], t[2]>>
            BY <1>2, ThreadFacts
          <6>2. Padded(k) \notin Zeroed(t)
            BY <3>2, <3>4, <5>2, <6>1
          <6> QED
            BY <1>1, <1>2, <3>1, <5>2, <6>2 DEF Types
        <5> QED
          BY <5>1, <5>2
      <4>2. phase[z] # "zero"
        BY <1>8, <2>1, <3>1, <3>4
      <4> QED
        BY <1>4, <4>1, <4>2 DEF HistSums
    <3> QED
      BY <3>3, <3>4
  <2>2. ASSUME NEW b \in 0 .. Grid - 1, NEW k \in BElements,
               phase'[<<b, k % BlockThreads>>] = "done"
        PROVE  work'[b][k] = For(k, IndicesOf(Of(b)))
    <3>1. <<b, k % BlockThreads>> \in Working
      BY <1>2, <1>3, BinFacts, ThreadFacts
    <3>2. phase[<<b, k % BlockThreads>>] = "done"
      BY <1>8, <2>2, <3>1
    <3> QED
      BY <1>1, <1>4, <3>2 DEF HistSums
  <2>3. output_a' = IndicesOf(Counted)
    BY <1>1, <1>4 DEF HistSums
  <2> QED
    BY <1>1, <1>9, <2>1, <2>2, <2>3, HistSumsNext
<1>12. HistReduced'
  <2>1. ~KernelEnded
    BY <1>1 DEF KernelEnded
  <2> QED
    BY <1>1, <1>4, <2>1, HistReducedKept
<1> QED
  BY <1>1, <1>3, <1>5, <1>7, <1>10, <1>11, <1>12, HistKeeps

(* The loop is taken at most once: all the threads together cover the output.*)
LEMMA CountKeeps ==
    ASSUME Inv, NEW t \in Threads, Count(t)
    PROVE  Inv'
<1> DEFINE g == GlobalIdx(t)
           k == BOffset(g)
<1>1. /\ phase[t] = "count" /\ HistSynced(t, "zero") /\ stride[t] < NumElements
      /\ stride' = [stride EXCEPT ![t] = @ + Grid * BlockThreads]
      /\ output_a' = output_a \cup {stride[t]}
      /\ s_grad' = [s_grad EXCEPT ![t[1]][Padded(BOffset(stride[t]))] = Plus(@, {stride[t]})]
      /\ UNCHANGED <<call, phase, reg, s_offset, work, todo, outB_accum, output_b>>
  BY DEF Count, MayCount
<1>2. Types /\ t \in Working /\ "count" \in PhasesOf(DecidePath) /\ call \in Launches
  BY <1>1, Launched DEF Inv, Types
<1>3. DecidePath = "TwoPassHist"
  BY <1>2, Paths DEF PhasesOf
<1>4. HistSteps /\ HistSums /\ HistReduced
  BY <1>3 DEF Inv, Histograms
<1>5. /\ Grid * BlockThreads \in Nat /\ NumElements \in Nat \ {0}
      /\ NumElements <= Grid * BlockThreads /\ g \in Nat
  <2>1. Grid \in Nat /\ BlockThreads \in Nat
    BY <1>2, CallFacts
  <2> QED
    BY <1>2, <2>1, CallFacts, GlobalIdxFacts
<1>6. stride[t] = g /\ g < NumElements /\ g + Grid * BlockThreads # g
      /\ g + Grid * BlockThreads \in Nat
  <2>1. stride[t] \in {g, g + Grid * BlockThreads}
    BY <1>1, <1>2, <1>4 DEF HistSteps
  <2> QED
    BY <1>1, <1>5, <2>1
<1>7. g \in Indices /\ k \in BElements /\ InBounds(t) /\ t \in Threads
  BY <1>2, <1>5, <1>6, GlobalIdxFacts, CallFacts DEF Indices, InBounds
<1>8. t \notin Counted
  BY <1>6 DEF Counted
<1> HIDE DEF g, k
<1>9. /\ stride' = [stride EXCEPT ![t] = g + Grid * BlockThreads]
      /\ output_a' = output_a \cup {g}
      /\ s_grad' = [s_grad EXCEPT ![t[1]][Padded(k)] = Plus(@, {g})]
  BY <1>1, <1>6 DEF k
<1>10. ASSUME NEW u \in Working
       PROVE  /\ u # t => stride'[u] = stride[u]
              /\ u = t => stride'[u] = g + Grid * BlockThreads
  BY <1>2, <1>9, ThreadFacts DEF Types
<1>11. Counted' = Counted \cup {t}
  <2>1. Counted' = {u \in Working : phase[u] # "zero" /\ stride'[u] # GlobalIdx(u)}
    BY <1>1, CallStays DEF Counted
  <2>2. stride'[t] # GlobalIdx(t)
    BY <1>2, <1>6, <1>10 DEF g
  <2> QED
    BY <1>1, <1>2, <1>10, <2>1, <2>2 DEF Counted
<1>12. Types' /\ OnPath'
  <2>1. stride' \in [Threads -> Nat]
    BY <1>2, <1>6, <1>9 DEF Types
  <2>2. s_grad' \in [Blocks -> [Slots -> SUBSET (Indices \cup {Twice})]]
    <3> DEFINE sum == Plus(s_grad[t[1]][Padded(k)], {g})
    <3>1. t[1] \in Blocks /\ Padded(k) \in Slots
      BY <1>2, <1>3, <1>7, ThreadFacts, BinFacts
    <3>2. s_grad[t[1]][Padded(k)] \in SUBSET (Indices \cup {Twice})
      BY <1>2, <3>1 DEF Types
    <3>3. sum \in SUBSET (Indices \cup {Twice})
      BY <1>7, <3>2 DEF Plus
    <3>4. s_grad' = [s_grad EXCEPT ![t[1]][Padded(k)] = sum]
      BY <1>2, <1>9, <3>1 DEF Types
    <3> HIDE DEF sum
    <3> QED
      BY <1>2, <3>1, <3>3, <3>4 DEF Types
  <2>3. output_a' \subseteq Indices
    BY <1>2, <1>7, <1>9 DEF Types
  <2> QED
    BY <1>1, <1>2, <2>1, <2>2, <2>3, CallStays DEF Inv, OnPath, PhasesOf, Types
<1>13. HistSteps'
  <2>1. ASSUME NEW u \in Working
        PROVE  /\ phase[u] # "zero" =>
                    stride'[u] \in {GlobalIdx(u), GlobalIdx(u) + Grid * BlockThreads}
               /\ u \in Counted' => InBounds(u)
               /\ phase[u] = "zero" =>
                    \A v \in BlockOf(u) : phase[v] \in {"zero", "count"} /\ v \notin Counted'
               /\ phase[u] \in {"flush", "done"} /\ InBounds(u) => u \in Counted'
               /\ phase[u] = "done" => \A v \in BlockOf(u) : phase[v] \in {"flush", "done"}
    <3>1. phase[u] = "zero" => t \notin BlockOf(u)
      <4>1. t \in BlockOf(u) => u \in BlockOf(t)
        BY <1>2, SlotFacts
      <4> QED
        BY <1>1, <4>1 DEF HistSynced
    <3>2. phase[u] # "zero" =>
             stride'[u] \in {GlobalIdx(u), GlobalIdx(u) + Grid * BlockThreads}
      BY <1>4, <1>10 DEF HistSteps, g
    <3> QED
      BY <1>4, <1>7, <1>11, <3>1, <3>2 DEF HistSteps
  <2>2. \A u \in Working : stride'[u] \in {GlobalIdx(u), GlobalIdx(u) + Grid * BlockThreads}
                           \/ phase'[u] = "zero"
    BY <1>1, <2>1
  <2> QED
    BY <1>1, <2>1, <2>2, CallStays DEF HistSteps
<1>14. HistSums'
  <2>1. \A S : IndicesOf(S \cup {t}) = IndicesOf(S) \cup {g}
    BY <1>7 DEF IndicesOf, g
  <2>2. output_a' = IndicesOf(Counted')
    BY <1>4, <1>9, <1>11, <2>1 DEF HistSums
  <2>3. ASSUME NEW b \in 0 .. Grid - 1, NEW j \in BElements,
               phase[<<b, Padded(j) % BlockThreads>>] # "zero"
        PROVE  s_grad'[b][Padded(j)] = For(j, IndicesOf(Of(b) \cap Counted'))
    <3>1. s_grad[b][Padded(j)] = For(j, IndicesOf(Of(b) \cap Counted))
      BY <1>4, <2>3 DEF HistSums
    <3>2. /\ b \in Blocks /\ Padded(j) \in Slots /\ Padded(k) \in Slots /\ t[1] \in Blocks
          /\ (Padded(j) = Padded(k) => j = k)
      <4>1. b \in Blocks /\ t[1] \in Blocks
        BY <1>2, CallFacts, ThreadFacts DEF Blocks
      <4> QED
        BY <1>2, <1>3, <1>7, <4>1, BinFacts
    <3>3. CASE b # t[1]
      <4>1. s_grad'[b] = s_grad[b]
        BY <1>2, <1>9, <3>2, <3>3 DEF Types
      <4>2. t \notin Of(b)
        BY <1>2, <3>3, BlockFacts
      <4>3. Of(b) \cap Counted' = Of(b) \cap Counted
        BY <1>11, <4>2
      <4> QED
        BY <3>1, <4>1, <4>3
    <3>4. CASE b = t[1]
      <4>1. Of(b) \cap Counted' = (Of(b) \cap Counted) \cup {t}
        BY <1>2, <1>11, <3>4, BlockFacts
      <4>2. IndicesOf(Of(b) \cap Counted') = IndicesOf(Of(b) \cap Counted) \cup {g}
        BY <2>1, <4>1
      <4>3. CASE j # k
        <5>1. s_grad'[b][Padded(j)] = s_grad[b][Padded(j)]
          BY <1>2, <1>9, <3>2, <4>3 DEF Types
        <5>2. BOffset(g) # j
          BY <4>3 DEF k
        <5> QED
          BY <3>1, <4>2, <5>1, <5>2 DEF For
      <4>4. CASE j = k
        <5>1. s_grad'[b][Padded(j)] = Plus(s_grad[b][Padded(j)], {g})
          BY <1>2, <1>9, <3>2, <3>4, <4>4 DEF Types
        <5>2. g \notin IndicesOf(Of(b) \cap Counted)
          <6>1. Of(b) \cap Counted \subseteq Working /\ t \notin Of(b) \cap Counted
            BY <1>8 DEF Counted
          <6> QED
            BY <1>2, <6>1, BlockFacts DEF g
        <5>3. Plus(s_grad[b][Padded(j)], {g}) = s_grad[b][Padded(j)] \cup {g}
          BY <3>1, <5>2 DEF Plus, For
        <5>4. BOffset(g) = j
          BY <4>4 DEF k
        <5> QED
          BY <3>1, <4>2, <5>1, <5>3, <5>4 DEF For
      <4> QED
        BY <4>3, <4>4
    <3> QED
      BY <3>3, <3>4
  <2>4. \A b \in 0 .. Grid - 1, j \in BElements :
          phase[<<b, j % BlockThreads>>] = "done" => work'[b][j] = For(j, IndicesOf(Of(b)))
    BY <1>1, <1>4 DEF HistSums
  <2>5. \A b \in 0 .. Grid - 1, j \in BElements :
          phase'[<<b, Padded(j) % BlockThreads>>] # "zero" =>
            s_grad'[b][Padded(j)] = For(j, IndicesOf(Of(b) \cap Counted'))
    BY <1>1, <2>3
  <2>6. \A b \in 0 .. Grid - 1, j \in BElements :
          phase'[<<b, j % BlockThreads>>] = "done" => work'[b][j] = For(j, IndicesOf(Of(b)))
    BY <1>1, <2>4
  <2> QED
    BY <1>1, <2>2, <2>5, <2>6, HistSumsNext
<1>15. HistReduced'
  <2>1. ~KernelEnded
    BY <1>1 DEF KernelEnded
  <2> QED
    BY <1>1, <1>4, <2>1, HistReducedKept
<1> QED
  BY <1>1, <1>3, <1>12, <1>13, <1>14, <1>15, HistKeeps

LEMMA EndCountKeeps ==
    ASSUME Inv, NEW t \in Threads, EndCount(t)
    PROVE  Inv'
<1>1. /\ phase[t] = "count" /\ HistSynced(t, "zero") /\ stride[t] >= NumElements
      /\ phase' = [phase EXCEPT ![t] = "flush"]
      /\ UNCHANGED <<call, stride, reg, s_offset, s_grad, work, todo, outB_accum,
                     output_a, output_b>>
  BY DEF EndCount, MayCount
<1>2. Types /\ t \in Working /\ "count" \in PhasesOf(DecidePath) /\ call \in Launches
  BY <1>1, Launched DEF Inv, Types
<1>3. DecidePath = "TwoPassHist" /\ "flush" \in PhasesOf(DecidePath)
  BY <1>2, Paths DEF PhasesOf
<1>4. HistSteps /\ HistSums /\ HistReduced
  BY <1>3 DEF Inv, Histograms
<1>5. OnPath' /\ phase' \in [Threads -> {"store", "warp", "load", "tree", "merge", "zero",
                                         "count", "flush", "done"}]
  BY <1>1, <1>2, <1>3, PhaseKept
<1>6. Types'
  BY <1>1, <1>2, <1>5, CallStays DEF Types
<1>7. ASSUME NEW u \in Working
      PROVE  /\ u # t => phase'[u] = phase[u]
             /\ u = t => phase'[u] = "flush"
  BY <1>1, <1>2, ThreadFacts DEF Types
<1>8. Counted' = Counted
  <2>1. Counted' = {u \in Working : phase'[u] # "zero" /\ stride[u] # GlobalIdx(u)}
    BY <1>1, CallStays DEF Counted
  <2> QED
    BY <1>1, <1>7, <2>1 DEF Counted
<1>9. InBounds(t) => t \in Counted
  <2>1. GlobalIdx(t) \in Nat /\ NumElements \in Nat
    BY <1>2, GlobalIdxFacts, CallFacts
  <2>2. InBounds(t) => stride[t] # GlobalIdx(t)
    BY <1>1, <2>1 DEF InBounds
  <2> QED
    BY <1>1, <1>2, <2>2 DEF Counted
<1>10. HistSteps'
  <2>1. ASSUME NEW u \in Working
        PROVE  /\ phase'[u] # "zero" =>
                    stride[u] \in {GlobalIdx(u), GlobalIdx(u) + Grid * BlockThreads}
               /\ u \in Counted => InBounds(u)
               /\ phase'[u] = "zero" =>
                    \A v \in BlockOf(u) : phase'[v] \in {"zero", "count"} /\ v \notin Counted
               /\ phase'[u] \in {"flush", "done"} /\ InBounds(u) => u \in Counted
               /\ phase'[u] = "done" => \A v \in BlockOf(u) : phase'[v] \in {"flush", "done"}
    <3>1. \A v \in BlockOf(u) : v \in Working
      BY <1>2, SlotFacts
    <3>2. phase[u] = "zero" => t \notin BlockOf(u)
      <4>1. t \in BlockOf(u) => u \in BlockOf(t)
        BY <1>2, SlotFacts
      <4> QED
        BY <1>1, <4>1 DEF HistSynced
    <3>3. /\ phase'[u] # "zero" =>
                stride[u] \in {GlobalIdx(u), GlobalIdx(u) + Grid * BlockThreads}
          /\ u \in Counted => InBounds(u)
      BY <1>1, <1>4, <1>7 DEF HistSteps
    <3>4. phase'[u] = "zero" =>
             \A v \in BlockOf(u) : phase'[v] \in {"zero", "count"} /\ v \notin Counted
      BY <1>4, <1>7, <3>1, <3>2 DEF HistSteps
    <3>5. phase'[u] \in {"flush", "done"} /\ InBounds(u) => u \in Counted
      BY <1>4, <1>7, <1>9 DEF HistSteps
    <3>6. phase'[u] = "done" => \A v \in BlockOf(u) : phase'[v] \in {"flush", "done"}
      BY <1>4, <1>7, <3>1 DEF HistSteps
    <3> QED
      BY <3>3, <3>4, <3>5, <3>6
  <2> QED
    BY <1>1, <1>8, <2>1, CallStays DEF HistSteps
<1>11. HistSums'
  <2>1. ASSUME NEW b \in 0 .. Grid - 1, NEW k \in BElements
        PROVE  /\ phase'[<<b, Padded(k) % BlockThreads>>] # "zero" =>
                    s_grad'[b][Padded(k)] = For(k, IndicesOf(Of(b) \cap Counted'))
               /\ phase'[<<b, k % BlockThreads>>] = "done" =>
                    work'[b][k] = For(k, IndicesOf(Of(b)))
    <3>1. <<b, Padded(k) % BlockThreads>> \in Working /\ <<b, k % BlockThreads>> \in Working
      BY <1>2, <1>3, BinFacts, ThreadFacts
    <3>2. /\ phase'[<<b, Padded(k) % BlockThreads>>] # "zero" =>
               phase[<<b, Padded(k) % BlockThreads>>] # "zero"
          /\ phase'[<<b, k % BlockThreads>>] = "done" => phase[<<b, k % BlockThreads>>] = "done"
      BY <1>1, <1>7, <3>1
    <3> QED
      BY <1>1, <1>4, <1>8, <3>2 DEF HistSums
  <2>2. output_a' = IndicesOf(Counted')
    BY <1>1, <1>4, <1>8 DEF HistSums
  <2> QED
    BY <1>1, <2>1, <2>2, HistSumsNext
<1>12. HistReduced'
  <2>1. ~KernelEnded
    BY <1>1 DEF KernelEnded
  <2> QED
    BY <1>1, <1>4, <2>1, HistReducedKept
<1> QED
  BY <1>1, <1>3, <1>5, <1>6, <1>10, <1>11, <1>12, HistKeeps

(* All of the block has counted when one of its threads writes its bins.     *)
LEMMA FlushKeeps ==
    ASSUME Inv, NEW t \in Threads, Flush(t)
    PROVE  Inv'
<1>1. /\ phase[t] = "flush" /\ HistSynced(t, "count")
      /\ phase' = [phase EXCEPT ![t] = "done"]
      /\ work' = [work EXCEPT ![t[1]] = [k \in BElements |->
                    IF k \in Bins(t) THEN s_grad[t[1]][Padded(k)] ELSE work[t[1]][k]]]
      /\ UNCHANGED <<call, stride, reg, s_offset, s_grad, todo, outB_accum,
                     output_a, output_b>>
  <2>1. t[1] \in Blocks
    BY DEF Threads
  <2> QED
    BY <2>1 DEF Flush, Inv, Types
<1>2. Types /\ t \in Working /\ "flush" \in PhasesOf(DecidePath) /\ call \in Launches
  BY <1>1, Launched DEF Inv, Types
<1>3. DecidePath = "TwoPassHist" /\ "done" \in PhasesOf(DecidePath)
  BY <1>2, Paths DEF PhasesOf
<1>4. HistSteps /\ HistSums /\ HistReduced
  BY <1>3 DEF Inv, Histograms
<1>5. OnPath' /\ phase' \in [Threads -> {"store", "warp", "load", "tree", "merge", "zero",
                                         "count", "flush", "done"}]
  BY <1>1, <1>2, <1>3, PhaseKept
<1>6. t[1] \in Blocks /\ t = <<t[1], t[2]>>
  BY <1>2, ThreadFacts
<1>7. Types'
  <2>1. \A k \in BElements : s_grad[t[1]][Padded(k)] \in SUBSET (Indices \cup {Twice})
    BY <1>2, <1>3, <1>6, BinFacts DEF Types
  <2>2. work' \in [Blocks -> [BElements -> SUBSET (Indices \cup {Twice})]]
    BY <1>1, <1>2, <1>6, <2>1 DEF Types
  <2> QED
    BY <1>1, <1>2, <1>5, <2>2, CallStays DEF Types
<1>8. ASSUME NEW u \in Working
      PROVE  /\ u # t => phase'[u] = phase[u]
             /\ u = t => phase'[u] = "done"
  BY <1>1, <1>2, ThreadFacts DEF Types
<1>9. Counted' = Counted
  <2>1. Counted' = {u \in Working : phase'[u] # "zero" /\ stride[u] # GlobalIdx(u)}
    BY <1>1, CallStays DEF Counted
  <2> QED
    BY <1>1, <1>8, <2>1 DEF Counted
<1>10. ASSUME NEW u \in BlockOf(t)
       PROVE  u \in Working /\ phase[u] \in {"flush", "done"} /\ (InBounds(u) => u \in Counted)
  <2>1. u \in Working /\ t \in BlockOf(u)
    BY <1>2, SlotFacts
  <2>2. phase[u] \in {"zero", "count", "flush", "done"}
    BY <1>3, <2>1 DEF Inv, OnPath, PhasesOf
  <2>3. phase[u] # "count"
    BY <1>1 DEF HistSynced
  <2>4. phase[u] # "zero"
    BY <1>1, <1>4, <2>1 DEF HistSteps
  <2>5. phase[u] \in {"flush", "done"}
    BY <2>2, <2>3, <2>4
  <2> QED
    BY <1>4, <2>1, <2>5 DEF HistSteps
<1>11. HistSteps'
  <2>1. ASSUME NEW u \in Working
        PROVE  /\ phase'[u] # "zero" =>
                    stride[u] \in {GlobalIdx(u), GlobalIdx(u) + Grid * BlockThreads}
               /\ u \in Counted => InBounds(u)
               /\ phase'[u] = "zero" =>
                    \A v \in BlockOf(u) : phase'[v] \in {"zero", "count"} /\ v \notin Counted
               /\ phase'[u] \in {"flush", "done"} /\ InBounds(u) => u \in Counted
               /\ phase'[u] = "done" => \A v \in BlockOf(u) : phase'[v] \in {"flush", "done"}
    <3>1. \A v \in BlockOf(u) : v \in Working
      BY <1>2, SlotFacts
    <3>2. phase[u] = "zero" => t \notin BlockOf(u)
      BY <1>1, <1>4 DEF HistSteps
    <3>3. /\ phase'[u] # "zero" =>
                stride[u] \in {GlobalIdx(u), GlobalIdx(u) + Grid * BlockThreads}
          /\ u \in Counted => InBounds(u)
      BY <1>1, <1>4, <1>8 DEF HistSteps
    <3>4. phase'[u] = "zero" =>
             \A v \in BlockOf(u) : phase'[v] \in {"zero", "count"} /\ v \notin Counted
      BY <1>4, <1>8, <3>1, <3>2 DEF HistSteps
    <3>5. phase'[u] \in {"flush", "done"} /\ InBounds(u) => u \in Counted
      BY <1>1, <1>4, <1>8 DEF HistSteps
    <3>6. phase'[u] = "done" => \A v \in BlockOf(u) : phase'[v] \in {"flush", "done"}
      BY <1>4, <1>8, <1>10, <3>1 DEF HistSteps
    <3> QED
      BY <3>3, <3>4, <3>5, <3>6
  <2> QED
    BY <1>1, <1>9, <2>1, CallStays DEF HistSteps
<1>12. HistSums'
  <2>1. ASSUME NEW b \in 0 .. Grid - 1, NEW k \in BElements,
               phase'[<<b, Padded(k) % BlockThreads>>] # "zero"
        PROVE  s_grad'[b][Padded(k)] = For(k, IndicesOf(Of(b) \cap Counted'))
    <3>1. <<b, Padded(k) % BlockThreads>> \in Working
      BY <1>2, <1>3, BinFacts, ThreadFacts
    <3>2. phase[<<b, Padded(k) % BlockThreads>>] # "zero"
      BY <1>1, <1>8, <2>1, <3>1
    <3> QED
      BY <1>1, <1>4, <1>9, <3>2 DEF HistSums
  <2>2. ASSUME NEW b \in 0 .. Grid - 1, NEW k \in BElements,
               phase'[<<b, k % BlockThreads>>] = "done"
        PROVE  work'[b][k] = For(k, IndicesOf(Of(b)))
    <3> DEFINE z == <<b, k % BlockThreads>>
    <3>1. /\ z \in Working /\ <<b, Padded(k) % BlockThreads>> \in Working /\ z[1] = b /\ b \in Blocks
          /\ <<b, Padded(k) % BlockThreads>>[1] = b
      BY <1>2, <1>3, BinFacts, ThreadFacts
    <3>2. CASE z = t
      <4>1. b = t[1] /\ k \in Bins(t)
        BY <3>1, <3>2 DEF Bins
      <4>2. work'[b][k] = s_grad[b][Padded(k)]
        BY <1>1, <1>2, <3>1, <4>1 DEF Types
      <4>3. <<b, Padded(k) % BlockThreads>> \in BlockOf(t)
        BY <1>2, <3>1, <4>1, SlotFacts
      <4>4. s_grad[b][Padded(k)] = For(k, IndicesOf(Of(b) \cap Counted))
        <5>1. phase[<<b, Padded(k) % BlockThreads>>] # "zero"
          BY <1>10, <4>3
        <5> QED
          BY <1>4, <5>1 DEF HistSums
      <4>5. IndicesOf(Of(b) \cap Counted) = IndicesOf(Of(b))
        <5>1. Of(b) = BlockOf(t)
          BY <1>2, <4>1, BlockFacts
        <5> QED
          BY <1>10, <5>1 DEF IndicesOf
      <4> QED
        BY <4>2, <4>4, <4>5
    <3>3. CASE z # t
      <4>1. b # t[1] \/ k \notin Bins(t)
        BY <1>6, <3>3 DEF Bins
      <4>2. work'[b][k] = work[b][k]
        BY <1>1, <1>2, <1>6, <3>1, <4>1 DEF Types
      <4>3. phase[z] = "done"
        BY <1>8, <2>2, <3>1, <3>3
      <4> QED
        BY <1>4, <4>2, <4>3 DEF HistSums
    <3> QED
      BY <3>2, <3>3
  <2>3. output_a' = IndicesOf(Counted')
    BY <1>1, <1>4, <1>9 DEF HistSums
  <2> QED
    BY <1>1, <2>1, <2>2, <2>3, HistSumsNext
<1>13. HistReduced'
  <2>1. ~KernelEnded
    BY <1>1 DEF KernelEnded
  <2> QED
    BY <1>1, <1>4, <2>1, HistReducedKept
<1> QED
  BY <1>1, <1>3, <1>5, <1>7, <1>11, <1>12, <1>13, HistKeeps

-----------------------------------------------------------------------------
(* The second kernel: a row for each block of the first, in tiles.           *)

LEMMA MinOfTwo ==
    ASSUME NEW a \in Int, NEW b \in Int
    PROVE  Min({a, b}) = IF a <= b THEN a ELSE b
BY DEF Min

LEMMA RowsFacts ==
    ASSUME call \in Launches
    PROVE  /\ \A x \in Tiles : Rows(x) \subseteq 0 .. Grid - 1
           /\ \A x, y \in Tiles : x # y => Rows(x) \cap Rows(y) = {}
           /\ UNION {Rows(x) : x \in Tiles} = 0 .. Grid - 1
<1>1. Grid \in Nat /\ TileHeight \in Nat \ {0}
  BY CallFacts, SizesAssumption
<1> DEFINE h == TileHeight
<1>2. CeilDiv(Grid, h) \in Nat /\ Grid <= CeilDiv(Grid, h) * h
  BY <1>1, CeilDivCovers
<1>3. ASSUME NEW x \in Tiles
      PROVE  /\ x \in Nat /\ x < CeilDiv(Grid, h) /\ x * h \in Nat
             /\ Rows(x) = {r \in Nat : x * h <= r /\ r < x * h + h /\ r < Grid}
  <2>1. x \in Nat /\ x < CeilDiv(Grid, h)
    BY <1>2 DEF Tiles
  <2>2. x * h \in Nat /\ (x + 1) * h = x * h + h /\ x * h + h \in Nat
    BY <1>1, <2>1
  <2>3. Min({x * h + h, Grid}) = IF x * h + h <= Grid THEN x * h + h ELSE Grid
    BY <1>1, <2>2, MinOfTwo
  <2>4. Rows(x) = x * h .. Min({x * h + h, Grid}) - 1
    BY <2>2 DEF Rows
  <2> QED
    BY <1>1, <2>1, <2>2, <2>3, <2>4
<1>4. \A x \in Tiles : Rows(x) \subseteq 0 .. Grid - 1
  BY <1>1, <1>3
<1>5. ASSUME NEW x \in Tiles, NEW y \in Tiles, x < y
      PROVE  Rows(x) \cap Rows(y) = {}
  <2>1. x * h + h <= y * h
    BY <1>1, <1>3, <1>5, TimesOrdered
  <2> QED
    BY <1>1, <1>3, <2>1
<1>6. \A x, y \in Tiles : x # y => Rows(x) \cap Rows(y) = {}
  BY <1>3, <1>5
<1>7. ASSUME NEW r \in 0 .. Grid - 1
      PROVE  \E x \in Tiles : r \in Rows(x)
  <2> DEFINE q == r \div h
  <2>1. r \in Nat /\ r < Grid
    BY <1>1
  <2>2. q \in Nat /\ h * q <= r /\ r < h * q + h
    BY <1>1, <2>1, Division
  <2> HIDE DEF q
  <2>3. h * q = q * h /\ q * h \in Nat
    BY <1>1, <2>2
  <2>4. q < CeilDiv(Grid, h)
    <3>1. SUFFICES ASSUME CeilDiv(Grid, h) <= q PROVE FALSE
      BY <1>2, <2>2
    <3>2. CeilDiv(Grid, h) * h <= q * h
      <4>1. CASE CeilDiv(Grid, h) = q
        BY <2>3, <4>1
      <4>2. CASE CeilDiv(Grid, h) < q
        BY <1>1, <1>2, <2>2, <4>2, TimesOrdered
      <4> QED
        BY <1>2, <2>2, <3>1, <4>1, <4>2
    <3>3. CeilDiv(Grid, h) * h \in Nat
      BY <1>1, <1>2
    <3> QED
      BY <1>1, <1>2, <2>1, <2>2, <2>3, <3>2, <3>3
  <2>5. q \in Tiles
    BY <1>2, <2>2, <2>4 DEF Tiles
  <2>6. r \in Rows(q)
    BY <1>3, <2>1, <2>2, <2>3, <2>5
  <2> QED
    BY <2>5, <2>6
<1>8. UNION {Rows(x) : x \in Tiles} = 0 .. Grid - 1
  BY <1>4, <1>7
<1> QED
  BY <1>4, <1>6, <1>8

(* The blocks divide the elements of the output among them.                  *)
LEMMA BlocksDivide ==
    ASSUME call \in Launches, NEW k
    PROVE  /\ \A b, c \in 0 .. Grid - 1 : b # c =>
                For(k, IndicesOf(Of(b))) \cap For(k, IndicesOf(Of(c))) = {}
           /\ UNION {For(k, IndicesOf(Of(b))) : b \in 0 .. Grid - 1} = For(k, Indices)
<1>1. ASSUME NEW b \in 0 .. Grid - 1, NEW c \in 0 .. Grid - 1, b # c
      PROVE  For(k, IndicesOf(Of(b))) \cap For(k, IndicesOf(Of(c))) = {}
  <2>1. Of(b) \cap Of(c) = {} /\ Of(b) \subseteq Working /\ Of(c) \subseteq Working
    BY <1>1, BlockFacts DEF Of
  <2>2. IndicesOf(Of(b)) \cap IndicesOf(Of(c)) = {}
    BY <2>1, GlobalIdxFacts DEF IndicesOf
  <2> QED
    BY <2>2 DEF For
<1>2. ASSUME NEW b \in 0 .. Grid - 1
      PROVE  For(k, IndicesOf(Of(b))) \subseteq For(k, Indices)
  <2>1. IndicesOf(Of(b)) \subseteq Indices
    BY BlockFacts
  <2> QED
    BY <2>1 DEF For
<1>3. ASSUME NEW i \in For(k, Indices)
      PROVE  \E b \in 0 .. Grid - 1 : i \in For(k, IndicesOf(Of(b)))
  <2>1. i \in Indices /\ BOffset(i) = k
    BY DEF For
  <2>2. PICK t \in Working : GlobalIdx(t) = i
    BY <2>1, GlobalIdxFacts
  <2>3. t \in Of(t[1]) /\ t[1] \in 0 .. Grid - 1 /\ InBounds(t)
    BY <2>1, <2>2, BlockFacts, ThreadFacts, GlobalIdxFacts
  <2>4. i \in IndicesOf(Of(t[1]))
    BY <2>2, <2>3 DEF IndicesOf
  <2> QED
    BY <2>1, <2>3, <2>4 DEF For
<1> QED
  BY <1>1, <1>2, <1>3

(* What a column of the workspace adds up to.                                *)
LEMMA SumOfBlocks ==
    ASSUME Inv, DecidePath = "TwoPassHist", KernelEnded, NEW k \in BElements,
           NEW D \in SUBSET (0 .. Grid - 1)
    PROVE  Sum([b \in Blocks |-> work[b][k]], D) = UNION {For(k, IndicesOf(Of(b))) : b \in D}
<1> DEFINE w == [b \in Blocks |-> work[b][k]]
<1>1. HistSums /\ call \in Launches
  BY DEF Inv, Histograms, Types
<1>2. ASSUME NEW b \in D
      PROVE  w[b] = For(k, IndicesOf(Of(b)))
  <2>1. b \in 0 .. Grid - 1
    OBVIOUS
  <2>2. b \in Blocks
    BY <1>1, <2>1, CallFacts DEF Blocks
  <2>3. <<b, k % BlockThreads>> \in Threads
    BY <1>1, <2>1, BinFacts, ThreadFacts
  <2>4. phase[<<b, k % BlockThreads>>] = "done"
    BY <2>3 DEF KernelEnded
  <2>5. work[b][k] = For(k, IndicesOf(Of(b)))
    BY <1>1, <2>1, <2>4 DEF HistSums
  <2> QED
    BY <2>2, <2>5
<1> HIDE DEF w
<1>3. \A b, c \in D : b # c => w[b] \cap w[c] = {}
  BY <1>1, <1>2, BlocksDivide
<1>4. Sum(w, D) = UNION {w[b] : b \in D}
  BY <1>3 DEF Sum
<1>5. UNION {w[b] : b \in D} = UNION {For(k, IndicesOf(Of(b))) : b \in D}
  BY <1>2
<1> QED
  BY <1>4, <1>5 DEF w

(* The reductions leave what the threads did as it is.                       *)
LEMMA ReductionKeeps ==
    ASSUME Inv, DecidePath = "TwoPassHist", todo' \subseteq todo,
           UNCHANGED <<call, phase, stride, reg, s_offset, s_grad, work, output_a>>,
           outB_accum' \in [BElements -> SUBSET (Indices \cup {Twice})],
           output_b' \in [BElements -> SUBSET (Indices \cup {Twice})],
           HistReduced'
    PROVE  Inv'
<1>1. Types' /\ OnPath'
  BY CallStays DEF Inv, Types, OnPath, PhasesOf
<1>2. Counted' = Counted /\ HistSteps /\ HistSums
  BY CallStays DEF Counted, Inv, Histograms
<1>3. HistSteps'
  BY <1>2, CallStays DEF HistSteps
<1>4. HistSums'
  <2>1. output_a' = IndicesOf(Counted')
    BY <1>2 DEF HistSums
  <2>2. \A b \in 0 .. Grid - 1, k \in BElements :
           phase'[<<b, Padded(k) % BlockThreads>>] # "zero" =>
             s_grad'[b][Padded(k)] = For(k, IndicesOf(Of(b) \cap Counted'))
    BY <1>2 DEF HistSums
  <2>3. \A b \in 0 .. Grid - 1, k \in BElements :
           phase'[<<b, k % BlockThreads>>] = "done" => work'[b][k] = For(k, IndicesOf(Of(b)))
    BY <1>2 DEF HistSums
  <2> QED
    BY <2>1, <2>2, <2>3, HistSumsNext
<1> QED
  BY <1>1, <1>3, <1>4, HistKeeps

(* What is to be shown of the reductions after a step.                       *)
LEMMA HistReducedNext ==
    ASSUME UNCHANGED <<call, phase>>, KernelEnded,
           NEW rows, \A k \in BElements : RowsDone(k)' = rows[k],
           \A k \in BElements :
             IF Use2D
             THEN /\ outB_accum'[k] = UNION {For(k, IndicesOf(Of(b))) : b \in rows[k]}
                  /\ <<"cast", k, 0>> \in todo' => output_b'[k] = {}
                  /\ <<"cast", k, 0>> \notin todo' => /\ output_b'[k] = outB_accum'[k]
                                                     /\ todo' \subseteq {"cast"} \X BElements \X {0}
             ELSE output_b'[k] = IF <<"1D", k, 0>> \in todo' THEN {} ELSE For(k, Indices)
    PROVE  HistReduced'
<1>1. /\ \A k, b : For(k, IndicesOf(Of(b)))' = For(k, IndicesOf(Of(b)))
      /\ \A k : For(k, Indices)' = For(k, Indices)
      /\ BElements' = BElements /\ (Use2D' <=> Use2D)
  BY CallStays DEF For, IndicesOf, Of, InBounds, GlobalIdx
<1>2. KernelEnded'
  BY DEF KernelEnded
<1> QED
  BY <1>1, <1>2 DEF HistReduced

LEMMA Reduce1DKeeps ==
    ASSUME Inv, NEW k \in BElements, Reduce1D(k)
    PROVE  Inv'
<1>1. /\ KernelEnded /\ <<"1D", k, 0>> \in todo /\ todo' = todo \ {<<"1D", k, 0>>}
      /\ output_b' = [output_b EXCEPT ![k] =
                        Sum([b \in Blocks |-> work[b][k]], 0 .. Grid - 1)]
      /\ UNCHANGED <<call, phase, stride, reg, s_offset, s_grad, work, outB_accum, output_a>>
  BY DEF Reduce1D
<1>2. Types /\ call \in Launches /\ <<"1D", k, 0>> \in Cells
  BY <1>1 DEF Inv, Types
<1>3. DecidePath = "TwoPassHist" /\ ~Use2D
  BY <1>2, Paths DEF Cells
<1>4. HistReduced
  BY <1>3 DEF Inv, Histograms
<1>5. output_b' = [output_b EXCEPT ![k] = For(k, Indices)]
  <2>1. Sum([b \in Blocks |-> work[b][k]], 0 .. Grid - 1) =
        UNION {For(k, IndicesOf(Of(b))) : b \in 0 .. Grid - 1}
    BY <1>1, <1>3, SumOfBlocks
  <2> QED
    BY <1>1, <1>2, <2>1, BlocksDivide
<1>6. For(k, Indices) \in SUBSET (Indices \cup {Twice})
  BY DEF For
<1>7. output_b' \in [BElements -> SUBSET (Indices \cup {Twice})]
  BY <1>2, <1>5, <1>6 DEF Types
<1>8. HistReduced'
  <2>1. ASSUME NEW j \in BElements
        PROVE  output_b'[j] = IF <<"1D", j, 0>> \in todo' THEN {} ELSE For(j, Indices)
    <3>1. output_b[j] = IF <<"1D", j, 0>> \in todo THEN {} ELSE For(j, Indices)
      BY <1>3, <1>4 DEF HistReduced
    <3>2. CASE j = k
      BY <1>1, <1>2, <1>5, <3>2 DEF Types
    <3>3. CASE j # k
      <4>1. <<"1D", j, 0>> # <<"1D", k, 0>>
        BY <3>3
      <4> QED
        BY <1>1, <1>2, <1>5, <3>1, <3>3, <4>1 DEF Types
    <3> QED
      BY <3>2, <3>3
  <2>2. PICK rows : rows = [j \in BElements |-> RowsDone(j)']
    OBVIOUS
  <2>3. \A j \in BElements : RowsDone(j)' = rows[j]
    BY <2>2
  <2> QED
    BY <1>1, <1>3, <2>1, <2>3, HistReducedNext
<1>9. outB_accum' \in [BElements -> SUBSET (Indices \cup {Twice})]
  BY <1>1, <1>2 DEF Types
<1> QED
  BY <1>1, <1>3, <1>7, <1>8, <1>9, ReductionKeeps

(* The rows of a tile are added once, and before anything is cast.           *)
LEMMA Reduce2DKeeps ==
    ASSUME Inv, NEW k \in BElements, NEW tile \in Tiles, Reduce2D(k, tile)
    PROVE  Inv'
<1> DEFINE add == UNION {For(k, IndicesOf(Of(b))) : b \in Rows(tile)}
<1>1. /\ KernelEnded /\ <<"2D", k, tile>> \in todo /\ todo' = todo \ {<<"2D", k, tile>>}
      /\ outB_accum' = [outB_accum EXCEPT ![k] =
                          Plus(@, Sum([b \in Blocks |-> work[b][k]], Rows(tile)))]
      /\ UNCHANGED <<call, phase, stride, reg, s_offset, s_grad, work, output_a, output_b>>
  BY DEF Reduce2D
<1>2. Types /\ call \in Launches /\ <<"2D", k, tile>> \in Cells
  BY <1>1 DEF Inv, Types
<1>3. DecidePath = "TwoPassHist" /\ Use2D
  BY <1>2, Paths DEF Cells
<1>4. HistReduced
  BY <1>3 DEF Inv, Histograms
<1>5. Rows(tile) \in SUBSET (0 .. Grid - 1)
  BY <1>2, RowsFacts
<1>6. Sum([b \in Blocks |-> work[b][k]], Rows(tile)) = add
  BY <1>1, <1>3, <1>5, SumOfBlocks
<1>7. outB_accum[k] = UNION {For(k, IndicesOf(Of(b))) : b \in RowsDone(k)}
  BY <1>3, <1>4 DEF HistReduced
<1>8. RowsDone(k) \subseteq 0 .. Grid - 1 /\ RowsDone(k) \cap Rows(tile) = {}
  <2>1. ASSUME NEW r \in RowsDone(k)
        PROVE  r \in 0 .. Grid - 1 /\ r \notin Rows(tile)
    <3>1. PICK x \in Tiles : <<"2D", k, x>> \notin todo /\ r \in Rows(x)
      BY DEF RowsDone
    <3>2. x # tile
      BY <1>1, <3>1
    <3>3. Rows(x) \subseteq 0 .. Grid - 1 /\ Rows(x) \cap Rows(tile) = {}
      BY <1>2, <3>2, RowsFacts
    <3> QED
      BY <3>1, <3>3
  <2> QED
    BY <2>1
<1>9. outB_accum[k] \cap add = {}
  <2>1. SUFFICES ASSUME NEW i, i \in outB_accum[k], i \in add PROVE FALSE
    OBVIOUS
  <2>2. PICK b \in RowsDone(k) : i \in For(k, IndicesOf(Of(b)))
    BY <1>7, <2>1
  <2>3. PICK c \in Rows(tile) : i \in For(k, IndicesOf(Of(c)))
    BY <2>1
  <2>4. b \in 0 .. Grid - 1 /\ c \in 0 .. Grid - 1 /\ b # c
    BY <1>5, <1>8
  <2>5. For(k, IndicesOf(Of(b))) \cap For(k, IndicesOf(Of(c))) = {}
    BY <1>2, <2>4, BlocksDivide
  <2> QED
    BY <2>2, <2>3, <2>5
<1> HIDE DEF add
<1>10. outB_accum' = [outB_accum EXCEPT ![k] = outB_accum[k] \cup add]
  BY <1>1, <1>2, <1>6, <1>9 DEF Plus, Types
<1>11. add \in SUBSET Indices
  <2>1. \A b \in 0 .. Grid - 1 : IndicesOf(Of(b)) \subseteq Indices
    BY <1>2, BlockFacts
  <2> QED
    BY <1>5, <2>1 DEF For, add
<1>12. outB_accum' \in [BElements -> SUBSET (Indices \cup {Twice})]
  <2>1. outB_accum[k] \cup add \in SUBSET (Indices \cup {Twice})
    BY <1>2, <1>11 DEF Types
  <2> QED
    BY <1>2, <1>10, <2>1 DEF Types
<1>13. HistReduced'
  <2> DEFINE rows == [j \in BElements |-> IF j = k THEN RowsDone(k) \cup Rows(tile)
                                          ELSE RowsDone(j)]
  <2>1. ASSUME NEW j \in BElements
        PROVE  RowsDone(j)' = rows[j]
    <3>1. RowsDone(j)' = UNION {Rows(x) : x \in {y \in Tiles : <<"2D", j, y>> \notin todo'}}
      BY <1>1, CallStays DEF RowsDone
    <3>2. CASE j = k
      <4>1. {y \in Tiles : <<"2D", k, y>> \notin todo'} =
            {y \in Tiles : <<"2D", k, y>> \notin todo} \cup {tile}
        BY <1>1
      <4> QED
        BY <3>1, <3>2, <4>1 DEF RowsDone
    <3>3. CASE j # k
      <4>1. {y \in Tiles : <<"2D", j, y>> \notin todo'} =
            {y \in Tiles : <<"2D", j, y>> \notin todo}
        BY <1>1, <3>3
      <4> QED
        BY <3>1, <3>3, <4>1 DEF RowsDone
    <3> QED
      BY <3>2, <3>3
  <2>2. ASSUME NEW j \in BElements
        PROVE  outB_accum'[j] = UNION {For(j, IndicesOf(Of(b))) : b \in rows[j]}
    <3>1. outB_accum[j] = UNION {For(j, IndicesOf(Of(b))) : b \in RowsDone(j)}
      BY <1>3, <1>4 DEF HistReduced
    <3>2. CASE j = k
      <4>1. outB_accum'[j] = outB_accum[k] \cup add
        BY <1>2, <1>10, <3>2 DEF Types
      <4>2. rows[j] = RowsDone(k) \cup Rows(tile)
        BY <3>2
      <4> QED
        BY <3>1, <3>2, <4>1, <4>2 DEF add
    <3>3. CASE j # k
      BY <1>2, <1>10, <3>1, <3>3 DEF Types
    <3> QED
      BY <3>2, <3>3
  <2>3. ASSUME NEW j \in BElements
        PROVE  <<"cast", j, 0>> \in todo' /\ output_b'[j] = {}
    <3>1. <<"cast", j, 0>> \in todo /\ output_b[j] = {}
      <4>1. <<"2D", k, tile>> \notin {"cast"} \X BElements \X {0}
        OBVIOUS
      <4> QED
        BY <1>1, <1>3, <1>4, <4>1 DEF HistReduced
    <3> QED
      BY <1>1, <3>1
  <2> HIDE DEF rows
  <2>4. \A j \in BElements : RowsDone(j)' = rows[j]
    BY <2>1
  <2>5. ASSUME NEW j \in BElements
        PROVE  IF Use2D
               THEN /\ outB_accum'[j] = UNION {For(j, IndicesOf(Of(b))) : b \in rows[j]}
                    /\ <<"cast", j, 0>> \in todo' => output_b'[j] = {}
                    /\ <<"cast", j, 0>> \notin todo' => /\ output_b'[j] = outB_accum'[j]
                                                       /\ todo' \subseteq {"cast"} \X BElements \X {0}
               ELSE output_b'[j] = IF <<"1D", j, 0>> \in todo' THEN {} ELSE For(j, Indices)
    BY <1>3, <2>2, <2>3
  <2>6. UNCHANGED <<call, phase>> /\ KernelEnded
    BY <1>1
  <2> QED
    BY ONLY <2>4, <2>5, <2>6, HistReducedNext
<1>14. output_b' \in [BElements -> SUBSET (Indices \cup {Twice})]
  BY <1>1, <1>2 DEF Types
<1> QED
  BY <1>1, <1>3, <1>12, <1>13, <1>14, ReductionKeeps

LEMMA CastFloatToTKeeps ==
    ASSUME Inv, NEW k \in BElements, CastFloatToT(k)
    PROVE  Inv'
<1>1. /\ KernelEnded /\ <<"cast", k, 0>> \in todo /\ todo' = todo \ {<<"cast", k, 0>>}
      /\ todo \subseteq {"cast"} \X BElements \X {0}
      /\ output_b' = [output_b EXCEPT ![k] = outB_accum[k]]
      /\ UNCHANGED <<call, phase, stride, reg, s_offset, s_grad, work, outB_accum, output_a>>
  BY DEF CastFloatToT
<1>2. Types /\ call \in Launches /\ <<"cast", k, 0>> \in Cells
  BY <1>1 DEF Inv, Types
<1>3. DecidePath = "TwoPassHist" /\ Use2D
  BY <1>2, Paths DEF Cells
<1>4. HistReduced
  BY <1>3 DEF Inv, Histograms
<1>5. /\ output_b' \in [BElements -> SUBSET (Indices \cup {Twice})]
      /\ outB_accum' \in [BElements -> SUBSET (Indices \cup {Twice})]
  BY <1>1, <1>2 DEF Types
<1>6. HistReduced'
  <2> DEFINE rows == [j \in BElements |-> RowsDone(j)]
  <2>1. \A j \in BElements : RowsDone(j)' = rows[j]
    <3>1. \A j, x : <<"2D", j, x>> \notin todo /\ <<"2D", j, x>> \notin todo'
      BY <1>1
    <3> QED
      BY <1>1, <3>1, CallStays DEF RowsDone
  <2>2. ASSUME NEW j \in BElements
        PROVE  /\ outB_accum'[j] = UNION {For(j, IndicesOf(Of(b))) : b \in rows[j]}
               /\ <<"cast", j, 0>> \in todo' => output_b'[j] = {}
               /\ <<"cast", j, 0>> \notin todo' => /\ output_b'[j] = outB_accum'[j]
                                                  /\ todo' \subseteq {"cast"} \X BElements \X {0}
    <3>1. /\ outB_accum[j] = UNION {For(j, IndicesOf(Of(b))) : b \in RowsDone(j)}
          /\ <<"cast", j, 0>> \in todo => output_b[j] = {}
          /\ <<"cast", j, 0>> \notin todo => output_b[j] = outB_accum[j]
      BY <1>3, <1>4 DEF HistReduced
    <3>2. CASE j = k
      BY <1>1, <1>2, <3>1, <3>2 DEF Types
    <3>3. CASE j # k
      <4>1. <<"cast", j, 0>> # <<"cast", k, 0>>
        BY <3>3
      <4> QED
        BY <1>1, <1>2, <3>1, <3>3, <4>1 DEF Types
    <3> QED
      BY <3>2, <3>3
  <2> HIDE DEF rows
  <2> QED
    BY <1>1, <1>3, <2>1, <2>2, HistReducedNext
<1> QED
  BY <1>1, <1>3, <1>5, <1>6, ReductionKeeps

-----------------------------------------------------------------------------
(* The invariant holds for ever.                                             *)

LEMMA InvInit == Init => Inv
<1> SUFFICES ASSUME Init PROVE Inv
  OBVIOUS
<1>1. call \in Launches /\ Working \subseteq Threads
  BY ThreadFacts DEF Init
<1>2. phase = [t \in Threads |-> IF t \in Working THEN FirstPhase ELSE "done"]
  BY <1>1, ThreadFacts DEF Init
<1>3. FirstPhase \in PhasesOf(DecidePath) /\ FirstPhase \in {"store", "warp", "load", "zero"}
      /\ (DecidePath = "TwoPassHist" => FirstPhase = "zero")
      /\ (DecidePath = "BlockReduce" => FirstPhase = "load")
  BY Paths DEF FirstPhase, PhasesOf
<1>4. \A t \in Working : phase[t] = FirstPhase
  BY <1>1, <1>2
<1>5. Types
  <2>1. phase \in [Threads -> {"store", "warp", "load", "tree", "merge", "zero", "count",
                              "flush", "done"}]
    BY <1>2, <1>3
  <2> QED
    BY <1>1, <2>1 DEF Init, Types
<1>6. OnPath
  BY <1>1, <1>2, <1>3 DEF OnPath
<1>7. DecidePath \in {"Fast", "NoBroadcast", "Warp"} => Placed
  <2>1. IndicesOf({t \in Working : phase[t] = "done"}) = {}
    BY <1>3, <1>4 DEF IndicesOf
  <2> QED
    BY <2>1 DEF Init, Placed, For
<1>8. DecidePath = "BlockReduce" => Tree
  <2> SUFFICES ASSUME DecidePath = "BlockReduce" PROVE Tree
    OBVIOUS
  <2>1. \A t \in Working : phase[t] = "load"
    BY <1>3, <1>4
  <2>2. Loaded = {}
    BY <2>1 DEF Loaded
  <2>3. Live = {}
    BY <1>2, <1>3 DEF Live
  <2>4. TreeSteps
    BY <1>1, <2>1 DEF TreeSteps, Init
  <2>5. TreeSums
    BY <2>2, <2>3 DEF Init, TreeSums, IndicesOf
  <2> QED
    BY <2>4, <2>5 DEF Tree
<1>9. DecidePath = "TwoPassHist" => Histograms
  <2> SUFFICES ASSUME DecidePath = "TwoPassHist" PROVE Histograms
    OBVIOUS
  <2>1. \A t \in Working : phase[t] = "zero"
    BY <1>3, <1>4
  <2>2. Counted = {}
    BY <2>1 DEF Counted
  <2>3. HistSteps
    <3>1. \A t \in Working : \A u \in BlockOf(t) : u \in Working
      BY <1>1, SlotFacts
    <3> QED
      BY <2>1, <2>2, <3>1 DEF HistSteps
  <2>4. HistSums
    <3>1. \A b \in 0 .. Grid - 1, k \in BElements :
            /\ <<b, Padded(k) % BlockThreads>> \in Working
            /\ <<b, k % BlockThreads>> \in Working
      BY <1>1, BinFacts, ThreadFacts
    <3>2. output_a = IndicesOf(Counted)
      BY <2>2 DEF Init, IndicesOf
    <3> QED
      BY <2>1, <3>1, <3>2 DEF HistSums
  <2>5. HistReduced
    <3>1. todo = Cells
      BY DEF Init
    <3>2. ASSUME NEW k \in BElements, Use2D
          PROVE  /\ outB_accum[k] = UNION {For(k, IndicesOf(Of(b))) : b \in RowsDone(k)}
                 /\ <<"cast", k, 0>> \in todo /\ output_b[k] = {}
      <4>1. \A x \in Tiles : <<"2D", k, x>> \in todo
        BY <3>1, <3>2 DEF Cells
      <4>2. RowsDone(k) = {}
        BY <4>1 DEF RowsDone
      <4> QED
        BY <3>1, <3>2, <4>2 DEF Cells, Init
    <3>3. ASSUME NEW k \in BElements, ~Use2D
          PROVE  output_b[k] = {} /\ <<"1D", k, 0>> \in todo
      BY <3>1, <3>3 DEF Cells, Init
    <3> QED
      BY <3>1, <3>2, <3>3 DEF HistReduced
  <2> QED
    BY <2>3, <2>4, <2>5 DEF Histograms
<1> QED
  BY <1>5, <1>6, <1>7, <1>8, <1>9 DEF Inv

LEMMA InvStutter ==
    ASSUME Inv, UNCHANGED vars
    PROVE  Inv'
<1>1. /\ UNCHANGED call /\ phase' = phase /\ stride' = stride /\ reg' = reg
      /\ s_offset' = s_offset /\ s_grad' = s_grad /\ work' = work /\ todo' = todo
      /\ outB_accum' = outB_accum /\ output_a' = output_a /\ output_b' = output_b
  BY DEF vars
<1>2. Types' /\ OnPath' /\ (Placed' <=> Placed)
  BY <1>1, CallStays DEF Inv, Types, OnPath, PhasesOf, Placed, IndicesOf, For
<1>3. ASSUME Tree PROVE Tree'
  <2>1. Live' = Live /\ Loaded' = Loaded
    BY <1>1, CallStays DEF Live, Loaded, Slot, Padded
  <2>2. TreeSums'
    BY <1>1, <1>3, <2>1, TreeSumsKept DEF Tree
  <2>3. \A t : /\ Offset(t)' = Offset(t) /\ Gradient(t)' = Gradient(t)
              /\ Offset(Partner(t))' = Offset(Partner(t))
              /\ Gradient(Partner(t))' = Gradient(Partner(t)) /\ (Merges(t)' <=> Merges(t))
    BY <1>1, CallStays DEF Offset, Gradient, Slot, Padded, Partner, Merges
  <2>4. TreeSteps'
    BY <1>1, <1>3, <2>3, CallStays DEF Tree, TreeSteps
  <2> QED
    BY <2>2, <2>4 DEF Tree
<1>4. ASSUME Histograms PROVE Histograms'
  <2>1. Counted' = Counted /\ HistSteps /\ HistSums /\ HistReduced
    BY <1>1, <1>4, CallStays DEF Counted, Histograms
  <2>2. HistSteps'
    BY <1>1, <2>1, CallStays DEF HistSteps
  <2>3. HistSums'
    <3>1. output_a' = IndicesOf(Counted')
      BY <1>1, <2>1 DEF HistSums
    <3>2. \A b \in 0 .. Grid - 1, k \in BElements :
            phase'[<<b, Padded(k) % BlockThreads>>] # "zero" =>
              s_grad'[b][Padded(k)] = For(k, IndicesOf(Of(b) \cap Counted'))
      BY <1>1, <2>1 DEF HistSums
    <3>3. \A b \in 0 .. Grid - 1, k \in BElements :
            phase'[<<b, k % BlockThreads>>] = "done" => work'[b][k] = For(k, IndicesOf(Of(b)))
      BY <1>1, <2>1 DEF HistSums
    <3> QED
      BY <1>1, <3>1, <3>2, <3>3, HistSumsNext
  <2>4. HistReduced'
    <3>1. CASE ~KernelEnded
      BY <1>1, <2>1, <3>1, HistReducedKept
    <3>2. CASE KernelEnded
      <4> DEFINE rows == [k \in BElements |-> RowsDone(k)]
      <4>1. \A k \in BElements : RowsDone(k)' = rows[k]
        BY <1>1, CallStays DEF RowsDone
      <4>2. \A k \in BElements : rows[k] = RowsDone(k)
        OBVIOUS
      <4> HIDE DEF rows
      <4> QED
        BY <1>1, <2>1, <3>2, <4>1, <4>2, HistReducedNext DEF HistReduced
    <3> QED
      BY <3>1, <3>2
  <2> QED
    BY <2>2, <2>3, <2>4 DEF Histograms
<1> QED
  BY <1>1, <1>2, <1>3, <1>4, CallStays DEF Inv

LEMMA InvStep == Inv /\ [Next]_vars => Inv'
<1> SUFFICES ASSUME Inv, [Next]_vars PROVE Inv'
  OBVIOUS
<1>1. CASE Reduction
  <2>1. PICK k \in BElements : \/ Reduce1D(k) \/ CastFloatToT(k)
                              \/ \E tile \in Tiles : Reduce2D(k, tile)
    BY <1>1 DEF Reduction
  <2> QED
    BY <2>1, Reduce1DKeeps, CastFloatToTKeeps, Reduce2DKeeps
<1>2. CASE Warp
  BY <1>2, WarpReduceKeeps DEF Warp
<1>3. ASSUME NEW t \in Threads, Thread(t) PROVE Inv'
  BY <1>3, StoreDirectKeeps, LoadKeeps, SkipKeeps, ReadKeeps, MergeKeeps, AddKeeps, ZeroKeeps,
     CountKeeps, EndCountKeeps, FlushKeeps DEF Thread
<1>4. CASE UNCHANGED vars
  BY <1>4, InvStutter
<1> QED
  BY <1>1, <1>2, <1>3, <1>4 DEF Next

LEMMA InvAlways == Spec => []Inv
<1> QED
  BY InvInit, InvStep, PTL DEF Spec

-----------------------------------------------------------------------------
(* What the invariant says of the sums.                                      *)

LEMMA ZeroedBeforeCounted ==
    ASSUME Inv, NEW t \in Threads, NEW k \in BElements, MayCount(t)
    PROVE  s_grad[t[1]][Padded(k)] \in SUBSET Indices
<1>1. /\ call \in Launches /\ phase[t] = "count"
      /\ \A u \in BlockOf(t) : phase[u] # "zero"
  BY DEF Inv, Types, MayCount, HistSynced
<1>2. t \in Working /\ "count" \in PhasesOf(DecidePath)
  BY <1>1, Launched
<1>3. DecidePath = "TwoPassHist"
  BY <1>2, Paths DEF PhasesOf
<1>4. HistSums
  BY <1>3 DEF Inv, Histograms
<1> DEFINE z == <<t[1], Padded(k) % BlockThreads>>
<1>5. t[1] \in 0 .. Grid - 1 /\ z \in Working /\ z[1] = t[1]
  BY <1>1, <1>2, <1>3, BinFacts, ThreadFacts
<1>6. phase[z] # "zero"
  BY <1>1, <1>2, <1>5, SlotFacts
<1>7. s_grad[t[1]][Padded(k)] = For(k, IndicesOf(Of(t[1]) \cap Counted))
  BY <1>4, <1>5, <1>6 DEF HistSums
<1>8. IndicesOf(Of(t[1]) \cap Counted) \subseteq Indices
  <2>1. Of(t[1]) \cap Counted \subseteq Working
    BY DEF Counted
  <2> QED
    BY <1>1, <2>1, BlockFacts
<1> QED
  BY <1>7, <1>8 DEF For

(* Elements of B leave unset as they are stored to.                          *)
LEMMA UnfilledStep ==
    ASSUME Inv, Unfilled, [Next]_vars
    PROVE  Unfilled'
<1>1. call \in Launches
  BY DEF Inv, Types
<1>2. ASSUME UNCHANGED call, UNCHANGED unset, output_a' = output_a \/ DecidePath = "Warp" \/ NeedsBroadcast
      PROVE  Unfilled'
  BY <1>2, CallStays DEF Unfilled
<1>3. ASSUME UNCHANGED call, DecidePath \in {"BlockReduce", "TwoPassHist"}, unset' \subseteq unset
      PROVE  Unfilled'
  <2>1. NeedsBroadcast
    BY <1>1, <1>3, SameShapes
  <2> QED
    BY <1>3, <2>1, CallStays DEF Unfilled
<1>4. CASE Reduction
  <2>1. PICK k \in BElements : \/ Reduce1D(k) \/ CastFloatToT(k)
                              \/ \E tile \in Tiles : Reduce2D(k, tile)
    BY <1>4 DEF Reduction
  <2>2. UNCHANGED call /\ unset' \subseteq unset /\ todo # {}
    BY <2>1 DEF Reduce1D, CastFloatToT, Reduce2D
  <2>3. DecidePath = "TwoPassHist"
    BY <2>2, Paths DEF Inv, Types
  <2> QED
    BY <1>3, <2>2, <2>3
<1>5. ASSUME NEW b \in Blocks, NEW w, WarpReduce(b, w) PROVE Unfilled'
  <2>1. PICK t \in Lanes(b, w) : phase[t] = "warp"
    BY <1>5 DEF WarpReduce
  <2>2. t \in Threads
    <3>1. BlockThreads \in 1 .. MaxBlock /\ MaxBlock \in Nat
      BY <1>1, CallFacts
    <3> QED
      BY <3>1 DEF Lanes, Threads, Tids
  <2>3. DecidePath = "Warp"
    BY <2>1, <2>2, Launched, Paths DEF PhasesOf
  <2> QED
    BY <1>2, <1>5, <2>3 DEF WarpReduce
<1>6. ASSUME NEW t \in Threads, StoreDirect(t) PROVE Unfilled'
  <2>1. t \in Working /\ DecidePath \in {"Fast", "NoBroadcast"}
    <3>1. phase[t] = "store"
      BY <1>6 DEF StoreDirect
    <3> QED
      BY <3>1, Launched, Paths DEF PhasesOf
  <2>2. /\ UNCHANGED call
        /\ ~InBounds(t) => UNCHANGED <<output_a, unset>>
        /\ InBounds(t) => /\ output_a' = output_a \cup {GlobalIdx(t)}
                          /\ unset' = unset \ {BOffset(GlobalIdx(t))}
    BY <1>6 DEF StoreDirect
  <2>3. CASE ~InBounds(t)
    BY <1>2, <2>2, <2>3
  <2>4. CASE InBounds(t)
    <3>1. BOffset(GlobalIdx(t)) = GlobalIdx(t)
      <4>1. GlobalIdx(t) \in Indices /\ call.b_shape = call.out_shape
        BY <1>1, <2>1, <2>4, GlobalIdxFacts, SameShapes, Paths
      <4> QED
        BY <1>1, <4>1, CallFacts
    <3> QED
      BY <2>1, <2>2, <2>4, <3>1, CallStays DEF Unfilled
  <2> QED
    BY <2>3, <2>4
<1>7. ASSUME NEW t \in Threads, \/ Load(t) \/ Skip(t) \/ Read(t) \/ Merge(t) \/ Add(t)
                                \/ Zero(t) \/ Count(t) \/ EndCount(t) \/ Flush(t)
      PROVE  Unfilled'
  <2>1. /\ UNCHANGED <<call, unset>>
        /\ phase[t] \in {"load", "tree", "merge", "zero", "count", "flush"}
    BY <1>7 DEF Load, Skip, Read, Merge, Add, Zero, Count, EndCount, Flush, InLoop, MayCount
  <2>2. DecidePath \in {"BlockReduce", "TwoPassHist"}
    BY <2>1, Launched, Paths DEF PhasesOf
  <2> QED
    BY <1>3, <2>1, <2>2
<1>8. CASE UNCHANGED vars
  BY <1>2, <1>8 DEF vars
<1> QED
  BY <1>4, <1>5, <1>6, <1>7, <1>8 DEF Next, Thread, Warp

LEMMA UnfilledAlways == Spec => []Unfilled
<1>1. Init => Unfilled
  <2> SUFFICES ASSUME Init PROVE Unfilled
    OBVIOUS
  <2>1. output_a = {} /\ unset = IF NeedsBroadcast THEN {} ELSE BElements
    BY DEF Init
  <2>2. BElements \ {} = BElements
    OBVIOUS
  <2> QED
    BY <2>1, <2>2 DEF Unfilled
<1>2. Inv /\ Unfilled /\ [Next]_vars => Unfilled'
  BY UnfilledStep
<1> QED
  BY <1>1, <1>2, InvAlways, PTL DEF Spec

LEMMA InvTypeOK == Inv /\ Unfilled => TypeOK
BY ZeroedBeforeCounted DEF Inv, Types, Unfilled, TypeOK

(* Only the tree has slots to add.                                           *)
LEMMA LiveInTree ==
    ASSUME Inv, NEW t \in Live
    PROVE  TreeSums /\ t \in Working
<1>1. t \in Threads /\ phase[t] \in {"tree", "merge"}
  BY DEF Live
<1>2. t \in Working /\ phase[t] \in PhasesOf(DecidePath)
  BY <1>1, Launched
<1>3. DecidePath = "BlockReduce"
  BY <1>1, <1>2, Paths DEF PhasesOf
<1> QED
  BY <1>2, <1>3 DEF Inv, Tree

LEMMA ResultsInPlace ==
    ASSUME Inv, NEW k \in BElements, NEW i \in output_b[k]
    PROVE  i \in Indices /\ BOffset(i) = k
<1>1. Types /\ call \in Launches
  BY DEF Inv, Types
<1>2. CASE DecidePath \in {"Fast", "NoBroadcast", "Warp"}
  <2>1. output_b[k] = For(k, output_a) /\ output_a \subseteq Indices
    BY <1>1, <1>2 DEF Inv, Placed, Types
  <2> QED
    BY <2>1 DEF For
<1>3. CASE DecidePath = "BlockReduce"
  BY <1>1, <1>3 DEF Inv, Tree, TreeSums, Types
<1>4. CASE DecidePath = "TwoPassHist"
  <2>1. HistReduced
    BY <1>4 DEF Inv, Histograms
  <2>2. CASE ~Use2D
    <3>1. output_b[k] \subseteq For(k, Indices)
      BY <2>1, <2>2 DEF HistReduced
    <3> QED
      BY <3>1 DEF For
  <2>3. CASE Use2D
    <3>1. output_b[k] = UNION {For(k, IndicesOf(Of(b))) : b \in RowsDone(k)}
      BY <2>1, <2>3 DEF HistReduced
    <3>2. PICK b \in RowsDone(k) : i \in For(k, IndicesOf(Of(b)))
      BY <3>1
    <3>3. b \in 0 .. Grid - 1
      BY <1>1, RowsFacts DEF RowsDone
    <3>4. IndicesOf(Of(b)) \subseteq Indices
      BY <1>1, <3>3, BlockFacts
    <3> QED
      BY <3>2, <3>4 DEF For
  <2> QED
    BY <2>2, <2>3
<1> QED
  BY <1>2, <1>3, <1>4, Paths

(* Nothing is added twice, and each contribution goes to its own element: in *)
(* the tree, a slot that one thread has merged is cleared before another     *)
(* thread can add it (the barrier between the steps of the loop).            *)
THEOREM ContributionsOnTheirWay == Spec => []EachOnItsWay
<1>1. Inv /\ Unfilled => EachOnItsWay
  <2> SUFFICES ASSUME Inv, Unfilled PROVE EachOnItsWay
    OBVIOUS
  <2>1. Types /\ call \in Launches /\ \A i \in Indices : i # Twice
    BY CallFacts DEF Inv, Types, Indices, Twice
  <2>2. ASSUME NEW t \in Live
        PROVE  /\ \A i \in Gradient(t) : i # Twice /\ BOffset(i) = Offset(t)
               /\ Gradient(t) \cap output_b[Offset(t)] = {}
               /\ \A u \in Live \ {t} : Gradient(t) \cap Gradient(u) = {}
    <3>1. TreeSums /\ output_a \subseteq Indices
      BY <2>1, LiveInTree DEF Types
    <3> QED
      BY <2>1, <3>1 DEF TreeSums
  <2>3. \A k \in BElements : \A i \in output_b[k] : i # Twice /\ BOffset(i) = k
    BY <2>1, ResultsInPlace
  <2> QED
    BY <2>2, <2>3, InvTypeOK DEF EachOnItsWay, Offset, Gradient
<1> QED
  BY <1>1, InvAlways, UnfilledAlways, PTL

(* When the kernels of the call have ended, each element of B has all of its *)
(* contributions and each element of A its gradient, whichever way was       *)
(* taken; they were added to zeros or stored, but for a float gradient that  *)
(* is not contiguous on equal shapes.                                        *)
THEOREM GradientsAreComplete == Spec => []GradientComplete
<1>1. Inv /\ Unfilled => GradientComplete
  <2> SUFFICES ASSUME Inv, Unfilled, Finished
               PROVE  /\ output_a = Indices
                      /\ \A k \in BElements : output_b[k] = For(k, Indices)
    <3>1. ASSUME Inv, Unfilled, output_a = Indices, unset # {}
          PROVE  call.type = "float" /\ call.same_dims /\ ~ call.contiguous
      <4>1. call \in Launches /\ ~NeedsBroadcast
        BY <3>1 DEF Inv, Types, Unfilled
      <4>2. BElements \ Indices = {}
        <5>1. call.b_shape = call.out_shape
          BY <4>1, SameShapes
        <5>2. BElements = Indices
          BY <5>1 DEF BElements, Indices, BNumElements, NumElements
        <5> QED
          BY <5>2
      <4>3. DecidePath = "Warp"
        BY <3>1, <4>1, <4>2 DEF Unfilled
      <4> QED
        BY <4>1, <4>3, SameShapes
    <3> QED
      BY <3>1 DEF GradientComplete, For
  <2>1. Types /\ call \in Launches /\ todo = {} /\ KernelEnded
    BY DEF Inv, Types, Finished
  <2>2. Working \subseteq Threads /\ \A t \in Working : phase[t] = "done"
    BY <2>1, ThreadFacts DEF KernelEnded
  <2>3. IndicesOf(Working) = Indices
    BY <2>1, GlobalIdxFacts DEF IndicesOf
  <2>4. CASE DecidePath \in {"Fast", "NoBroadcast", "Warp"}
    <3>1. {t \in Working : phase[t] = "done"} = Working
      BY <2>2
    <3> QED
      BY <2>3, <2>4, <3>1 DEF Inv, Placed
  <2>5. CASE DecidePath = "BlockReduce"
    <3>1. TreeSums
      BY <2>5 DEF Inv, Tree
    <3>2. Loaded = Working /\ Live = {}
      BY <2>1, <2>2 DEF Loaded, Live, KernelEnded
    <3>3. output_a = Indices
      BY <2>3, <3>1, <3>2 DEF TreeSums
    <3> QED
      BY <3>1, <3>2, <3>3 DEF TreeSums, For
  <2>6. CASE DecidePath = "TwoPassHist"
    <3>1. HistSteps /\ HistSums /\ HistReduced
      BY <2>6 DEF Inv, Histograms
    <3>2. IndicesOf(Counted) = IndicesOf(Working)
      <4>1. Counted \subseteq Working /\ \A t \in Working : InBounds(t) => t \in Counted
        BY <2>2, <3>1 DEF HistSteps, Counted
      <4> QED
        BY <4>1 DEF IndicesOf
    <3>3. output_a = Indices
      BY <2>3, <3>1, <3>2 DEF HistSums
    <3>4. ASSUME NEW k \in BElements
          PROVE  output_b[k] = For(k, Indices)
      <4>1. CASE ~Use2D
        BY <2>1, <3>1, <4>1 DEF HistReduced
      <4>2. CASE Use2D
        <5>1. output_b[k] = UNION {For(k, IndicesOf(Of(b))) : b \in RowsDone(k)}
          BY <2>1, <3>1, <4>2 DEF HistReduced
        <5>2. RowsDone(k) = UNION {Rows(x) : x \in Tiles}
          BY <2>1 DEF RowsDone
        <5>3. RowsDone(k) = 0 .. Grid - 1
          BY <2>1, <5>2, RowsFacts
        <5> QED
          BY <2>1, <5>1, <5>3, BlocksDivide
      <4> QED
        BY <4>1, <4>2
    <3> QED
      BY <3>3, <3>4
  <2> QED
    BY <2>4, <2>5, <2>6, Paths
<1> QED
  BY <1>1, InvAlways, UnfilledAlways, PTL

(* fastAtomicAdd, which adds to two neighbours at once, stays inside of the  *)
(* gradient of B: the last element of an odd one is added alone.             *)
THEOREM AtomicsStayInBounds == Spec => []AtomicsInBounds
<1>1. ASSUME Types, NEW index \in BElements
      PROVE  Touches(index) \subseteq BElements
  <2>1. BNumElements \in Nat
    BY <1>1, CallFacts DEF Types
  <2> QED
    BY <2>1 DEF Touches, BElements
<1>2. Inv => AtomicsInBounds
  <2> SUFFICES ASSUME Inv, NEW t \in Threads, phase[t] = "tree", AddsLeft(t)
               PROVE  Touches(s_offset[t[1]][Slot(t)]) \subseteq BElements
    BY DEF AtomicsInBounds
  <2>1. Types /\ call \in Launches /\ t \in Working
    BY Launched DEF Inv, Types
  <2>2. t[1] \in Blocks /\ Slot(t) \in Slots
    BY <2>1, SlotFacts
  <2>3. s_offset[t[1]][Slot(t)] \in BElements
    BY <2>1, <2>2 DEF Types, AddsLeft
  <2> QED
    BY <1>1, <2>1, <2>3
<1> QED
  BY <1>2, InvAlways, PTL

(* The threads of a block that are between their reads and their writes of   *)
(* one round touch different slots, and no thread of the block is past the   *)
(* barrier after the loop: the kernel's only unsynchronised accesses to      *)
(* shared memory do not race, for any block, whole warps or not.             *)
Touched(t) == {Slot(t), Slot(Partner(t))}

MergesApart ==
    \A t \in Threads : phase[t] = "merge" => \A u \in BlockOf(t) \ {t} :
        /\ phase[u] = "merge" => Touched(t) \cap Touched(u) = {}
        /\ phase[u] # "done" /\ ~(stride[u] >= BlockThreads /\ Synced(u))

THEOREM MergesDoNotRace == Spec => []MergesApart
<1>1. Inv => MergesApart
  <2> SUFFICES ASSUME Inv, NEW t \in Threads, phase[t] = "merge",
                      NEW u \in BlockOf(t) \ {t}
               PROVE  /\ phase[u] = "merge" => Touched(t) \cap Touched(u) = {}
                      /\ phase[u] # "done" /\ ~(stride[u] >= BlockThreads /\ Synced(u))
    BY DEF MergesApart
  <2>1. Types /\ call \in Launches /\ t \in Working /\ "merge" \in PhasesOf(DecidePath)
    BY Launched DEF Inv, Types
  <2>2. TreeSteps
    BY <2>1, Paths DEF PhasesOf, Inv, Tree
  <2>3. u \in Working /\ u[1] = t[1] /\ u # t /\ t \in BlockOf(u) /\ t \in BlockOf(t)
    BY <2>1, SlotFacts
  <2>4. /\ stride[t] \in Nat /\ stride[t] >= 1 /\ stride[t] < BlockThreads /\ Merges(t)
        /\ phase[u] \in {"tree", "merge"} /\ stride[u] >= stride[t] /\ stride[u] \in Nat
        /\ phase[u] = "merge" => stride[t] >= stride[u] /\ Merges(u) /\ stride[u] >= 1
    BY <2>1, <2>2, <2>3, ThreadFacts DEF TreeSteps, Types
  <2>5. ~(stride[u] >= BlockThreads /\ Synced(u))
    <3>1. BlockThreads \in Nat
      BY <2>1, CallFacts
    <3>2. Synced(u) => stride[t] >= stride[u]
      BY <2>3 DEF Synced
    <3> QED
      BY <2>4, <3>1, <3>2
  <2>6. ASSUME phase[u] = "merge" PROVE Touched(t) \cap Touched(u) = {}
    <3>1. stride[u] = stride[t] /\ Merges(u)
      BY <2>4, <2>6
    <3>2. /\ Partner(t) \in Working /\ Partner(t)[1] = t[1]
          /\ Partner(u) \in Working /\ Partner(u)[1] = u[1]
          /\ Partner(t) # u /\ Partner(u) # t /\ Partner(u) # Partner(t)
      BY <2>1, <2>3, <2>4, <3>1, PartnerFacts
    <3>3. \A v, w \in Working : v[1] = w[1] /\ Slot(v) = Slot(w) => v = w
      BY <2>1, SlotFacts
    <3> QED
      BY <2>1, <2>3, <3>2, <3>3 DEF Touched
  <2> QED
    BY <2>4, <2>5, <2>6
<1> QED
  BY <1>1, InvAlways, PTL

-----------------------------------------------------------------------------
(* MacaGemm: the places of the elements of matrices.                         *)

(* The number of two digits is below the product of their bounds.            *)
LEMMA TwoDigits ==
    ASSUME NEW c \in Nat, NEW d \in Nat, NEW a \in 0 .. c - 1, NEW i \in 0 .. d - 1
    PROVE  /\ a * d + i \in 0 .. c * d - 1
           /\ (a * d + i) \div d = a /\ (a * d + i) % d = i
<1> DEFINE n == a * d + i
<1>1. d \in Nat \ {0} /\ c * d \in Nat /\ n \in Nat /\ n < c * d
  <2>1. a * d + d <= c * d /\ a * d \in Nat /\ c * d \in Nat
    BY TimesOrdered
  <2> QED
    BY <2>1
<1> HIDE DEF n
<1>2. n = d * (n \div d) + (n % d) /\ n % d \in 0 .. d - 1 /\ n \div d \in Nat
  BY <1>1, Division
<1>3. n = (n \div d) * d + (n % d) /\ n = a * d + i
  BY <1>2 DEF n
<1>4. n \div d = a /\ n % d = i
  BY <1>1, <1>2, <1>3, Digits
<1> QED
  BY <1>1, <1>4 DEF n

(* A number below a product has one pair of digits.                          *)
LEMMA DigitsOf ==
    ASSUME NEW c \in Nat, NEW d \in Nat, NEW n \in 0 .. c * d - 1
    PROVE  /\ d \in Nat \ {0} /\ c \in Nat \ {0}
           /\ n \div d \in 0 .. c - 1 /\ n % d \in 0 .. d - 1 /\ n = (n \div d) * d + (n % d)
<1>1. d # 0 /\ c # 0
  OBVIOUS
<1>2. n \in Nat /\ c * d \in Nat /\ n < c * d
  OBVIOUS
<1>3. /\ n = d * (n \div d) + (n % d) /\ n % d \in 0 .. d - 1 /\ n \div d \in Nat
      /\ d * (n \div d) <= n
  BY <1>1, <1>2, Division
<1>4. n = (n \div d) * d + (n % d) /\ (n \div d) * d <= n
  BY <1>3
<1>5. ~(c < n \div d) /\ c # n \div d
  <2>1. c # n \div d
    BY <1>2, <1>4
  <2>2. ASSUME c < n \div d PROVE FALSE
    <3>1. c * d + d <= (n \div d) * d
      BY <1>3, <2>2, TimesOrdered
    <3> QED
      BY <1>2, <1>4, <3>1
  <2> QED
    BY <2>1, <2>2
<1> QED
  BY <1>1, <1>3, <1>4, <1>5

(* Where an element is, by its batch, column and row.                        *)
At(b, c, r, ld, gap) == b * gap + c * ld + r

(* The elements of some matrices, by their numbers.                          *)
Elements(batches, rows, cols) == 0 .. rows * cols * batches - 1
Number(b, c, r, rows, cols) == b * (rows * cols) + (c * rows + r)

(* Thread Number(b, c, r) of a kernel works at the place of that element.    *)
LEMMA ElementPlaces ==
    ASSUME NEW batches \in Nat, NEW rows \in Nat, NEW cols \in Nat,
           NEW b \in 0 .. batches - 1, NEW c \in 0 .. cols - 1, NEW r \in 0 .. rows - 1
    PROVE  /\ Number(b, c, r, rows, cols) \in Elements(batches, rows, cols)
           /\ \A ld, gap \in Nat :
                ElementAt(Number(b, c, r, rows, cols), rows, cols, ld, gap) = At(b, c, r, ld, gap)
<1> DEFINE e == c * rows + r
           s == rows * cols
           x == b * s + e
<1>1. e \in 0 .. s - 1 /\ e \div rows = c /\ e % rows = r
  <2>1. cols * rows = rows * cols
    OBVIOUS
  <2> QED
    BY <2>1, TwoDigits
<1>2. s \in Nat
  OBVIOUS
<1> HIDE DEF e, s
<1>3. x \in 0 .. batches * s - 1 /\ x \div s = b /\ x % s = e
  BY <1>1, <1>2, TwoDigits
<1>4. batches * s = s * batches
  BY <1>2
<1> HIDE DEF x
<1>5. ASSUME NEW ld \in Nat, NEW gap \in Nat
      PROVE  ElementAt(x, rows, cols, ld, gap) = At(b, c, r, ld, gap)
  BY <1>1, <1>3 DEF ElementAt, At, s
<1>6. x \in 0 .. rows * cols * batches - 1
  BY <1>3, <1>4 DEF s
<1> QED
  BY <1>5, <1>6 DEF x, s, e, Number, Elements

(* Each thread of a kernel has an element of its own.                        *)
LEMMA ElementDigits ==
    ASSUME NEW batches \in Nat, NEW rows \in Nat, NEW cols \in Nat,
           NEW x \in Elements(batches, rows, cols)
    PROVE  \E b \in 0 .. batches - 1, c \in 0 .. cols - 1, r \in 0 .. rows - 1 :
             x = Number(b, c, r, rows, cols)
<1> DEFINE s == rows * cols
           e == x % s
<1>1. s \in Nat /\ batches * s = s * batches /\ s = cols * rows
  OBVIOUS
<1> HIDE DEF s
<1>2. x \in 0 .. batches * s - 1
  BY <1>1 DEF s, Elements
<1>3. s \in Nat
  BY <1>1
<1>4. x \div s \in 0 .. batches - 1 /\ x % s \in 0 .. s - 1 /\ x = (x \div s) * s + (x % s)
  BY <1>2, <1>3, DigitsOf
<1> HIDE DEF e
<1>5. e \in 0 .. cols * rows - 1
  BY <1>1, <1>4 DEF e
<1>6. e \div rows \in 0 .. cols - 1 /\ e % rows \in 0 .. rows - 1 /\ e = (e \div rows) * rows + (e % rows)
  BY <1>5, DigitsOf
<1> QED
  BY <1>4, <1>6 DEF s, e, Number

(* Elements at the same place are the same, when columns and matrices do not *)
(* overlap.                                                                  *)
Spread(batches, rows, cols, ld, gap) == rows <= ld /\ (batches <= 1 \/ cols * ld <= gap)

Apart(batches, rows, cols, ld, gap) ==
    \A b, b2 \in 0 .. batches - 1, c, c2 \in 0 .. cols - 1, r, r2 \in 0 .. rows - 1 :
      At(b, c, r, ld, gap) = At(b2, c2, r2, ld, gap) => b = b2 /\ c = c2 /\ r = r2

(* Elements of matrices that do not overlap have places of their own.        *)
LEMMA PlacesApart ==
    ASSUME NEW batches \in Nat, NEW rows \in Nat, NEW cols \in Nat, NEW ld \in Nat, NEW gap \in Nat,
           Spread(batches, rows, cols, ld, gap)
    PROVE  Apart(batches, rows, cols, ld, gap)
<1> SUFFICES ASSUME NEW b \in 0 .. batches - 1, NEW c \in 0 .. cols - 1, NEW r \in 0 .. rows - 1,
                    NEW b2 \in 0 .. batches - 1, NEW c2 \in 0 .. cols - 1, NEW r2 \in 0 .. rows - 1,
                    At(b, c, r, ld, gap) = At(b2, c2, r2, ld, gap)
             PROVE  b = b2 /\ c = c2 /\ r = r2
  BY DEF Apart
<1>1. r \in 0 .. ld - 1 /\ r2 \in 0 .. ld - 1
  BY DEF Spread
<1>2. c * ld + r \in 0 .. cols * ld - 1 /\ c2 * ld + r2 \in 0 .. cols * ld - 1
  BY <1>1, TwoDigits
<1> DEFINE e == c * ld + r
           e2 == c2 * ld + r2
           s == cols * ld
<1>3. e \in 0 .. s - 1 /\ e2 \in 0 .. s - 1 /\ s \in Nat
  BY <1>2
<1>4. b * gap + e = b2 * gap + e2
  BY DEF At
<1> HIDE DEF e, e2, s
<1>5. b = b2 /\ e = e2
  <2>1. CASE batches <= 1
    <3>1. b = 0 /\ b2 = 0
      BY <2>1
    <3> QED
      BY <1>3, <1>4, <3>1
  <2>2. CASE s <= gap
    <3>1. e \in 0 .. gap - 1 /\ e2 \in 0 .. gap - 1
      BY <1>3, <2>2
    <3> QED
      BY <1>4, <3>1, Digits
  <2> QED
    BY <2>1, <2>2 DEF Spread, s
<1>6. c * ld + r = c2 * ld + r2
  BY <1>5 DEF e, e2
<1> QED
  BY <1>1, <1>5, <1>6, Digits

(***************************************************************************)
(* Memory.                                                                 *)
(***************************************************************************)
Buffers == Operands \cup {"promotedInput", "promotedOther", "promotedGrad", "output", "output2"} \cup Temporaries

(* A memory of the call j: its buffers, each of its type.                    *)
Shaped(M, j) ==
    /\ M = [b \in Buffers |-> M[b]]
    /\ \A b \in Buffers : /\ M[b] = [dtype |-> TypeOf(j, b), cells |-> M[b].cells]
                          /\ M[b].cells = [o \in DOMAIN M[b].cells |-> M[b].cells[o]]

(* The type of a buffer is the one of the call.                              *)
LEMMA TypeOfBuffer ==
    ASSUME NEW M, NEW j, Shaped(M, j), NEW b \in Buffers
    PROVE  M[b].dtype = TypeOf(j, b)
<1> DEFINE v == M[b]
           t == TypeOf(j, b)
           c == M[b].cells
<1>1. v = [dtype |-> t, cells |-> c]
  BY DEF Shaped
<1> HIDE DEF v, t, c
<1>2. v.dtype = t
  BY <1>1
<1> QED
  BY <1>2 DEF v, t

(* What is read in a memory.                                                 *)
ReadIn(M, buffer, dtype, o) ==
    IF o \in DOMAIN M[buffer].cells /\ M[buffer].dtype = dtype
    THEN M[buffer].cells[o]
    ELSE {{<<"misread", o>>}}

(* CellAt reads the memory as it is before the step.                         *)
LEMMA CellIsRead ==
    ASSUME NEW buffer, NEW dtype, NEW o
    PROVE  CellAt(buffer, dtype, o) = ReadIn(memory, buffer, dtype, o)
BY DEF CellAt, ReadIn

(* N is M after the cells at place[x] became value[x].                       *)
Leaves(j, M, N, buffer, place, value) ==
    /\ Shaped(N, j)
    /\ \A b \in Buffers \ {buffer} : N[b] = M[b]
    /\ \A x \in DOMAIN place : /\ place[x] \in DOMAIN N[buffer].cells
                               /\ N[buffer].cells[place[x]] = value[x]
    /\ \A o \in DOMAIN N[buffer].cells : o \in DOMAIN M[buffer].cells \/ \E x \in DOMAIN place : o = place[x]
    /\ \A o \in DOMAIN M[buffer].cells :
         /\ o \in DOMAIN N[buffer].cells
         /\ \/ \E x \in DOMAIN place : o = place[x]
            \/ N[buffer].cells[o] = M[buffer].cells[o]

(* Different places are written with a value each, and no others are.        *)
LEMMA ScatterCells ==
    ASSUME NEW place, NEW value, \A x, y \in DOMAIN place : place[x] = place[y] => x = y
    PROVE  /\ \A o \in DOMAIN Scatter(place, value) : \E x \in DOMAIN place : o = place[x]
           /\ \A x \in DOMAIN place : /\ place[x] \in DOMAIN Scatter(place, value)
                                      /\ Scatter(place, value)[place[x]] = value[x]
<1>1. DOMAIN Scatter(place, value) = {place[x] : x \in DOMAIN place}
  BY DEF Scatter
<1>2. ASSUME NEW x \in DOMAIN place PROVE Scatter(place, value)[place[x]] = value[x]
  <2>1. {y \in DOMAIN place : place[y] = place[x]} = {x}
    OBVIOUS
  <2>2. Scatter(place, value)[place[x]]
        = UNION {value[z] : z \in {y \in DOMAIN place : place[y] = place[x]}}
    BY DEF Scatter
  <2>3. UNION {value[z] : z \in {x}} = value[x]
    OBVIOUS
  <2> QED
    BY <2>1, <2>2, <2>3
<1> QED
  BY <1>1, <1>2

(* What a kernel of the buffer's type writes, and what it leaves alone.      *)
LEMMA Writes ==
    ASSUME NEW j, Shaped(memory, j), NEW buffer \in Buffers, NEW cells,
           Wrote(buffer, TypeOf(j, buffer), cells)
    PROVE  /\ Shaped(memory', j)
           /\ \A b \in Buffers \ {buffer} : memory'[b] = memory[b]
           /\ DOMAIN memory'[buffer].cells = DOMAIN cells \cup DOMAIN memory[buffer].cells
           /\ \A o \in DOMAIN cells : memory'[buffer].cells[o] = cells[o]
           /\ \A o \in DOMAIN memory[buffer].cells :
                o \notin DOMAIN cells => memory'[buffer].cells[o] = memory[buffer].cells[o]
<1> DEFINE old == memory[buffer]
           new == [o \in DOMAIN cells \cup DOMAIN old.cells |-> IF o \in DOMAIN cells THEN cells[o] ELSE old.cells[o]]
<1>1. old = [dtype |-> TypeOf(j, buffer), cells |-> old.cells] /\ memory = [b \in Buffers |-> memory[b]]
  BY DEF Shaped
<1>2. old.dtype = TypeOf(j, buffer)
  BY <1>1
<1>3. memory' = [memory EXCEPT ![buffer].cells = new]
  BY <1>2 DEF Wrote
<1> HIDE DEF new
<1>4. memory' = [b \in Buffers |-> IF b = buffer THEN [memory[b] EXCEPT !.cells = new] ELSE memory[b]]
  BY <1>1, <1>3
<1>5. memory'[buffer] = [dtype |-> TypeOf(j, buffer), cells |-> new]
  BY <1>1, <1>4
<1>6. \A b \in Buffers \ {buffer} : memory'[b] = memory[b]
  BY <1>4
<1>7. memory'[buffer].cells = new
  BY <1>5
<1>8. new = [o \in DOMAIN new |-> new[o]]
  BY DEF new
<1>9. Shaped(memory', j)
  <2>1. memory' = [b \in Buffers |-> memory'[b]]
    BY <1>4
  <2>2. ASSUME NEW b \in Buffers
        PROVE  /\ memory'[b] = [dtype |-> TypeOf(j, b), cells |-> memory'[b].cells]
               /\ memory'[b].cells = [o \in DOMAIN memory'[b].cells |-> memory'[b].cells[o]]
    <3>1. CASE b = buffer
      BY <1>5, <1>7, <1>8, <3>1
    <3>2. CASE b # buffer
      BY <1>6, <3>2 DEF Shaped
    <3> QED
      BY <3>1, <3>2
  <2> QED
    BY <2>1, <2>2 DEF Shaped
<1> QED
  BY <1>6, <1>7, <1>9 DEF new

(* The same, for values that are scattered to different places.              *)
LEMMA ScatterLeaves ==
    ASSUME NEW j, Shaped(memory, j), NEW buffer \in Buffers, NEW place, NEW value,
           \A x, y \in DOMAIN place : place[x] = place[y] => x = y,
           Wrote(buffer, TypeOf(j, buffer), Scatter(place, value))
    PROVE  Leaves(j, memory, memory', buffer, place, value)
<1> DEFINE cells == Scatter(place, value)
<1>0. \A x, y \in DOMAIN place : place[x] = place[y] => x = y
  OBVIOUS
<1>1. /\ \A o \in DOMAIN cells : \E x \in DOMAIN place : o = place[x]
      /\ \A x \in DOMAIN place : place[x] \in DOMAIN cells /\ cells[place[x]] = value[x]
  BY <1>0, ScatterCells
<1> HIDE DEF cells
<1>2. Wrote(buffer, TypeOf(j, buffer), cells)
  BY DEF cells
<1>3. /\ Shaped(memory', j)
      /\ \A b \in Buffers \ {buffer} : memory'[b] = memory[b]
      /\ DOMAIN memory'[buffer].cells = DOMAIN cells \cup DOMAIN memory[buffer].cells
      /\ \A o \in DOMAIN cells : memory'[buffer].cells[o] = cells[o]
      /\ \A o \in DOMAIN memory[buffer].cells :
           o \notin DOMAIN cells => memory'[buffer].cells[o] = memory[buffer].cells[o]
  BY <1>2, Writes
<1> QED
  BY <1>1, <1>3 DEF Leaves

(***************************************************************************)
(* Matrices in a memory.                                                   *)
(***************************************************************************)
InMatrix(o, batches, rows, cols, ld, gap) ==
    \E b \in 0 .. batches - 1, c \in 0 .. cols - 1, r \in 0 .. rows - 1 : o = At(b, c, r, ld, gap)

(* N is M but for the matrix in that buffer, among those buffers.            *)
Rewritten(j, M, N, others, buffer, batches, rows, cols, ld, gap) ==
    /\ Shaped(N, j)
    /\ \A x \in others : N[x] = M[x]
    /\ \A b \in 0 .. batches - 1, c \in 0 .. cols - 1, r \in 0 .. rows - 1 :
         At(b, c, r, ld, gap) \in DOMAIN N[buffer].cells
    /\ \A o \in DOMAIN N[buffer].cells :
         o \in DOMAIN M[buffer].cells \/ InMatrix(o, batches, rows, cols, ld, gap)
    /\ \A o \in DOMAIN M[buffer].cells :
         /\ o \in DOMAIN N[buffer].cells
         /\ InMatrix(o, batches, rows, cols, ld, gap) \/ N[buffer].cells[o] = M[buffer].cells[o]

(* The cells of a matrix are those values, by the numbers of its elements.    *)
Numbered(cells, value, batches, rows, cols, ld, gap) ==
    \A b \in 0 .. batches - 1, c \in 0 .. cols - 1, r \in 0 .. rows - 1 :
      cells[At(b, c, r, ld, gap)] = value[Number(b, c, r, rows, cols)]

(* A kernel with a thread for each element of the matrices.                  *)
LEMMA ElementsLeft ==
    ASSUME NEW j, Shaped(memory, j), NEW buffer \in Buffers, NEW value,
           NEW batches \in Nat, NEW rows \in Nat, NEW cols \in Nat, NEW ld \in Nat, NEW gap \in Nat,
           Spread(batches, rows, cols, ld, gap), 
           Wrote(buffer, TypeOf(j, buffer),
                 Scatter([x \in Elements(batches, rows, cols) |-> ElementAt(x, rows, cols, ld, gap)], value))
    PROVE  /\ Rewritten(j, memory, memory', Buffers \ {buffer}, buffer, batches, rows, cols, ld, gap)
           /\ Numbered(memory'[buffer].cells, value, batches, rows, cols, ld, gap)
<1> DEFINE S == Elements(batches, rows, cols)
           place == [x \in S |-> ElementAt(x, rows, cols, ld, gap)]
           number(b, c, r) == Number(b, c, r, rows, cols)
<1>1. ASSUME NEW x \in S
      PROVE  \E b \in 0 .. batches - 1, c \in 0 .. cols - 1, r \in 0 .. rows - 1 : x = number(b, c, r)
  BY <1>1, ElementDigits
<1>2. ASSUME NEW b \in 0 .. batches - 1, NEW c \in 0 .. cols - 1, NEW r \in 0 .. rows - 1
      PROVE  /\ number(b, c, r) \in S
             /\ \A l, s \in Nat : ElementAt(number(b, c, r), rows, cols, l, s) = At(b, c, r, l, s)
             /\ place[number(b, c, r)] = At(b, c, r, ld, gap)
  <2>1. /\ number(b, c, r) \in S
        /\ \A l, s \in Nat : ElementAt(number(b, c, r), rows, cols, l, s) = At(b, c, r, l, s)
    BY ElementPlaces
  <2> HIDE DEF number
  <2> QED
    BY <2>1
<1>3. DOMAIN place = S
  OBVIOUS
<1> HIDE DEF number, place, S
<1>4. ASSUME NEW x \in DOMAIN place, NEW y \in DOMAIN place, place[x] = place[y] PROVE x = y
  <2>1. PICK b \in 0 .. batches - 1, c \in 0 .. cols - 1, r \in 0 .. rows - 1 : x = number(b, c, r)
    BY <1>1, <1>3
  <2>2. PICK b2 \in 0 .. batches - 1, c2 \in 0 .. cols - 1, r2 \in 0 .. rows - 1 : y = number(b2, c2, r2)
    BY <1>1, <1>3
  <2>3. At(b, c, r, ld, gap) = At(b2, c2, r2, ld, gap)
    BY <1>2, <1>4, <2>1, <2>2
  <2>4. Apart(batches, rows, cols, ld, gap)
    BY PlacesApart
  <2>5. b = b2 /\ c = c2 /\ r = r2
    BY <2>3, <2>4 DEF Apart
  <2> QED
    BY <2>1, <2>2, <2>5
<1>5. Leaves(j, memory, memory', buffer, place, value)
  <2>1. Wrote(buffer, TypeOf(j, buffer), Scatter(place, value))
    BY DEF place, S
  <2>2. \A x, y \in DOMAIN place : place[x] = place[y] => x = y
    BY <1>4
  <2> QED
    BY <2>1, <2>2, ScatterLeaves
<1>6. ASSUME NEW o PROVE (\E x \in DOMAIN place : o = place[x]) <=> InMatrix(o, batches, rows, cols, ld, gap)
  <2>1. ASSUME NEW x \in DOMAIN place, o = place[x] PROVE InMatrix(o, batches, rows, cols, ld, gap)
    <3>1. PICK b \in 0 .. batches - 1, c \in 0 .. cols - 1, r \in 0 .. rows - 1 : x = number(b, c, r)
      BY <1>1, <1>3
    <3>2. o = At(b, c, r, ld, gap)
      BY <1>2, <2>1, <3>1
    <3> QED
      BY <3>2 DEF InMatrix
  <2>2. ASSUME InMatrix(o, batches, rows, cols, ld, gap) PROVE \E x \in DOMAIN place : o = place[x]
    <3>1. PICK b \in 0 .. batches - 1, c \in 0 .. cols - 1, r \in 0 .. rows - 1 :
            o = At(b, c, r, ld, gap)
      BY <2>2 DEF InMatrix
    <3> QED
      BY <1>2, <1>3, <3>1
  <2> QED
    BY <2>1, <2>2
<1>7. ASSUME NEW b \in 0 .. batches - 1, NEW c \in 0 .. cols - 1, NEW r \in 0 .. rows - 1
      PROVE  /\ At(b, c, r, ld, gap) \in DOMAIN memory'[buffer].cells
             /\ memory'[buffer].cells[At(b, c, r, ld, gap)] = value[number(b, c, r)]
  <2>1. number(b, c, r) \in DOMAIN place /\ place[number(b, c, r)] = At(b, c, r, ld, gap)
    BY <1>2, <1>3
  <2> QED
    BY <1>5, <2>1 DEF Leaves
<1>8. Rewritten(j, memory, memory', Buffers \ {buffer}, buffer, batches, rows, cols, ld, gap)
  <2>1. /\ Shaped(memory', j)
        /\ \A x \in Buffers \ {buffer} : memory'[x] = memory[x]
    BY <1>5 DEF Leaves
  <2>2. ASSUME NEW o \in DOMAIN memory'[buffer].cells
        PROVE  o \in DOMAIN memory[buffer].cells \/ InMatrix(o, batches, rows, cols, ld, gap)
    BY <1>5, <1>6 DEF Leaves
  <2>3. ASSUME NEW o \in DOMAIN memory[buffer].cells
        PROVE  /\ o \in DOMAIN memory'[buffer].cells
               /\ \/ InMatrix(o, batches, rows, cols, ld, gap)
                  \/ memory'[buffer].cells[o] = memory[buffer].cells[o]
    BY <1>5, <1>6 DEF Leaves
  <2> QED
    BY <1>7, <2>1, <2>2, <2>3 DEF Rewritten
<1> QED
  BY <1>7, <1>8 DEF number, Numbered

(* N has a copy of what is read in M.                                        *)
HoldsCopy(q, batches, M, N) ==
    \A b \in 0 .. batches - 1, c \in 0 .. q.cols - 1, r \in 0 .. q.rows - 1 :
      N[q.dst].cells[At(b, c, r, q.dstLd, q.dstStride)]
      = ReadIn(M, q.src, q.srcType, At(b, c, r, q.srcLd, q.srcStride))

(* CopyMatrix copies the matrices element by element.                        *)
LEMMA CopyMatrixLeaves ==
    ASSUME NEW j, Shaped(memory, j), NEW batches \in Nat, NEW q,
           q.rows \in Nat, q.cols \in Nat, q.srcLd \in Nat, q.dstLd \in Nat, q.srcStride \in Nat,
           q.dstStride \in Nat, q.count = q.rows * q.cols * batches,
           Spread(batches, q.rows, q.cols, q.dstLd, q.dstStride),
           q.dst \in Buffers, q.dstType = TypeOf(j, q.dst), CopyMatrix(q)
    PROVE  /\ Rewritten(j, memory, memory', Buffers \ {q.dst}, q.dst, batches, q.rows, q.cols, q.dstLd, q.dstStride)
           /\ HoldsCopy(q, batches, memory, memory')
<1> DEFINE S == Elements(batches, q.rows, q.cols)
           value == [x \in S |-> CellAt(q.src, q.srcType, ElementAt(x, q.rows, q.cols, q.srcLd, q.srcStride))]
           place == [x \in S |-> ElementAt(x, q.rows, q.cols, q.dstLd, q.dstStride)]
<1>1. Wrote(q.dst, TypeOf(j, q.dst), Scatter(place, value))
  <2>1. 0 .. q.count - 1 = S
    BY DEF Elements
  <2> QED
    BY <2>1 DEF CopyMatrix
<1> HIDE DEF value
<1>2. /\ Rewritten(j, memory, memory', Buffers \ {q.dst}, q.dst, batches, q.rows, q.cols, q.dstLd, q.dstStride)
      /\ Numbered(memory'[q.dst].cells, value, batches, q.rows, q.cols, q.dstLd, q.dstStride)
  BY <1>1, ElementsLeft
<1>3. ASSUME NEW b \in 0 .. batches - 1, NEW c \in 0 .. q.cols - 1, NEW r \in 0 .. q.rows - 1
      PROVE  memory'[q.dst].cells[At(b, c, r, q.dstLd, q.dstStride)]
             = ReadIn(memory, q.src, q.srcType, At(b, c, r, q.srcLd, q.srcStride))
  <2> DEFINE x == Number(b, c, r, q.rows, q.cols)
  <2>1. memory'[q.dst].cells[At(b, c, r, q.dstLd, q.dstStride)] = value[x]
    BY <1>2 DEF Numbered
  <2>2. x \in S /\ ElementAt(x, q.rows, q.cols, q.srcLd, q.srcStride) = At(b, c, r, q.srcLd, q.srcStride)
    <3>1. PICK rows \in Nat, cols \in Nat : rows = q.rows /\ cols = q.cols
      OBVIOUS
    <3>2. /\ batches \in Nat /\ rows \in Nat /\ cols \in Nat
          /\ b \in 0 .. batches - 1 /\ c \in 0 .. cols - 1 /\ r \in 0 .. rows - 1
      BY <3>1
    <3>3. /\ Number(b, c, r, rows, cols) \in Elements(batches, rows, cols)
          /\ \A ld, gap \in Nat :
               ElementAt(Number(b, c, r, rows, cols), rows, cols, ld, gap) = At(b, c, r, ld, gap)
      BY ONLY <3>2, ElementPlaces
    <3> QED
      BY <3>1, <3>3
  <2> HIDE DEF x
  <2>3. value[x] = CellAt(q.src, q.srcType, ElementAt(x, q.rows, q.cols, q.srcLd, q.srcStride))
    BY <2>2 DEF value
  <2> QED
    BY <2>1, <2>2, <2>3, CellIsRead
<1> QED
  BY <1>2, <1>3 DEF HoldsCopy

(* N keeps or clears what M has there.                                       *)
HoldsScaled(q, batches, M, N) ==
    \A b \in 0 .. batches - 1, c \in 0 .. q.cols - 1, r \in 0 .. q.rows - 1 :
      LET o == At(b, c, r, q.ld, q.stride)
      IN  N[q.output].cells[o] = IF q.beta = 0 THEN {} ELSE ReadIn(M, q.output, "kFLOAT32", o)

(* ScaleOutput clears the output or leaves it, element by element.           *)
LEMMA ScaleOutputLeaves ==
    ASSUME NEW j, Shaped(memory, j), NEW batches \in Nat, NEW q,
           q.rows \in Nat, q.cols \in Nat, q.ld \in Nat, q.stride \in Nat,
           q.count = q.rows * q.cols * batches, Spread(batches, q.rows, q.cols, q.ld, q.stride),
           q.output \in Buffers, "kFLOAT32" = TypeOf(j, q.output), ScaleOutput(q)
    PROVE  /\ Rewritten(j, memory, memory', Buffers \ {q.output}, q.output, batches, q.rows, q.cols, q.ld, q.stride)
           /\ HoldsScaled(q, batches, memory, memory')
<1> DEFINE S == Elements(batches, q.rows, q.cols)
           value == [x \in S |-> IF q.beta = 0 THEN {}
                                 ELSE CellAt(q.output, "kFLOAT32", ElementAt(x, q.rows, q.cols, q.ld, q.stride))]
           place == [x \in S |-> ElementAt(x, q.rows, q.cols, q.ld, q.stride)]
<1>1. Wrote(q.output, TypeOf(j, q.output), Scatter(place, value))
  <2>1. 0 .. q.count - 1 = S
    BY DEF Elements
  <2> QED
    BY <2>1 DEF ScaleOutput
<1> HIDE DEF value
<1>2. /\ Rewritten(j, memory, memory', Buffers \ {q.output}, q.output, batches, q.rows, q.cols, q.ld, q.stride)
      /\ Numbered(memory'[q.output].cells, value, batches, q.rows, q.cols, q.ld, q.stride)
  BY <1>1, ElementsLeft
<1>3. ASSUME NEW b \in 0 .. batches - 1, NEW c \in 0 .. q.cols - 1, NEW r \in 0 .. q.rows - 1
      PROVE  LET o == At(b, c, r, q.ld, q.stride)
             IN  memory'[q.output].cells[o] = IF q.beta = 0 THEN {} ELSE ReadIn(memory, q.output, "kFLOAT32", o)
  <2> DEFINE x == Number(b, c, r, q.rows, q.cols)
  <2>1. memory'[q.output].cells[At(b, c, r, q.ld, q.stride)] = value[x]
    BY <1>2 DEF Numbered
  <2>2. x \in S /\ ElementAt(x, q.rows, q.cols, q.ld, q.stride) = At(b, c, r, q.ld, q.stride)
    <3>1. PICK rows \in Nat, cols \in Nat : rows = q.rows /\ cols = q.cols
      OBVIOUS
    <3>2. /\ batches \in Nat /\ rows \in Nat /\ cols \in Nat
          /\ b \in 0 .. batches - 1 /\ c \in 0 .. cols - 1 /\ r \in 0 .. rows - 1
      BY <3>1
    <3>3. /\ Number(b, c, r, rows, cols) \in Elements(batches, rows, cols)
          /\ \A ld, gap \in Nat :
               ElementAt(Number(b, c, r, rows, cols), rows, cols, ld, gap) = At(b, c, r, ld, gap)
      BY ONLY <3>2, ElementPlaces
    <3> QED
      BY <3>1, <3>3
  <2> HIDE DEF x
  <2>3. value[x] = IF q.beta = 0 THEN {}
                   ELSE CellAt(q.output, "kFLOAT32", ElementAt(x, q.rows, q.cols, q.ld, q.stride))
    BY <2>2 DEF value
  <2> QED
    BY <2>1, <2>2, <2>3, CellIsRead
<1> QED
  BY <1>2, <1>3 DEF HoldsScaled

(***************************************************************************)
(* The product of two matrices in a memory.                                *)
(***************************************************************************)
OfA(p, M, b, i, l) ==
    ReadIn(M, p.A, p.in, IF p.transA THEN At(b, i, l, p.lda, p.strideA) ELSE At(b, l, i, p.lda, p.strideA))
OfB(p, M, b, l, h) ==
    ReadIn(M, p.B, p.in, IF p.transB THEN At(b, l, h, p.ldb, p.strideB) ELSE At(b, h, l, p.ldb, p.strideB))
Summed(p, M, b, h, i) ==
    IF p.alpha = 0 THEN {} ELSE UNION {Times(OfA(p, M, b, i, l), OfB(p, M, b, l, h)) : l \in 0 .. p.k - 1}
Before(p, M, b, h, i) ==
    IF p.beta = 0 THEN {} ELSE ReadIn(M, p.C, p.out, At(b, h, i, p.ldc, p.strideC))
Value(p, M, b, h, i) == Summed(p, M, b, h, i) \cup Before(p, M, b, h, i)

(* The parameters of a product of the call j.                                *)
Fits(j, p) ==
    /\ p.kernel = "mcblas"
    /\ p.transA \in BOOLEAN /\ p.transB \in BOOLEAN
    /\ p.m \in Nat /\ p.n \in Nat /\ p.k \in Nat /\ p.batchCount \in Nat
    /\ p.lda \in Nat /\ p.ldb \in Nat /\ p.ldc \in Nat
    /\ p.strideA \in Nat /\ p.strideB \in Nat /\ p.strideC \in Nat
    /\ p.A \in Buffers /\ p.B \in Buffers /\ p.C \in Buffers /\ p.C # p.A /\ p.C # p.B
    /\ p.out = TypeOf(j, p.C)
    /\ Spread(p.batchCount, p.m, p.n, p.ldc, p.strideC)

(* N is M but for the matrix of the product, among those buffers.            *)
Multiplied(j, p, M, N, others) ==
    /\ Rewritten(j, M, N, others, p.C, p.batchCount, p.m, p.n, p.ldc, p.strideC)
    /\ \A b \in 0 .. p.batchCount - 1, h \in 0 .. p.n - 1, i \in 0 .. p.m - 1 :
         N[p.C].cells[At(b, h, i, p.ldc, p.strideC)] = Value(p, M, b, h, i)

(* The library leaves the value of the product at each element.              *)
LEMMA McblasGemmLeaves ==
    ASSUME NEW j, Shaped(memory, j), NEW p, Fits(j, p), McblasGemm(p)
    PROVE  Multiplied(j, p, memory, memory', Buffers \ {p.C})
<1> DEFINE bs == 0 .. p.batchCount - 1
           ms == 0 .. p.m - 1
           ns == 0 .. p.n - 1
           S == bs \X ms \X ns
           place == [x \in S |-> x[1] * p.strideC + x[3] * p.ldc + x[2]]
           A(b, i, l) == CellAt(p.A, p.in, b * p.strideA + (IF p.transA THEN i * p.lda + l ELSE l * p.lda + i))
           B(b, l, h) == CellAt(p.B, p.in, b * p.strideB + (IF p.transB THEN l * p.ldb + h ELSE h * p.ldb + l))
           sum(b, i, h) == IF p.alpha = 0 THEN {} ELSE UNION {Times(A(b, i, l), B(b, l, h)) : l \in 0 .. p.k - 1}
           old(b, i, h) == IF p.beta = 0 THEN {} ELSE CellAt(p.C, p.out, b * p.strideC + h * p.ldc + i)
           value == [x \in S |-> sum(x[1], x[2], x[3]) \cup old(x[1], x[2], x[3])]
<1>1. Wrote(p.C, TypeOf(j, p.C), Scatter(place, value))
  BY DEF McblasGemm, Fits
<1> HIDE DEF A, B, sum, old
<1>2. ASSUME NEW b \in bs, NEW h \in ns, NEW i \in ms
      PROVE  /\ <<b, i, h>> \in DOMAIN place
             /\ place[<<b, i, h>>] = At(b, h, i, p.ldc, p.strideC)
             /\ value[<<b, i, h>>] = sum(b, i, h) \cup old(b, i, h)
  BY DEF At
<1>3. ASSUME NEW x \in DOMAIN place
      PROVE  \E b \in bs, h \in ns, i \in ms : x = <<b, i, h>>
  OBVIOUS
<1> HIDE DEF place, value
<1>4. Apart(p.batchCount, p.m, p.n, p.ldc, p.strideC)
  BY PlacesApart DEF Fits
<1>5. \A x, y \in DOMAIN place : place[x] = place[y] => x = y
  <2> SUFFICES ASSUME NEW x \in DOMAIN place, NEW y \in DOMAIN place, place[x] = place[y] PROVE x = y
    OBVIOUS
  <2>1. PICK b \in bs, h \in ns, i \in ms : x = <<b, i, h>>
    BY <1>3
  <2>2. PICK b2 \in bs, h2 \in ns, i2 \in ms : y = <<b2, i2, h2>>
    BY <1>3
  <2>3. At(b, h, i, p.ldc, p.strideC) = At(b2, h2, i2, p.ldc, p.strideC)
    BY <1>2, <2>1, <2>2
  <2>4. b = b2 /\ h = h2 /\ i = i2
    BY <1>4, <2>3 DEF Apart
  <2> QED
    BY <2>1, <2>2, <2>4
<1>6. Leaves(j, memory, memory', p.C, place, value)
  BY <1>1, <1>5, ScatterLeaves DEF Fits
<1>7. ASSUME NEW o
      PROVE  (\E x \in DOMAIN place : o = place[x]) <=> InMatrix(o, p.batchCount, p.m, p.n, p.ldc, p.strideC)
  <2>1. ASSUME NEW x \in DOMAIN place, o = place[x]
        PROVE  InMatrix(o, p.batchCount, p.m, p.n, p.ldc, p.strideC)
    <3>1. PICK b \in bs, h \in ns, i \in ms : x = <<b, i, h>>
      BY <1>3
    <3>2. o = At(b, h, i, p.ldc, p.strideC)
      BY <1>2, <2>1, <3>1
    <3> QED
      BY <3>2 DEF InMatrix
  <2>2. ASSUME InMatrix(o, p.batchCount, p.m, p.n, p.ldc, p.strideC) PROVE \E x \in DOMAIN place : o = place[x]
    <3>1. PICK b \in bs, h \in ns, i \in ms : o = At(b, h, i, p.ldc, p.strideC)
      BY <2>2 DEF InMatrix
    <3> QED
      BY <1>2, <3>1
  <2> QED
    BY <2>1, <2>2
<1>8. ASSUME NEW b \in bs, NEW h \in ns, NEW i \in ms
      PROVE  /\ At(b, h, i, p.ldc, p.strideC) \in DOMAIN memory'[p.C].cells
             /\ memory'[p.C].cells[At(b, h, i, p.ldc, p.strideC)] = Value(p, memory, b, h, i)
  <2>1. /\ At(b, h, i, p.ldc, p.strideC) \in DOMAIN memory'[p.C].cells
        /\ memory'[p.C].cells[At(b, h, i, p.ldc, p.strideC)] = sum(b, i, h) \cup old(b, i, h)
    <3>1. \A x \in DOMAIN place : /\ place[x] \in DOMAIN memory'[p.C].cells
                                  /\ memory'[p.C].cells[place[x]] = value[x]
      BY <1>6 DEF Leaves
    <3>2. /\ <<b, i, h>> \in DOMAIN place
          /\ place[<<b, i, h>>] = At(b, h, i, p.ldc, p.strideC)
          /\ value[<<b, i, h>>] = sum(b, i, h) \cup old(b, i, h)
      BY <1>2
    <3>3. /\ place[<<b, i, h>>] \in DOMAIN memory'[p.C].cells
          /\ memory'[p.C].cells[place[<<b, i, h>>]] = value[<<b, i, h>>]
      BY <3>1, <3>2
    <3> QED
      BY ONLY <3>2, <3>3
  <2>2. old(b, i, h) = Before(p, memory, b, h, i)
    BY CellIsRead DEF old, Before, At
  <2>3. ASSUME NEW l \in 0 .. p.k - 1
        PROVE  A(b, i, l) = OfA(p, memory, b, i, l) /\ B(b, l, h) = OfB(p, memory, b, l, h)
    <3>1. b \in Nat /\ h \in Nat /\ i \in Nat /\ l \in Nat
      BY DEF Fits
    <3>2. /\ p.lda \in Nat /\ p.strideA \in Nat /\ p.ldb \in Nat /\ p.strideB \in Nat
          /\ p.transA \in BOOLEAN /\ p.transB \in BOOLEAN
      BY DEF Fits
    <3> HIDE DEF bs, ms, ns
    <3>3. b * p.strideA + (i * p.lda + l) = At(b, i, l, p.lda, p.strideA)
      BY ONLY <3>1, <3>2 DEF At
    <3>4. b * p.strideA + (l * p.lda + i) = At(b, l, i, p.lda, p.strideA)
      BY ONLY <3>1, <3>2 DEF At
    <3>5. b * p.strideB + (l * p.ldb + h) = At(b, l, h, p.ldb, p.strideB)
      BY ONLY <3>1, <3>2 DEF At
    <3>6. b * p.strideB + (h * p.ldb + l) = At(b, h, l, p.ldb, p.strideB)
      BY ONLY <3>1, <3>2 DEF At
    <3>7. A(b, i, l) = OfA(p, memory, b, i, l)
      BY ONLY <3>3, <3>4, CellIsRead DEF A, OfA
    <3>8. B(b, l, h) = OfB(p, memory, b, l, h)
      BY ONLY <3>5, <3>6, CellIsRead DEF B, OfB
    <3> QED
      BY ONLY <3>7, <3>8
  <2>4. sum(b, i, h) = Summed(p, memory, b, h, i)
    BY <2>3 DEF sum, Summed
  <2> QED
    BY <2>1, <2>2, <2>4 DEF Value
<1>9. Rewritten(j, memory, memory', Buffers \ {p.C}, p.C, p.batchCount, p.m, p.n, p.ldc, p.strideC)
  BY <1>6, <1>7, <1>8 DEF Leaves, Rewritten
<1> QED
  BY <1>8, <1>9 DEF Multiplied

(***************************************************************************)
(* A product in double precision.                                          *)
(***************************************************************************)
Same(j, M0, M) == Shaped(M, j) /\ \A x \in Buffers \ Temporaries : M[x] = M0[x]

(* A temporary holds matrices without padding, read in M0 from others.       *)
Packed(M0, M, buffer, src, dtype, batches, rows, cols, ld, gap) ==
    \A b \in 0 .. batches - 1, c \in 0 .. cols - 1, r \in 0 .. rows - 1 :
      /\ At(b, c, r, rows, rows * cols) \in DOMAIN M[buffer].cells
      /\ M[buffer].cells[At(b, c, r, rows, rows * cols)] = ReadIn(M0, src, dtype, At(b, c, r, ld, gap))

HasA(p, M0, M) == Packed(M0, M, "a64", p.A, p.in, p.batchCount, RowsA(p), ColsA(p), p.lda, p.strideA)
HasB(p, M0, M) == Packed(M0, M, "b64", p.B, p.in, p.batchCount, RowsB(p), ColsB(p), p.ldb, p.strideB)
HasC(p, M0, M) == Packed(M0, M, "c64", p.C, p.out, p.batchCount, p.m, p.n, p.ldc, p.strideC)
HasProduct(p, M0, M) ==
    \A b \in 0 .. p.batchCount - 1, h \in 0 .. p.n - 1, i \in 0 .. p.m - 1 :
      /\ At(b, h, i, p.m, p.m * p.n) \in DOMAIN M["c64"].cells
      /\ M["c64"].cells[At(b, h, i, p.m, p.m * p.n)] = Value(p, M0, b, h, i)

(* Packed matrices do not overlap.                                           *)
LEMMA TightMatrices ==
    ASSUME NEW batches \in Nat, NEW rows \in Nat, NEW cols \in Nat
    PROVE  /\ rows * cols \in Nat /\ Spread(batches, rows, cols, rows, rows * cols)
BY DEF Spread

(* A matrix of the caller is packed to FP64, whatever its strides.           *)
LEMMA PackLeaves ==
    ASSUME NEW j, NEW M0, Same(j, M0, memory), NEW batches \in Nat, NEW q,
           q.rows \in Nat, q.cols \in Nat, q.srcLd \in Nat, q.srcStride \in Nat,
           q.dstLd = q.rows, q.dstStride = q.rows * q.cols, q.count = (q.rows * q.cols) * batches,
           q.src \in Buffers \ Temporaries, q.dst \in Temporaries, q.dstType = "kFLOAT64", CopyMatrix(q)
    PROVE  /\ Same(j, M0, memory')
           /\ \A x \in Buffers \ {q.dst} : memory'[x] = memory[x]
           /\ Packed(M0, memory', q.dst, q.src, q.srcType, batches, q.rows, q.cols, q.srcLd, q.srcStride)
<1>1. /\ q.dstStride \in Nat /\ q.dstLd \in Nat
      /\ Spread(batches, q.rows, q.cols, q.dstLd, q.dstStride)
  BY TightMatrices
<1>2. /\ q.dst \in Buffers /\ q.dstType = TypeOf(j, q.dst) /\ q.src \in Buffers /\ q.src # q.dst
  BY DEF TypeOf, Temporaries, Buffers, Operands
<1>3. /\ Rewritten(j, memory, memory', Buffers \ {q.dst}, q.dst, batches, q.rows, q.cols, q.dstLd, q.dstStride)
      /\ HoldsCopy(q, batches, memory, memory')
  <2>1. Shaped(memory, j) /\ q.count = q.rows * q.cols * batches
    BY DEF Same
  <2> QED
    BY <1>1, <1>2, <2>1, CopyMatrixLeaves
<1>4. Shaped(memory', j) /\ \A x \in Buffers \ {q.dst} : memory'[x] = memory[x]
  BY <1>3 DEF Rewritten
<1>5. Same(j, M0, memory')
  BY <1>4 DEF Same
<1>6. memory[q.src] = M0[q.src]
  BY DEF Same
<1>7. Packed(M0, memory', q.dst, q.src, q.srcType, batches, q.rows, q.cols, q.srcLd, q.srcStride)
  <2> SUFFICES ASSUME NEW b \in 0 .. batches - 1, NEW c \in 0 .. q.cols - 1, NEW r \in 0 .. q.rows - 1
               PROVE  LET o == At(b, c, r, q.rows, q.rows * q.cols)
                      IN  /\ o \in DOMAIN memory'[q.dst].cells
                          /\ memory'[q.dst].cells[o] = ReadIn(M0, q.src, q.srcType, At(b, c, r, q.srcLd, q.srcStride))
    BY DEF Packed
  <2> DEFINE o == At(b, c, r, q.dstLd, q.dstStride)
  <2>1. o \in DOMAIN memory'[q.dst].cells
    BY <1>3 DEF Rewritten
  <2>2. memory'[q.dst].cells[o] = ReadIn(memory, q.src, q.srcType, At(b, c, r, q.srcLd, q.srcStride))
    BY <1>3 DEF HoldsCopy
  <2> QED
    BY <1>6, <2>1, <2>2 DEF ReadIn
<1> QED
  BY <1>4, <1>5, <1>7

(* What the packed operands are multiplied to.                               *)
LEMMA ParamFields ==
    ASSUME NEW j, NEW p, Fits(j, p)
    PROVE  LET d == InDouble(p)
           IN  /\ p.kernel = "mcblas" /\ d.kernel = "mcblas"
               /\ d.transA = p.transA /\ d.transB = p.transB /\ d.m = p.m /\ d.n = p.n /\ d.k = p.k
               /\ d.A = "a64" /\ d.lda = RowsA(p) /\ d.B = "b64" /\ d.ldb = RowsB(p) /\ d.C = "c64" /\ d.ldc = p.m
               /\ d.alpha = p.alpha /\ d.beta = p.beta /\ d.batchCount = p.batchCount
               /\ d.strideA = SizeA(p) /\ d.strideB = SizeB(p) /\ d.strideC = p.m * p.n
               /\ d.in = "kFLOAT64" /\ d.out = "kFLOAT64"
<1>1. p.kernel = "mcblas"
  BY DEF Fits
<1>2. InDouble(p) =
          [kernel |-> "mcblas", transA |-> p.transA, transB |-> p.transB, m |-> p.m, n |-> p.n, k |-> p.k,
           A |-> "a64", lda |-> RowsA(p), B |-> "b64", ldb |-> RowsB(p), C |-> "c64", ldc |-> p.m,
           alpha |-> p.alpha, beta |-> p.beta, batchCount |-> p.batchCount, strideA |-> SizeA(p),
           strideB |-> SizeB(p), strideC |-> p.m * p.n, in |-> "kFLOAT64", out |-> "kFLOAT64"]
  BY DEF InDouble, Params
<1> QED
  BY <1>1, <1>2

(* A product that the path in double precision can be asked for.             *)
Outside(p) == p.A \in Buffers \ Temporaries /\ p.B \in Buffers \ Temporaries /\ p.C \in Buffers \ Temporaries
InSingle(p) == Outside(p) /\ p.out = "kFLOAT32"

Done(j, p, M0, M) == Multiplied(j, p, M0, M, Buffers \ (Temporaries \cup {p.C}))

(* The sizes of the operands as they are stored.                             *)
LEMMA Shapes ==
    ASSUME NEW j, NEW p, Fits(j, p)
    PROVE  /\ RowsA(p) \in Nat /\ ColsA(p) \in Nat /\ RowsB(p) \in Nat /\ ColsB(p) \in Nat
           /\ SizeA(p) = RowsA(p) * ColsA(p) /\ SizeB(p) = RowsB(p) * ColsB(p)
           /\ SizeA(p) \in Nat /\ SizeB(p) \in Nat /\ p.m * p.n \in Nat
<1>1. /\ RowsA(p) \in Nat /\ ColsA(p) \in Nat /\ RowsB(p) \in Nat /\ ColsB(p) \in Nat
      /\ p.m \in Nat /\ p.n \in Nat
  BY DEF Fits, RowsA, ColsA, RowsB, ColsB
<1>2. \A x, y \in Nat : x * y \in Nat
  OBVIOUS
<1> QED
  BY ONLY <1>1, <1>2 DEF SizeA, SizeB

(* The kernels of the path in double precision, field by field.              *)
LEMMA PackedAFields ==
    ASSUME NEW p
    PROVE  LET q == PackedA(p)
           IN  /\ q.kernel = "CopyMatrix" /\ q.src = p.A /\ q.srcType = p.in /\ q.dst = "a64" /\ q.dstType = "kFLOAT64"
               /\ q.rows = RowsA(p) /\ q.cols = ColsA(p) /\ q.srcLd = p.lda /\ q.dstLd = RowsA(p)
               /\ q.srcStride = p.strideA /\ q.dstStride = SizeA(p) /\ q.count = SizeA(p) * p.batchCount
BY DEF PackedA, Copied

LEMMA PackedBFields ==
    ASSUME NEW p
    PROVE  LET q == PackedB(p)
           IN  /\ q.kernel = "CopyMatrix" /\ q.src = p.B /\ q.srcType = p.in /\ q.dst = "b64" /\ q.dstType = "kFLOAT64"
               /\ q.rows = RowsB(p) /\ q.cols = ColsB(p) /\ q.srcLd = p.ldb /\ q.dstLd = RowsB(p)
               /\ q.srcStride = p.strideB /\ q.dstStride = SizeB(p) /\ q.count = SizeB(p) * p.batchCount
BY DEF PackedB, Copied

LEMMA PackedCFields ==
    ASSUME NEW p
    PROVE  LET q == PackedC(p)
           IN  /\ q.kernel = "CopyMatrix" /\ q.src = p.C /\ q.srcType = p.out /\ q.dst = "c64" /\ q.dstType = "kFLOAT64"
               /\ q.rows = p.m /\ q.cols = p.n /\ q.srcLd = p.ldc /\ q.dstLd = p.m
               /\ q.srcStride = p.strideC /\ q.dstStride = p.m * p.n /\ q.count = p.m * p.n * p.batchCount
BY DEF PackedC, Copied

LEMMA UnpackedFields ==
    ASSUME NEW p
    PROVE  LET q == Unpacked(p)
           IN  /\ q.kernel = "CopyMatrix" /\ q.src = "c64" /\ q.srcType = "kFLOAT64" /\ q.dst = p.C /\ q.dstType = p.out
               /\ q.rows = p.m /\ q.cols = p.n /\ q.srcLd = p.m /\ q.dstLd = p.ldc
               /\ q.srcStride = p.m * p.n /\ q.dstStride = p.strideC /\ q.count = p.m * p.n * p.batchCount
BY DEF Unpacked, Copied

LEMMA ScaledFields ==
    ASSUME NEW p
    PROVE  LET q == Scaled(p)
           IN  /\ q.kernel = "ScaleOutput" /\ q.output = p.C /\ q.rows = p.m /\ q.cols = p.n /\ q.ld = p.ldc
               /\ q.stride = p.strideC /\ q.count = p.m * p.n * p.batchCount /\ q.beta = p.beta
BY DEF Scaled

(* After the first kernel the copy of A is in its temporary.                 *)
LEMMA PacksA ==
    ASSUME NEW j, NEW M0, NEW p, Fits(j, p), InSingle(p), Same(j, M0, memory), CarryOut(PackedA(p))
    PROVE  Same(j, M0, memory') /\ HasA(p, M0, memory')
<1> DEFINE q == PackedA(p)
<1>1. /\ q.kernel = "CopyMatrix" /\ q.src = p.A /\ q.srcType = p.in /\ q.dst = "a64" /\ q.dstType = "kFLOAT64"
      /\ q.rows = RowsA(p) /\ q.cols = ColsA(p) /\ q.srcLd = p.lda /\ q.dstLd = RowsA(p)
      /\ q.srcStride = p.strideA /\ q.dstStride = SizeA(p) /\ q.count = SizeA(p) * p.batchCount
  BY PackedAFields
<1>2. CopyMatrix(q)
  BY <1>1 DEF CarryOut
<1> HIDE DEF q
<1>3. /\ RowsA(p) \in Nat /\ ColsA(p) \in Nat /\ p.lda \in Nat /\ p.strideA \in Nat /\ p.batchCount \in Nat
      /\ SizeA(p) = RowsA(p) * ColsA(p)
  BY Shapes DEF Fits
<1>4. /\ q.rows \in Nat /\ q.cols \in Nat /\ q.srcLd \in Nat /\ q.srcStride \in Nat /\ q.dstLd = q.rows
      /\ q.dstStride = q.rows * q.cols /\ q.count = (q.rows * q.cols) * p.batchCount
      /\ q.src \in Buffers \ Temporaries /\ q.dst \in Temporaries /\ q.dstType = "kFLOAT64"
  BY <1>1, <1>3 DEF InSingle, Outside, Temporaries
<1>5. /\ Same(j, M0, memory')
      /\ Packed(M0, memory', q.dst, q.src, q.srcType, p.batchCount, q.rows, q.cols, q.srcLd, q.srcStride)
  BY <1>2, <1>3, <1>4, PackLeaves
<1> QED
  BY <1>1, <1>5 DEF HasA

(* The second packs B and leaves the copy of A.                              *)
LEMMA PacksB ==
    ASSUME NEW j, NEW M0, NEW p, Fits(j, p), InSingle(p), Same(j, M0, memory), HasA(p, M0, memory),
           CarryOut(PackedB(p))
    PROVE  Same(j, M0, memory') /\ HasA(p, M0, memory') /\ HasB(p, M0, memory')
<1> DEFINE q == PackedB(p)
<1>1. /\ q.kernel = "CopyMatrix" /\ q.src = p.B /\ q.srcType = p.in /\ q.dst = "b64" /\ q.dstType = "kFLOAT64"
      /\ q.rows = RowsB(p) /\ q.cols = ColsB(p) /\ q.srcLd = p.ldb /\ q.dstLd = RowsB(p)
      /\ q.srcStride = p.strideB /\ q.dstStride = SizeB(p) /\ q.count = SizeB(p) * p.batchCount
  BY PackedBFields
<1>2. CopyMatrix(q)
  BY <1>1 DEF CarryOut
<1> HIDE DEF q
<1>3. /\ RowsB(p) \in Nat /\ ColsB(p) \in Nat /\ p.ldb \in Nat /\ p.strideB \in Nat /\ p.batchCount \in Nat
      /\ SizeB(p) = RowsB(p) * ColsB(p)
  BY Shapes DEF Fits
<1>4. /\ q.rows \in Nat /\ q.cols \in Nat /\ q.srcLd \in Nat /\ q.srcStride \in Nat /\ q.dstLd = q.rows
      /\ q.dstStride = q.rows * q.cols /\ q.count = (q.rows * q.cols) * p.batchCount
      /\ q.src \in Buffers \ Temporaries /\ q.dst \in Temporaries /\ q.dstType = "kFLOAT64"
  BY <1>1, <1>3 DEF InSingle, Outside, Temporaries
<1>5. /\ Same(j, M0, memory')
      /\ \A x \in Buffers \ {q.dst} : memory'[x] = memory[x]
      /\ Packed(M0, memory', q.dst, q.src, q.srcType, p.batchCount, q.rows, q.cols, q.srcLd, q.srcStride)
  BY <1>2, <1>3, <1>4, PackLeaves
<1>6. memory'["a64"] = memory["a64"]
  BY <1>1, <1>5 DEF Buffers, Temporaries
<1> QED
  BY <1>1, <1>5, <1>6 DEF HasA, HasB, Packed

(* The third packs C and leaves the copies of A and B.                       *)
LEMMA PacksC ==
    ASSUME NEW j, NEW M0, NEW p, Fits(j, p), InSingle(p), Same(j, M0, memory), HasA(p, M0, memory),
           HasB(p, M0, memory), CarryOut(PackedC(p))
    PROVE  Same(j, M0, memory') /\ HasA(p, M0, memory') /\ HasB(p, M0, memory') /\ HasC(p, M0, memory')
<1> DEFINE q == PackedC(p)
<1>1. /\ q.kernel = "CopyMatrix" /\ q.src = p.C /\ q.srcType = p.out /\ q.dst = "c64" /\ q.dstType = "kFLOAT64"
      /\ q.rows = p.m /\ q.cols = p.n /\ q.srcLd = p.ldc /\ q.dstLd = p.m
      /\ q.srcStride = p.strideC /\ q.dstStride = p.m * p.n /\ q.count = p.m * p.n * p.batchCount
  BY PackedCFields
<1>2. CopyMatrix(q)
  BY <1>1 DEF CarryOut
<1> HIDE DEF q
<1>3. p.m \in Nat /\ p.n \in Nat /\ p.ldc \in Nat /\ p.strideC \in Nat /\ p.batchCount \in Nat
  BY DEF Fits
<1>4. /\ q.rows \in Nat /\ q.cols \in Nat /\ q.srcLd \in Nat /\ q.srcStride \in Nat /\ q.dstLd = q.rows
      /\ q.dstStride = q.rows * q.cols /\ q.count = (q.rows * q.cols) * p.batchCount
      /\ q.src \in Buffers \ Temporaries /\ q.dst \in Temporaries /\ q.dstType = "kFLOAT64"
  BY <1>1, <1>3 DEF InSingle, Outside, Temporaries
<1>5. /\ Same(j, M0, memory')
      /\ \A x \in Buffers \ {q.dst} : memory'[x] = memory[x]
      /\ Packed(M0, memory', q.dst, q.src, q.srcType, p.batchCount, q.rows, q.cols, q.srcLd, q.srcStride)
  BY <1>2, <1>3, <1>4, PackLeaves
<1>6. memory'["a64"] = memory["a64"] /\ memory'["b64"] = memory["b64"]
  BY <1>1, <1>5 DEF Buffers, Temporaries
<1> QED
  BY <1>1, <1>5, <1>6 DEF HasA, HasB, HasC, Packed

(* The product of the packed operands has room for its matrices.             *)
LEMMA DoubleFits ==
    ASSUME NEW j, NEW p, Fits(j, p)
    PROVE  Fits(j, InDouble(p))
<1> DEFINE d == InDouble(p)
<1>1. /\ d.kernel = "mcblas" /\ d.transA = p.transA /\ d.transB = p.transB /\ d.m = p.m /\ d.n = p.n /\ d.k = p.k
      /\ d.A = "a64" /\ d.lda = RowsA(p) /\ d.B = "b64" /\ d.ldb = RowsB(p) /\ d.C = "c64" /\ d.ldc = p.m
      /\ d.alpha = p.alpha /\ d.beta = p.beta /\ d.batchCount = p.batchCount
      /\ d.strideA = SizeA(p) /\ d.strideB = SizeB(p) /\ d.strideC = p.m * p.n
      /\ d.in = "kFLOAT64" /\ d.out = "kFLOAT64"
  BY ParamFields
<1> HIDE DEF d
<1>3. /\ p.transA \in BOOLEAN /\ p.transB \in BOOLEAN /\ p.m \in Nat /\ p.n \in Nat /\ p.k \in Nat
      /\ p.batchCount \in Nat
  BY DEF Fits
<1>4. RowsA(p) \in Nat /\ RowsB(p) \in Nat /\ SizeA(p) \in Nat /\ SizeB(p) \in Nat /\ p.m * p.n \in Nat
  BY Shapes
<1>5. Spread(p.batchCount, p.m, p.n, p.m, p.m * p.n)
  BY <1>3, TightMatrices
<1>6. /\ "a64" \in Buffers /\ "b64" \in Buffers /\ "c64" \in Buffers /\ TypeOf(j, "c64") = "kFLOAT64"
  BY DEF Buffers, Temporaries, TypeOf
<1>7. Fits(j, d)
  <2>1. Spread(d.batchCount, d.m, d.n, d.ldc, d.strideC)
    BY ONLY <1>1, <1>5
  <2>2. /\ d.transA \in BOOLEAN /\ d.transB \in BOOLEAN
        /\ d.m \in Nat /\ d.n \in Nat /\ d.k \in Nat /\ d.batchCount \in Nat
        /\ d.lda \in Nat /\ d.ldb \in Nat /\ d.ldc \in Nat
        /\ d.strideA \in Nat /\ d.strideB \in Nat /\ d.strideC \in Nat
    BY ONLY <1>1, <1>3, <1>4
  <2>3. d.A \in Buffers /\ d.B \in Buffers /\ d.C \in Buffers /\ d.C # d.A /\ d.C # d.B /\ d.out = TypeOf(j, d.C)
    BY ONLY <1>1, <1>6
  <2> QED
    BY ONLY <1>1, <2>1, <2>2, <2>3 DEF Fits
<1> QED
  BY <1>7 DEF d

(* The packed operands have the product that the caller's have.              *)
LEMMA SameProduct ==
    ASSUME NEW j, NEW M0, NEW M, NEW p, Fits(j, p), Shaped(M, j),
           HasA(p, M0, M), HasB(p, M0, M), p.beta # 0 => HasC(p, M0, M),
           NEW b \in 0 .. p.batchCount - 1, NEW h \in 0 .. p.n - 1, NEW i \in 0 .. p.m - 1
    PROVE  Value(InDouble(p), M, b, h, i) = Value(p, M0, b, h, i)
<1> DEFINE d == InDouble(p)
<1>1. /\ d.transA = p.transA /\ d.transB = p.transB /\ d.m = p.m /\ d.n = p.n /\ d.k = p.k
      /\ d.A = "a64" /\ d.lda = RowsA(p) /\ d.B = "b64" /\ d.ldb = RowsB(p) /\ d.C = "c64" /\ d.ldc = p.m
      /\ d.alpha = p.alpha /\ d.beta = p.beta /\ d.batchCount = p.batchCount
      /\ d.strideA = SizeA(p) /\ d.strideB = SizeB(p) /\ d.strideC = p.m * p.n
      /\ d.in = "kFLOAT64" /\ d.out = "kFLOAT64"
  BY ParamFields
<1> HIDE DEF d
<1>2. M["a64"].dtype = "kFLOAT64" /\ M["b64"].dtype = "kFLOAT64" /\ M["c64"].dtype = "kFLOAT64"
  <2>1. \A x \in Temporaries : x \in Buffers /\ TypeOf(j, x) = "kFLOAT64"
    BY DEF TypeOf, Temporaries, Buffers, Operands
  <2> QED
    BY <2>1, TypeOfBuffer DEF Temporaries
<1>3. SizeA(p) = RowsA(p) * ColsA(p) /\ SizeB(p) = RowsB(p) * ColsB(p) /\ p.transA \in BOOLEAN /\ p.transB \in BOOLEAN
  BY Shapes DEF Fits
<1>4. ASSUME NEW l \in 0 .. p.k - 1
      PROVE  OfA(d, M, b, i, l) = OfA(p, M0, b, i, l) /\ OfB(d, M, b, l, h) = OfB(p, M0, b, l, h)
  <2>1. OfA(d, M, b, i, l) = OfA(p, M0, b, i, l)
    <3>1. CASE p.transA
      <4>1. i \in 0 .. ColsA(p) - 1 /\ l \in 0 .. RowsA(p) - 1
        BY <3>1 DEF RowsA, ColsA
      <4>2. LET o == At(b, i, l, RowsA(p), SizeA(p))
            IN  /\ o \in DOMAIN M["a64"].cells
                /\ M["a64"].cells[o] = ReadIn(M0, p.A, p.in, At(b, i, l, p.lda, p.strideA))
        BY <1>3, <4>1 DEF HasA, Packed
      <4> QED
        BY <1>1, <1>2, <3>1, <4>2 DEF OfA, ReadIn
    <3>2. CASE ~p.transA
      <4>1. l \in 0 .. ColsA(p) - 1 /\ i \in 0 .. RowsA(p) - 1
        BY <3>2 DEF RowsA, ColsA
      <4>2. LET o == At(b, l, i, RowsA(p), SizeA(p))
            IN  /\ o \in DOMAIN M["a64"].cells
                /\ M["a64"].cells[o] = ReadIn(M0, p.A, p.in, At(b, l, i, p.lda, p.strideA))
        BY <1>3, <4>1 DEF HasA, Packed
      <4> QED
        BY <1>1, <1>2, <3>2, <4>2 DEF OfA, ReadIn
    <3> QED
      BY <1>3, <3>1, <3>2
  <2>2. OfB(d, M, b, l, h) = OfB(p, M0, b, l, h)
    <3>1. CASE p.transB
      <4>1. l \in 0 .. ColsB(p) - 1 /\ h \in 0 .. RowsB(p) - 1
        BY <3>1 DEF RowsB, ColsB
      <4>2. LET o == At(b, l, h, RowsB(p), SizeB(p))
            IN  /\ o \in DOMAIN M["b64"].cells
                /\ M["b64"].cells[o] = ReadIn(M0, p.B, p.in, At(b, l, h, p.ldb, p.strideB))
        BY <1>3, <4>1 DEF HasB, Packed
      <4> QED
        BY <1>1, <1>2, <3>1, <4>2 DEF OfB, ReadIn
    <3>2. CASE ~p.transB
      <4>1. h \in 0 .. ColsB(p) - 1 /\ l \in 0 .. RowsB(p) - 1
        BY <3>2 DEF RowsB, ColsB
      <4>2. LET o == At(b, h, l, RowsB(p), SizeB(p))
            IN  /\ o \in DOMAIN M["b64"].cells
                /\ M["b64"].cells[o] = ReadIn(M0, p.B, p.in, At(b, h, l, p.ldb, p.strideB))
        BY <1>3, <4>1 DEF HasB, Packed
      <4> QED
        BY <1>1, <1>2, <3>2, <4>2 DEF OfB, ReadIn
    <3> QED
      BY <1>3, <3>1, <3>2
  <2> QED
    BY <2>1, <2>2
<1>5. Summed(d, M, b, h, i) = Summed(p, M0, b, h, i)
  <2>1. d.k = p.k /\ d.alpha = p.alpha
    BY <1>1
  <2>2. {Times(OfA(d, M, b, i, l), OfB(d, M, b, l, h)) : l \in 0 .. p.k - 1}
        = {Times(OfA(p, M0, b, i, l), OfB(p, M0, b, l, h)) : l \in 0 .. p.k - 1}
    BY <1>4
  <2> QED
    BY ONLY <2>1, <2>2 DEF Summed
<1>6. Before(d, M, b, h, i) = Before(p, M0, b, h, i)
  <2>1. CASE p.beta = 0
    BY <1>1, <2>1 DEF Before
  <2>2. CASE p.beta # 0
    <3>1. LET o == At(b, h, i, p.m, p.m * p.n)
          IN  /\ o \in DOMAIN M["c64"].cells
              /\ M["c64"].cells[o] = ReadIn(M0, p.C, p.out, At(b, h, i, p.ldc, p.strideC))
      BY <2>2 DEF HasC, Packed
    <3> QED
      BY <1>1, <1>2, <2>2, <3>1 DEF Before, ReadIn
  <2> QED
    BY <2>1, <2>2
<1> QED
  BY <1>5, <1>6 DEF Value, d

(* The library leaves that product in the temporary of C.                    *)
LEMMA MultipliesInDouble ==
    ASSUME NEW j, NEW M0, NEW p, Fits(j, p), Same(j, M0, memory), HasA(p, M0, memory), HasB(p, M0, memory),
           p.beta # 0 => HasC(p, M0, memory), CarryOut(InDouble(p))
    PROVE  Same(j, M0, memory') /\ HasProduct(p, M0, memory')
<1> DEFINE d == InDouble(p)
<1>1. /\ d.kernel = "mcblas" /\ d.m = p.m /\ d.n = p.n /\ d.C = "c64" /\ d.ldc = p.m
      /\ d.batchCount = p.batchCount /\ d.strideC = p.m * p.n
  BY ParamFields
<1>2. Fits(j, d)
  BY DoubleFits
<1>3. Shaped(memory, j)
  BY DEF Same
<1>4. \A b \in 0 .. p.batchCount - 1, h \in 0 .. p.n - 1, i \in 0 .. p.m - 1 :
        Value(d, memory, b, h, i) = Value(p, M0, b, h, i)
  BY <1>3, SameProduct
<1> HIDE DEF d
<1>5. McblasGemm(d)
  BY <1>1 DEF CarryOut, d
<1>6. Multiplied(j, d, memory, memory', Buffers \ {d.C})
  BY <1>2, <1>3, <1>5, McblasGemmLeaves
<1>7. Shaped(memory', j) /\ \A x \in Buffers \ {"c64"} : memory'[x] = memory[x]
  BY <1>1, <1>6 DEF Multiplied, Rewritten
<1>8. Same(j, M0, memory')
  BY <1>7 DEF Same, Temporaries
<1>9. HasProduct(p, M0, memory')
  <2> SUFFICES ASSUME NEW b \in 0 .. p.batchCount - 1, NEW h \in 0 .. p.n - 1, NEW i \in 0 .. p.m - 1
               PROVE  LET o == At(b, h, i, p.m, p.m * p.n)
                      IN  o \in DOMAIN memory'["c64"].cells /\ memory'["c64"].cells[o] = Value(p, M0, b, h, i)
    BY DEF HasProduct
  <2>1. /\ At(b, h, i, d.ldc, d.strideC) \in DOMAIN memory'[d.C].cells
        /\ memory'[d.C].cells[At(b, h, i, d.ldc, d.strideC)] = Value(d, memory, b, h, i)
    BY <1>1, <1>6 DEF Multiplied, Rewritten
  <2> QED
    BY <1>1, <1>4, <2>1
<1> QED
  BY <1>8, <1>9

(* Copying it back completes the product of the caller.                      *)
LEMMA Unpacks ==
    ASSUME NEW j, NEW M0, NEW p, Fits(j, p), InSingle(p), Same(j, M0, memory), HasProduct(p, M0, memory),
           CarryOut(Unpacked(p))
    PROVE  Done(j, p, M0, memory')
<1> DEFINE q == Unpacked(p)
<1>1. /\ q.kernel = "CopyMatrix" /\ q.src = "c64" /\ q.srcType = "kFLOAT64" /\ q.dst = p.C /\ q.dstType = p.out
      /\ q.rows = p.m /\ q.cols = p.n /\ q.srcLd = p.m /\ q.dstLd = p.ldc
      /\ q.srcStride = p.m * p.n /\ q.dstStride = p.strideC /\ q.count = p.m * p.n * p.batchCount
  BY UnpackedFields
<1>2. CopyMatrix(q)
  BY <1>1 DEF CarryOut
<1> HIDE DEF q
<1>3. /\ p.m \in Nat /\ p.n \in Nat /\ p.ldc \in Nat /\ p.strideC \in Nat /\ p.batchCount \in Nat
      /\ Spread(p.batchCount, p.m, p.n, p.ldc, p.strideC) /\ p.C \in Buffers /\ p.out = TypeOf(j, p.C)
  BY DEF Fits
<1>4. p.m * p.n \in Nat
  BY Shapes
<1>5. /\ q.rows \in Nat /\ q.cols \in Nat /\ q.srcLd \in Nat /\ q.dstLd \in Nat /\ q.srcStride \in Nat
      /\ q.dstStride \in Nat /\ q.count = q.rows * q.cols * p.batchCount
      /\ Spread(p.batchCount, q.rows, q.cols, q.dstLd, q.dstStride)
      /\ q.dst \in Buffers /\ q.dstType = TypeOf(j, q.dst)
  BY <1>1, <1>3, <1>4
<1>6. Shaped(memory, j)
  BY DEF Same
<1>7. /\ Rewritten(j, memory, memory', Buffers \ {q.dst}, q.dst, p.batchCount, q.rows, q.cols, q.dstLd, q.dstStride)
      /\ HoldsCopy(q, p.batchCount, memory, memory')
  BY <1>2, <1>3, <1>5, <1>6, CopyMatrixLeaves
<1>8. memory["c64"].dtype = "kFLOAT64"
  <2>1. "c64" \in Buffers /\ TypeOf(j, "c64") = "kFLOAT64"
    BY DEF Buffers, Temporaries, TypeOf
  <2> QED
    BY <1>6, <2>1, TypeOfBuffer
<1>9. ASSUME NEW b \in 0 .. p.batchCount - 1, NEW h \in 0 .. p.n - 1, NEW i \in 0 .. p.m - 1
      PROVE  memory'[p.C].cells[At(b, h, i, p.ldc, p.strideC)] = Value(p, M0, b, h, i)
  <2>1. memory'[p.C].cells[At(b, h, i, p.ldc, p.strideC)]
        = ReadIn(memory, "c64", "kFLOAT64", At(b, h, i, p.m, p.m * p.n))
    BY <1>1, <1>7 DEF HoldsCopy
  <2>2. LET o == At(b, h, i, p.m, p.m * p.n)
        IN  o \in DOMAIN memory["c64"].cells /\ memory["c64"].cells[o] = Value(p, M0, b, h, i)
    BY DEF HasProduct
  <2> QED
    BY <1>8, <2>1, <2>2 DEF ReadIn
<1>10. memory[p.C] = M0[p.C] /\ \A x \in Buffers \ (Temporaries \cup {p.C}) : memory[x] = M0[x]
  BY DEF Same, InSingle, Outside
<1>11. Rewritten(j, memory, memory', Buffers \ {p.C}, p.C, p.batchCount, p.m, p.n, p.ldc, p.strideC)
  BY <1>1, <1>7
<1>12. Rewritten(j, M0, memory', Buffers \ (Temporaries \cup {p.C}), p.C, p.batchCount, p.m, p.n, p.ldc, p.strideC)
  BY <1>10, <1>11 DEF Rewritten
<1> QED
  BY <1>9, <1>12 DEF Done, Multiplied

(* Without terms to add, scaling the output completes it.                    *)
LEMMA Scales ==
    ASSUME NEW j, NEW M0, NEW p, Fits(j, p), InSingle(p), Same(j, M0, memory), p.k = 0 \/ p.alpha = 0,
           CarryOut(Scaled(p))
    PROVE  Done(j, p, M0, memory')
<1> DEFINE q == Scaled(p)
<1>1. /\ q.kernel = "ScaleOutput" /\ q.output = p.C /\ q.rows = p.m /\ q.cols = p.n /\ q.ld = p.ldc
      /\ q.stride = p.strideC /\ q.count = p.m * p.n * p.batchCount /\ q.beta = p.beta
  BY ScaledFields
<1>2. ScaleOutput(q)
  BY <1>1 DEF CarryOut
<1> HIDE DEF q
<1>3. /\ p.m \in Nat /\ p.n \in Nat /\ p.ldc \in Nat /\ p.strideC \in Nat /\ p.batchCount \in Nat
      /\ Spread(p.batchCount, p.m, p.n, p.ldc, p.strideC) /\ p.C \in Buffers /\ p.out = TypeOf(j, p.C)
  BY DEF Fits
<1>5. /\ q.rows \in Nat /\ q.cols \in Nat /\ q.ld \in Nat /\ q.stride \in Nat
      /\ q.count = q.rows * q.cols * p.batchCount
      /\ Spread(p.batchCount, q.rows, q.cols, q.ld, q.stride)
      /\ q.output \in Buffers /\ "kFLOAT32" = TypeOf(j, q.output)
  BY <1>1, <1>3 DEF InSingle
<1>6. Shaped(memory, j)
  BY DEF Same
<1>7. /\ Rewritten(j, memory, memory', Buffers \ {q.output}, q.output, p.batchCount, q.rows, q.cols, q.ld, q.stride)
      /\ HoldsScaled(q, p.batchCount, memory, memory')
  BY <1>2, <1>3, <1>5, <1>6, ScaleOutputLeaves
<1>8. memory[p.C] = M0[p.C] /\ \A x \in Buffers \ (Temporaries \cup {p.C}) : memory[x] = M0[x]
  BY DEF Same, InSingle, Outside
<1>9. ASSUME NEW b \in 0 .. p.batchCount - 1, NEW h \in 0 .. p.n - 1, NEW i \in 0 .. p.m - 1
      PROVE  memory'[p.C].cells[At(b, h, i, p.ldc, p.strideC)] = Value(p, M0, b, h, i)
  <2>1. Summed(p, M0, b, h, i) = {}
    <3>1. CASE p.alpha = 0
      BY <3>1 DEF Summed
    <3>2. CASE p.k = 0
      <4>1. 0 .. p.k - 1 = {}
        BY <3>2
      <4>2. {Times(OfA(p, M0, b, i, l), OfB(p, M0, b, l, h)) : l \in 0 .. p.k - 1} = {}
        BY <4>1
      <4> QED
        BY <4>2 DEF Summed
    <3> QED
      BY <3>1, <3>2
  <2>2. memory'[p.C].cells[At(b, h, i, p.ldc, p.strideC)] = Before(p, M0, b, h, i)
    <3> DEFINE o == At(b, h, i, p.ldc, p.strideC)
    <3>1. memory'[p.C].cells[o] = IF p.beta = 0 THEN {} ELSE ReadIn(memory, p.C, "kFLOAT32", o)
      BY <1>1, <1>7 DEF HoldsScaled
    <3>2. ReadIn(memory, p.C, "kFLOAT32", o) = ReadIn(M0, p.C, p.out, o)
      BY <1>8 DEF InSingle, ReadIn
    <3> QED
      BY ONLY <3>1, <3>2 DEF Before
  <2> QED
    BY <2>1, <2>2 DEF Value
<1>10. Rewritten(j, memory, memory', Buffers \ {p.C}, p.C, p.batchCount, p.m, p.n, p.ldc, p.strideC)
  BY <1>1, <1>7
<1>11. Rewritten(j, M0, memory', Buffers \ (Temporaries \cup {p.C}), p.C, p.batchCount, p.m, p.n, p.ldc, p.strideC)
  BY <1>8, <1>10 DEF Rewritten
<1> QED
  BY <1>9, <1>11 DEF Done, Multiplied

(* The library alone completes the product of the caller.                    *)
LEMMA Multiplies ==
    ASSUME NEW j, NEW M0, NEW p, Fits(j, p), Outside(p), Same(j, M0, memory), CarryOut(p)
    PROVE  Done(j, p, M0, memory')
<1>1. McblasGemm(p)
  <2>1. p.kernel = "mcblas"
    BY ParamFields
  <2> QED
    BY <2>1 DEF CarryOut
<1>2. Multiplied(j, p, memory, memory', Buffers \ {p.C})
  BY <1>1, McblasGemmLeaves DEF Same
<1>3. memory[p.C] = M0[p.C] /\ memory[p.A] = M0[p.A] /\ memory[p.B] = M0[p.B]
      /\ \A x \in Buffers \ (Temporaries \cup {p.C}) : memory[x] = M0[x]
  BY DEF Same, InSingle, Outside
<1>4. Rewritten(j, M0, memory', Buffers \ (Temporaries \cup {p.C}), p.C, p.batchCount, p.m, p.n, p.ldc, p.strideC)
  BY <1>2, <1>3 DEF Multiplied, Rewritten
<1>5. \A b, h, i : Value(p, memory, b, h, i) = Value(p, M0, b, h, i)
  BY <1>3 DEF Value, Summed, Before, OfA, OfB, ReadIn
<1> QED
  BY <1>2, <1>4, <1>5 DEF Done, Multiplied

(* A product with no element is complete from the start.                     *)
LEMMA NothingToMultiply ==
    ASSUME NEW j, NEW M0, NEW M, NEW p, Fits(j, p), Outside(p), Same(j, M0, M),
           p.m = 0 \/ p.n = 0 \/ p.batchCount = 0
    PROVE  Done(j, p, M0, M)
<1>1. 0 .. p.m - 1 = {} \/ 0 .. p.n - 1 = {} \/ 0 .. p.batchCount - 1 = {}
  OBVIOUS
<1>2. M[p.C] = M0[p.C] /\ \A x \in Buffers \ (Temporaries \cup {p.C}) : M[x] = M0[x]
  BY DEF Same, Outside
<1>3. Rewritten(j, M0, M, Buffers \ (Temporaries \cup {p.C}), p.C, p.batchCount, p.m, p.n, p.ldc, p.strideC)
  BY <1>1, <1>2 DEF Rewritten, Same
<1> QED
  BY <1>1, <1>3 DEF Done, Multiplied

(* Where the kernels of a product are that is M0's: what is left of them, and *)
(* what the memory holds by then.                                            *)
Toward(j, p, M0, q, M) ==
    \/ q = <<p>> /\ Same(j, M0, M)
    \/ q = <<>> /\ Done(j, p, M0, M)
    \/ /\ InSingle(p) /\ Same(j, M0, M)
       /\ \/ q = <<Scaled(p)>> /\ (p.k = 0 \/ p.alpha = 0)
          \/ q = <<PackedA(p), PackedB(p), PackedC(p), InDouble(p), Unpacked(p)>>
          \/ q = <<PackedA(p), PackedB(p), InDouble(p), Unpacked(p)>> /\ p.beta = 0
          \/ q = <<PackedB(p), PackedC(p), InDouble(p), Unpacked(p)>> /\ HasA(p, M0, M)
          \/ q = <<PackedB(p), InDouble(p), Unpacked(p)>> /\ HasA(p, M0, M) /\ p.beta = 0
          \/ q = <<PackedC(p), InDouble(p), Unpacked(p)>> /\ HasA(p, M0, M) /\ HasB(p, M0, M)
          \/ /\ q = <<InDouble(p), Unpacked(p)>>
             /\ HasA(p, M0, M) /\ HasB(p, M0, M) /\ (p.beta # 0 => HasC(p, M0, M))
          \/ q = <<Unpacked(p)>> /\ HasProduct(p, M0, M)

(* Either path leads to the product of its parameters.                       *)
LEMMA ProductStarts ==
    ASSUME NEW j, NEW M0, NEW M, NEW p, Fits(j, p), Outside(p), Same(j, M0, M), NEW q,
           q = <<p>> \/ (p.out = "kFLOAT32" /\ q = GemmFp64Accum(p))
    PROVE  Toward(j, p, M0, q, M)
<1>1. CASE q = <<p>>
  BY <1>1 DEF Toward
<1>2. CASE p.out = "kFLOAT32" /\ q = GemmFp64Accum(p)
  <2>1. CASE p.m = 0 \/ p.n = 0 \/ p.batchCount = 0
    <3>1. q = <<>>
      BY <1>2, <2>1 DEF GemmFp64Accum
    <3> QED
      BY <2>1, <3>1, NothingToMultiply DEF Toward
  <2>2. CASE ~(p.m = 0 \/ p.n = 0 \/ p.batchCount = 0) /\ (p.k = 0 \/ p.alpha = 0)
    <3>1. q = <<Scaled(p)>>
      BY <1>2, <2>2 DEF GemmFp64Accum
    <3> QED
      BY <1>2, <2>2, <3>1 DEF Toward, InSingle
  <2>3. CASE ~(p.m = 0 \/ p.n = 0 \/ p.batchCount = 0) /\ ~(p.k = 0 \/ p.alpha = 0)
    <3>1. \/ q = <<PackedA(p), PackedB(p), PackedC(p), InDouble(p), Unpacked(p)>>
          \/ q = <<PackedA(p), PackedB(p), InDouble(p), Unpacked(p)>> /\ p.beta = 0
      BY <1>2, <2>3 DEF GemmFp64Accum, CopiedIn
    <3> QED
      BY <1>2, <3>1 DEF Toward, InSingle
  <2> QED
    BY <2>1, <2>2, <2>3
<1> QED
  BY <1>1, <1>2

(* Each kernel that is carried out keeps on the way to it.                   *)
LEMMA ProductGoesOn ==
    ASSUME NEW j, NEW M0, NEW p, Fits(j, p), Outside(p), Toward(j, p, M0, queue, memory),
           queue # <<>>, CarryOut(Head(queue)), queue' = Tail(queue)
    PROVE  Toward(j, p, M0, queue', memory')
<1>1. CASE queue = <<p>> /\ Same(j, M0, memory)
  <2>1. Head(queue) = p /\ queue' = <<>>
    BY <1>1
  <2> QED
    BY <1>1, <2>1, Multiplies DEF Toward
<1>2. ASSUME InSingle(p), Same(j, M0, memory), queue = <<Scaled(p)>>, p.k = 0 \/ p.alpha = 0
      PROVE  Toward(j, p, M0, queue', memory')
  <2>1. Head(queue) = Scaled(p) /\ queue' = <<>>
    BY <1>2
  <2> QED
    BY <1>2, <2>1, Scales DEF Toward
<1>3. ASSUME InSingle(p), Same(j, M0, memory),
             queue = <<PackedA(p), PackedB(p), PackedC(p), InDouble(p), Unpacked(p)>>
      PROVE  Toward(j, p, M0, queue', memory')
  <2>1. Head(queue) = PackedA(p) /\ queue' = <<PackedB(p), PackedC(p), InDouble(p), Unpacked(p)>>
    BY <1>3
  <2> QED
    BY <1>3, <2>1, PacksA DEF Toward
<1>4. ASSUME InSingle(p), Same(j, M0, memory),
             queue = <<PackedA(p), PackedB(p), InDouble(p), Unpacked(p)>>, p.beta = 0
      PROVE  Toward(j, p, M0, queue', memory')
  <2>1. Head(queue) = PackedA(p) /\ queue' = <<PackedB(p), InDouble(p), Unpacked(p)>>
    BY <1>4
  <2> QED
    BY <1>4, <2>1, PacksA DEF Toward
<1>5. ASSUME InSingle(p), Same(j, M0, memory),
             queue = <<PackedB(p), PackedC(p), InDouble(p), Unpacked(p)>>, HasA(p, M0, memory)
      PROVE  Toward(j, p, M0, queue', memory')
  <2>1. Head(queue) = PackedB(p) /\ queue' = <<PackedC(p), InDouble(p), Unpacked(p)>>
    BY <1>5
  <2> QED
    BY <1>5, <2>1, PacksB DEF Toward
<1>6. ASSUME InSingle(p), Same(j, M0, memory),
             queue = <<PackedB(p), InDouble(p), Unpacked(p)>>, HasA(p, M0, memory), p.beta = 0
      PROVE  Toward(j, p, M0, queue', memory')
  <2>1. Head(queue) = PackedB(p) /\ queue' = <<InDouble(p), Unpacked(p)>>
    BY <1>6
  <2> QED
    BY <1>6, <2>1, PacksB DEF Toward
<1>7. ASSUME InSingle(p), Same(j, M0, memory),
             queue = <<PackedC(p), InDouble(p), Unpacked(p)>>, HasA(p, M0, memory), HasB(p, M0, memory)
      PROVE  Toward(j, p, M0, queue', memory')
  <2>1. Head(queue) = PackedC(p) /\ queue' = <<InDouble(p), Unpacked(p)>>
    BY <1>7
  <2> QED
    BY <1>7, <2>1, PacksC DEF Toward
<1>8. ASSUME InSingle(p), Same(j, M0, memory), queue = <<InDouble(p), Unpacked(p)>>,
             HasA(p, M0, memory), HasB(p, M0, memory), p.beta # 0 => HasC(p, M0, memory)
      PROVE  Toward(j, p, M0, queue', memory')
  <2>1. Head(queue) = InDouble(p) /\ queue' = <<Unpacked(p)>>
    BY <1>8
  <2> QED
    BY <1>8, <2>1, MultipliesInDouble DEF Toward
<1>9. ASSUME InSingle(p), Same(j, M0, memory), queue = <<Unpacked(p)>>, HasProduct(p, M0, memory)
      PROVE  Toward(j, p, M0, queue', memory')
  <2>1. Head(queue) = Unpacked(p) /\ queue' = <<>>
    BY <1>9
  <2> QED
    BY <1>9, <2>1, Unpacks DEF Toward
<1> QED
  BY <1>1, <1>2, <1>3, <1>4, <1>5, <1>6, <1>7, <1>8, <1>9 DEF Toward

(***************************************************************************)
(* Row-major arrays.                                                       *)
(***************************************************************************)
LEMMA Products ==
    ASSUME NEW x \in Nat, NEW y \in Nat
    PROVE  x * y \in Nat /\ x * y = y * x
OBVIOUS

(* The gap of an only matrix does not matter.                             *)
Strided(B, R, C, s) == B > 1 => s = R * C

CellsOf(B, R, C) == 0 .. B * R * C - 1

(* An element of tight matrices is where row-major order has it.             *)
LEMMA RowMajorPlace ==
    ASSUME NEW B \in Nat, NEW R \in Nat, NEW C \in Nat, NEW s \in Nat, Strided(B, R, C, s),
           NEW b \in 0 .. B - 1, NEW r \in 0 .. R - 1, NEW c \in 0 .. C - 1
    PROVE  /\ At(b, r, c, C, s) = (b * R + r) * C + c
           /\ (b * R + r) * C + c \in CellsOf(B, R, C)
<1>1. b * R + r \in 0 .. B * R - 1
  BY TwoDigits
<1>2. B * R \in Nat
  BY Products
<1> DEFINE x == b * R + r
           y == B * R
<1> HIDE DEF x, y
<1>3. x \in 0 .. y - 1 /\ y \in Nat
  BY <1>1, <1>2 DEF x, y
<1>4. x * C + c \in 0 .. y * C - 1
  BY <1>3, TwoDigits
<1>5. b * s = b * (R * C)
  <2>1. R * C \in Nat
    BY Products
  <2>2. CASE B > 1
    BY <2>2 DEF Strided
  <2>3. CASE ~(B > 1)
    <3>1. b = 0
      BY <2>3
    <3>2. \A z \in Nat : 0 * z = 0
      OBVIOUS
    <3> QED
      BY ONLY <2>1, <3>1, <3>2, s \in Nat
  <2> QED
    BY <2>2, <2>3
<1>6. (b * R + r) * C + c = b * (R * C) + r * C + c
  OBVIOUS
<1>7. At(b, r, c, C, s) = b * (R * C) + r * C + c
  BY ONLY <1>5 DEF At
<1> QED
  BY ONLY <1>4, <1>6, <1>7 DEF x, y, CellsOf

(* Each cell of a row-major array is the place of one element.               *)
LEMMA RowMajorDigits ==
    ASSUME NEW B \in Nat, NEW R \in Nat, NEW C \in Nat, NEW s \in Nat, Strided(B, R, C, s),
           NEW o \in CellsOf(B, R, C)
    PROVE  /\ o \div (R * C) \in 0 .. B - 1 /\ (o \div C) % R \in 0 .. R - 1 /\ o % C \in 0 .. C - 1
           /\ o = At(o \div (R * C), (o \div C) % R, o % C, C, s)
<1> DEFINE y == B * R
           e == o \div C
           b == e \div R
           r == e % R
           c == o % C
<1>1. y \in Nat
  BY Products
<1>2. o \in 0 .. y * C - 1
  BY DEF CellsOf
<1> HIDE DEF y
<1>3. e \in 0 .. y - 1 /\ c \in 0 .. C - 1 /\ o = e * C + c
  BY <1>1, <1>2, DigitsOf
<1>4. e \in 0 .. B * R - 1
  BY <1>3 DEF y
<1> HIDE DEF e
<1>5. b \in 0 .. B - 1 /\ r \in 0 .. R - 1 /\ e = b * R + r
  BY <1>4, DigitsOf
<1> HIDE DEF b, r, c
<1>6. At(b, r, c, C, s) = (b * R + r) * C + c
  BY <1>3, <1>5, RowMajorPlace
<1>7. o = At(b, r, c, C, s)
  BY ONLY <1>3, <1>5, <1>6
<1>8. o \div (R * C) = b
  <2>1. r * C + c \in 0 .. R * C - 1
    BY <1>3, <1>5, TwoDigits
  <2>2. R * C \in Nat
    BY Products
  <2> DEFINE d == R * C
             i == r * C + c
  <2>3. o = b * d + i
    <3>1. (b * R + r) * C + c = b * (R * C) + (r * C + c)
      BY <1>3, <1>5
    <3> QED
      BY ONLY <1>3, <1>5, <3>1
  <2> HIDE DEF d, i
  <2>4. d \in Nat /\ i \in 0 .. d - 1
    BY <2>1, <2>2 DEF d, i
  <2>5. (b * d + i) \div d = b
    BY <1>5, <2>4, TwoDigits
  <2> QED
    BY <2>3, <2>5 DEF d
<1> QED
  BY <1>3, <1>5, <1>7, <1>8 DEF e, r, c

Filled(p, M0, M, B, R, C) ==
    /\ M[p.C].cells = [o \in CellsOf(B, R, C) |-> M[p.C].cells[o]]
    /\ \A o \in CellsOf(B, R, C) :
         /\ o \div (R * C) \in 0 .. B - 1 /\ (o \div C) % R \in 0 .. R - 1 /\ o % C \in 0 .. C - 1
         /\ M[p.C].cells[o] = Value(p, M0, o \div (R * C), (o \div C) % R, o % C)

(* What a product leaves in columns of C cells, of which it has some.         *)
PaddedCells(p, M0, M, B, R, C) ==
    /\ M[p.C].cells = [o \in CellsOf(B, R, C) |-> M[p.C].cells[o]]
    /\ \A o \in CellsOf(B, R, C) :
         /\ o \div (R * C) \in 0 .. B - 1 /\ (o \div C) % R \in 0 .. R - 1 /\ o % C \in 0 .. C - 1
         /\ o % C < p.m => M[p.C].cells[o] = Value(p, M0, o \div (R * C), (o \div C) % R, o % C)
         /\ o % C >= p.m => M[p.C].cells[o] = M0[p.C].cells[o]

(* What a product leaves in matrices with padding, cell by cell.             *)
LEMMA PaddedResult ==
    ASSUME NEW j, NEW p, NEW M0, NEW M, Fits(j, p), Done(j, p, M0, M),
           NEW B \in Nat, NEW R \in Nat, NEW C \in Nat,
           p.batchCount = B, p.n = R, p.m <= C, p.ldc = C, Strided(B, R, C, p.strideC),
           DOMAIN M0[p.C].cells = CellsOf(B, R, C)
    PROVE  PaddedCells(p, M0, M, B, R, C)
<1> DEFINE s == p.strideC
           m == p.m
           N == M[p.C].cells
<1>1. s \in Nat /\ m \in Nat /\ m <= C
  BY DEF Fits
<1>2. ASSUME NEW b \in 0 .. B - 1, NEW h \in 0 .. R - 1, NEW i \in 0 .. m - 1
      PROVE  N[At(b, h, i, C, s)] = Value(p, M0, b, h, i)
  BY DEF Done, Multiplied
<1>3. /\ Shaped(M, j)
      /\ \A o \in DOMAIN N : o \in DOMAIN M0[p.C].cells \/ InMatrix(o, B, m, R, C, s)
      /\ \A o \in DOMAIN M0[p.C].cells : /\ o \in DOMAIN N
                                         /\ InMatrix(o, B, m, R, C, s) \/ N[o] = M0[p.C].cells[o]
  BY DEF Done, Multiplied, Rewritten
<1>4. N = [o \in DOMAIN N |-> N[o]]
  BY <1>3 DEF Shaped, Fits
<1>0. Strided(B, R, C, s)
  OBVIOUS
<1> HIDE DEF s, N, m
<1>8. ASSUME NEW b \in 0 .. B - 1, NEW h \in 0 .. R - 1, NEW i \in 0 .. C - 1
      PROVE  /\ At(b, h, i, C, s) \in CellsOf(B, R, C)
             /\ At(b, h, i, C, s) = (b * R + h) * C + i /\ At(b, h, i, C, s) % C = i
  <2>1. At(b, h, i, C, s) = (b * R + h) * C + i /\ (b * R + h) * C + i \in CellsOf(B, R, C)
    BY ONLY B \in Nat, R \in Nat, C \in Nat, b \in 0 .. B - 1, h \in 0 .. R - 1, i \in 0 .. C - 1,
            <1>0, <1>1, RowMajorPlace
  <2> DEFINE x == b * R + h
             y == B * R
  <2>2. x \in 0 .. y - 1 /\ y \in Nat
    BY ONLY B \in Nat, R \in Nat, b \in 0 .. B - 1, h \in 0 .. R - 1, TwoDigits, Products
  <2> HIDE DEF x, y
  <2>3. (x * C + i) % C = i
    BY ONLY C \in Nat, i \in 0 .. C - 1, <2>2, TwoDigits
  <2> QED
    BY ONLY <2>1, <2>3 DEF x
<1>5. \A o : InMatrix(o, B, m, R, C, s) => o \in CellsOf(B, R, C) /\ o % C < m
  <2> SUFFICES ASSUME NEW b \in 0 .. B - 1, NEW h \in 0 .. R - 1, NEW i \in 0 .. m - 1
               PROVE  At(b, h, i, C, s) \in CellsOf(B, R, C) /\ At(b, h, i, C, s) % C < m
    BY DEF InMatrix
  <2>1. i \in 0 .. C - 1 /\ i < m
    BY ONLY C \in Nat, <1>1, i \in 0 .. m - 1
  <2>2. At(b, h, i, C, s) \in CellsOf(B, R, C) /\ At(b, h, i, C, s) % C = i
    BY <1>8, <2>1
  <2> QED
    BY ONLY <2>1, <2>2
<1>6. DOMAIN N = CellsOf(B, R, C)
  BY <1>3, <1>5
<1>7. ASSUME NEW o \in CellsOf(B, R, C)
      PROVE  /\ o \div (R * C) \in 0 .. B - 1 /\ (o \div C) % R \in 0 .. R - 1 /\ o % C \in 0 .. C - 1
             /\ o % C < m => N[o] = Value(p, M0, o \div (R * C), (o \div C) % R, o % C)
             /\ o % C >= m => N[o] = M0[p.C].cells[o]
  <2>2. /\ o \div (R * C) \in 0 .. B - 1 /\ (o \div C) % R \in 0 .. R - 1 /\ o % C \in 0 .. C - 1
        /\ o = At(o \div (R * C), (o \div C) % R, o % C, C, s)
    BY ONLY B \in Nat, R \in Nat, C \in Nat, o \in CellsOf(B, R, C), <1>0, <1>1, RowMajorDigits
  <2>3. o % C < m => o % C \in 0 .. m - 1
    BY ONLY <2>2, <1>1, C \in Nat
  <2>4. o % C < m => N[o] = Value(p, M0, o \div (R * C), (o \div C) % R, o % C)
    BY ONLY <1>2, <2>2, <2>3
  <2>5. o % C >= m => ~InMatrix(o, B, m, R, C, s)
    BY ONLY <1>1, <1>5, <2>2, C \in Nat
  <2>6. o % C >= m => N[o] = M0[p.C].cells[o]
    BY <1>3, <2>5
  <2> QED
    BY ONLY <2>2, <2>4, <2>6
<1> QED
  BY ONLY <1>4, <1>6, <1>7 DEF N, m, PaddedCells

(* What a product leaves in a row-major array of B times R by C.             *)
LEMMA RowMajorResult ==
    ASSUME NEW j, NEW p, NEW M0, NEW M, Fits(j, p), Done(j, p, M0, M),
           NEW B \in Nat, NEW R \in Nat, NEW C \in Nat,
           p.batchCount = B, p.n = R, p.m = C, p.ldc = C, Strided(B, R, C, p.strideC),
           DOMAIN M0[p.C].cells = CellsOf(B, R, C)
    PROVE  Filled(p, M0, M, B, R, C)
<1>1. PaddedCells(p, M0, M, B, R, C)
  BY PaddedResult
<1>2. \A i \in 0 .. C - 1 : i < p.m
  OBVIOUS
<1> QED
  BY ONLY <1>1, <1>2 DEF PaddedCells, Filled

(***************************************************************************)
(* The calls: the product that each asks Gemm for, and the kernel that     *)
(* comes before it.                                                        *)
(***************************************************************************)
MatmulForwardProduct(j) ==
    Params(FALSE, FALSE, j.n, j.m, j.k, "other", j.n, "input", j.k, "output", j.n, 1, 0,
           Batch(j.bs, j.n * j.k, j.k * j.m, j.m * j.n), ComputeType(j), ComputeType(j))
MatmulBackwardInputProduct(j) ==
    Params(TRUE, FALSE, j.k, j.m, j.n, "other", j.n, Grad(j), j.n, "output", j.k, 1, 0,
           Batch(j.bs, j.k * j.n, j.n * j.m, j.m * j.k), ComputeType(j), OutputType(ComputeType(j)))
MatmulBackwardOtherProduct(j) ==
    Params(FALSE, TRUE, j.n, j.k, j.m, Grad(j), j.n, "input", j.k, "output", j.n, 1, 0,
           Batch(j.bs, j.n * j.m, j.k * j.m, j.n * j.k), ComputeType(j), OutputType(ComputeType(j)))
LinearForwardProduct(j) ==
    Params(j.transpose, FALSE, j.n, j.m, j.k, "other", IF j.transpose THEN j.k ELSE j.n,
           "input", j.k, "output", j.n, 1, IF j.bias THEN 1 ELSE 0, Batch(1, 0, 0, 0), ComputeType(j), ComputeType(j))
LinearBackwardInputProduct(j) ==
    Params(~j.transpose, FALSE, j.k, j.m, j.n, "other", IF j.transpose THEN j.k ELSE j.n,
           Grad(j), j.n, "output", j.k, 1, 0, Batch(1, 0, 0, 0), ComputeType(j), OutputType(ComputeType(j)))
LinearBackwardWeightProduct(j) ==
    IF j.transpose
    THEN Params(FALSE, TRUE, j.k, j.n, j.m, "input", j.k, Grad(j), j.n, "output", j.k, 1, 0,
                Batch(1, 0, 0, 0), ComputeType(j), OutputType(ComputeType(j)))
    ELSE Params(FALSE, TRUE, j.n, j.k, j.m, Grad(j), j.n, "input", j.k, "output", j.n, 1, 0,
                Batch(1, 0, 0, 0), ComputeType(j), OutputType(ComputeType(j)))
OuterForwardProduct(j) ==
    Params(FALSE, FALSE, j.n, j.m, 1, "other", j.n, "input", 1, "output", j.n, 1, 0,
           Batch(1, 0, 0, 0), ComputeType(j), ComputeType(j))
DirectProduct(j) ==
    Params(j.transpose, FALSE, j.m, j.n, j.k, "input", DirectA(j).ld, "other", Ld(j.k, j),
           "output", Ld(j.m, j), j.alpha, j.beta, DirectStrides(j), ComputeType(j), ComputeType(j))

ProductFor(j) ==
    CASE j.op = "MatmulForward" -> MatmulForwardProduct(j)
      [] j.op = "MatmulBackwardInput" -> MatmulBackwardInputProduct(j)
      [] j.op = "MatmulBackwardOther" -> MatmulBackwardOtherProduct(j)
      [] j.op = "LinearForward" -> LinearForwardProduct(j)
      [] j.op = "LinearBackwardInput" -> LinearBackwardInputProduct(j)
      [] j.op = "LinearBackwardWeight" -> LinearBackwardWeightProduct(j)
      [] j.op = "OuterForward" -> OuterForwardProduct(j)
      [] j.op = "Gemm" -> DirectProduct(j)

(* The two products of OuterBackward.                                        *)
OuterProduct1(j) ==
    IF ComputeType(j) = "kFLOAT32"
    THEN Params(TRUE, FALSE, j.m, 1, j.n, Grad(j), j.n, Operand(j, "other"), j.n, "output", j.m, 1, 0,
                Batch(1, 0, 0, 0), ComputeType(j), ComputeType(j))
    ELSE Params(FALSE, FALSE, 1, j.m, j.n, Operand(j, "other"), 1, Grad(j), j.n, "output", 1, 1, 0,
                Batch(1, 0, 0, 0), ComputeType(j), OutputType(ComputeType(j)))
OuterProduct2(j) ==
    IF ComputeType(j) = "kFLOAT32"
    THEN Params(FALSE, FALSE, j.n, 1, j.m, Grad(j), j.n, Operand(j, "input"), j.m, "output2", j.n, 1, 0,
                Batch(1, 0, 0, 0), ComputeType(j), ComputeType(j))
    ELSE Params(FALSE, TRUE, 1, j.n, j.m, Operand(j, "input"), 1, Grad(j), j.n, "output2", 1, 1, 0,
                Batch(1, 0, 0, 0), ComputeType(j), OutputType(ComputeType(j)))

Singles == Matmuls \cup {"LinearForward", "LinearBackwardInput", "LinearBackwardWeight", "OuterForward", "Gemm"}
Promotes(j) == Converted(j) # {}
AddsBias(j) == j.op = "LinearForward" /\ j.bias

(* The memory when the products of a call begin.                             *)
Biased(j) == [o \in 0 .. j.m * j.n - 1 |-> {{<<"bias", o % j.n>>}}]
Prepared(j, M) ==
    /\ Shaped(M, j)
    /\ \A b \in Operands \cup {"output2"} : M[b] = Memory(j)[b]
    /\ \A b \in Converted(j) : M[PromotedOf[b]].cells = Memory(j)[b].cells
    /\ IF AddsBias(j) THEN SameTypes(j) => M["output"].cells = Biased(j)
       ELSE M["output"].cells = Memory(j)["output"].cells

(* The calls that are made.                                                  *)
Called(j) == j \in Jobs /\ ComputeType(j) \in {"kFLOAT32", "kBFLOAT16"}

(* The fields of a call that Gemm does not refuse.                           *)
LEMMA CalledFields ==
    ASSUME NEW j, Called(j)
    PROVE  /\ j.op \in Matmuls \cup Linears \cup Outers \cup {"Gemm"}
           /\ j.m \in Nat /\ j.k \in Nat /\ j.n \in Nat /\ j.bs \in Nat /\ j.pad \in Nat
           /\ ComputeType(j) \in {"kFLOAT32", "kBFLOAT16"} /\ j.gradType \in DataTypes
           /\ j.transpose \in BOOLEAN /\ j.bias \in BOOLEAN /\ j.broadcast \in BOOLEAN
           /\ j.alpha \in {0, 1} /\ j.beta \in {0, 1}
           /\ j.op \in Linears \cup Outers => j.bs = 1
           /\ j.op = "LinearBackwardBias" => j.gradType = ComputeType(j)
<1>1. j \in Job
  BY GemmAssumption DEF Called
<1>2. \A i \in Jobs : i.op \in Linears \cup Outers => i.bs = 1
  BY GemmAssumption
<1>3. j.op = "LinearBackwardBias" => ComputeType(j) = j.gradType
  BY DEF ComputeType
<1> QED
  BY <1>1, <1>2, <1>3 DEF Job, Called

(* The buffers at the start of a call.                                       *)
LEMMA StartCells ==
    ASSUME NEW j, NEW b \in Buffers
    PROVE  /\ Memory(j)[b].dtype = TypeOf(j, b)
           /\ Memory(j)[b].cells = [o \in 0 .. Size(j, b) - 1 |-> {{<<b, o>>}}]
<1> DEFINE t == TypeOf(j, b)
           c == [o \in 0 .. Size(j, b) - 1 |-> {{<<b, o>>}}]
<1>1. Memory(j)[b] = [dtype |-> t, cells |-> c]
  BY DEF Memory, Unwritten, Buffers, Operands, Promotions
<1> HIDE DEF t, c
<1>2. Memory(j)[b].dtype = t /\ Memory(j)[b].cells = c
  BY <1>1
<1> QED
  BY <1>2 DEF t, c

(* The names of the buffers, their types and their sizes.                    *)
LEMMA Names ==
    /\ "input" \in Buffers /\ "other" \in Buffers /\ "grad" \in Buffers /\ "bias" \in Buffers
    /\ "promotedInput" \in Buffers /\ "promotedOther" \in Buffers /\ "promotedGrad" \in Buffers
    /\ "output" \in Buffers /\ "output2" \in Buffers
BY DEF Buffers, Operands

LEMMA TypesOfBuffers ==
    ASSUME NEW j
    PROVE  /\ TypeOf(j, "input") = j.inputType /\ TypeOf(j, "other") = j.otherType
           /\ TypeOf(j, "bias") = j.biasType /\ TypeOf(j, "grad") = j.gradType
           /\ TypeOf(j, "promotedInput") = ComputeType(j) /\ TypeOf(j, "promotedOther") = ComputeType(j)
           /\ TypeOf(j, "promotedGrad") = ComputeType(j)
           /\ TypeOf(j, "output") = TypeOfOutput(j) /\ TypeOf(j, "output2") = TypeOfOutput(j)
           /\ \A b \in Temporaries : TypeOf(j, b) = "kFLOAT64"
<1>1. TypeOf(j, "input") = j.inputType
  BY DEF TypeOf, GivenType, Operands, Promotions, Temporaries
<1>2. TypeOf(j, "other") = j.otherType
  BY DEF TypeOf, GivenType, Operands, Promotions, Temporaries
<1>3. TypeOf(j, "bias") = j.biasType
  BY DEF TypeOf, GivenType, Operands, Promotions, Temporaries
<1>4. TypeOf(j, "grad") = j.gradType
  BY DEF TypeOf, GivenType, Operands, Promotions, Temporaries
<1>5. /\ TypeOf(j, "promotedInput") = ComputeType(j) /\ TypeOf(j, "promotedOther") = ComputeType(j)
      /\ TypeOf(j, "promotedGrad") = ComputeType(j)
  BY DEF TypeOf, Operands, Promotions, Temporaries
<1>6. TypeOf(j, "output") = TypeOfOutput(j)
  BY DEF TypeOf, Operands, Promotions, Temporaries
<1>7. TypeOf(j, "output2") = TypeOfOutput(j)
  BY DEF TypeOf, Operands, Promotions, Temporaries
<1>8. \A b \in Temporaries : TypeOf(j, b) = "kFLOAT64"
  BY DEF TypeOf, Operands, Promotions, Temporaries
<1> QED
  BY ONLY <1>1, <1>2, <1>3, <1>4, <1>5, <1>6, <1>7, <1>8

(* The operands of a product have the type that it computes in, the operands *)
(* of a forward operation when they are of one type.                         *)
LEMMA OperandTypes ==
    ASSUME NEW j, SameTypes(j)
    PROVE  /\ j.op \in {"MatmulForward", "MatmulBackwardOther", "LinearForward", "LinearBackwardWeight",
                         "OuterForward", "Gemm"} => j.inputType = ComputeType(j)
           /\ j.op \in {"MatmulForward", "MatmulBackwardInput", "LinearForward", "LinearBackwardInput",
                         "OuterForward", "Gemm"} => j.otherType = ComputeType(j)
           /\ AddsBias(j) => j.biasType = ComputeType(j)
BY DEF ComputeType, SameTypes, Forwards, AddsBias

LEMMA SizesOfBuffers ==
    ASSUME NEW j
    PROVE  /\ Size(j, "grad") = j.bs * j.m * j.n /\ Size(j, "promotedGrad") = j.bs * j.m * j.n
           /\ Size(j, "promotedInput") = j.m /\ Size(j, "promotedOther") = j.n
           /\ Size(j, "bias") = j.n /\ Size(j, "output") = OutputSize(j)
<1>1. Size(j, "grad") = j.bs * j.m * j.n
  BY DEF Size, Temporaries
<1>2. Size(j, "promotedGrad") = j.bs * j.m * j.n
  BY DEF Size, Temporaries
<1>3. Size(j, "bias") = j.n
  BY DEF Size, Temporaries
<1>4. Size(j, "output") = OutputSize(j)
  BY DEF Size, Temporaries
<1>5. Size(j, "promotedInput") = j.m
  BY DEF Size, Temporaries
<1>6. Size(j, "promotedOther") = j.n
  BY DEF Size, Temporaries
<1> QED
  BY ONLY <1>1, <1>2, <1>3, <1>4, <1>5, <1>6

(* The operands are read as the caller gave them.                            *)
LEMMA ReadsOperand ==
    ASSUME NEW j, NEW M, Prepared(j, M), NEW b \in {"input", "other"}, NEW o \in 0 .. Size(j, b) - 1,
           TypeOf(j, b) = ComputeType(j)
    PROVE  ReadIn(M, b, ComputeType(j), o) = {{<<b, o>>}}
<1>1. b \in Buffers /\ M[b] = Memory(j)[b] /\ TypeOf(j, b) = ComputeType(j)
  <2>1. b \in Operands
    BY DEF Operands
  <2>2. M[b] = Memory(j)[b]
    BY <2>1 DEF Prepared
  <2> QED
    BY <2>2, Names, TypesOfBuffers
<1>2. /\ Memory(j)[b].dtype = TypeOf(j, b)
      /\ Memory(j)[b].cells = [x \in 0 .. Size(j, b) - 1 |-> {{<<b, x>>}}]
  BY <1>1, StartCells
<1> DEFINE cells == M[b].cells
<1>3. cells = [x \in 0 .. Size(j, b) - 1 |-> {{<<b, x>>}}] /\ M[b].dtype = ComputeType(j)
  BY <1>1, <1>2
<1> HIDE DEF cells
<1>4. o \in DOMAIN cells /\ cells[o] = {{<<b, o>>}}
  BY <1>3
<1> QED
  BY <1>3, <1>4 DEF cells, ReadIn

(* What is converted, and its copies.                                        *)
LEMMA ConvertedOperands ==
    ASSUME NEW j
    PROVE  /\ Converted(j) \subseteq {"input", "other", "grad"}
           /\ j.op # "OuterBackward" => Converted(j) \subseteq {"grad"}
           /\ j.op \in Forwards => Converted(j) = {}
           /\ j.op \notin Forwards => ("grad" \in Converted(j) <=> TypeOf(j, "grad") # ComputeType(j))
           /\ j.op = "OuterBackward" => /\ "input" \in Converted(j) <=> TypeOf(j, "input") # ComputeType(j)
                                        /\ "other" \in Converted(j) <=> TypeOf(j, "other") # ComputeType(j)
           /\ PromotedOf["input"] = "promotedInput" /\ PromotedOf["other"] = "promotedOther"
           /\ PromotedOf["grad"] = "promotedGrad"
<1>1. /\ GivenType(j, "input") = TypeOf(j, "input") /\ GivenType(j, "other") = TypeOf(j, "other")
      /\ GivenType(j, "grad") = TypeOf(j, "grad")
  BY TypesOfBuffers DEF GivenType
<1>2. /\ PromotedOf["input"] = "promotedInput" /\ PromotedOf["other"] = "promotedOther"
      /\ PromotedOf["grad"] = "promotedGrad"
  BY DEF PromotedOf
<1>3. "OuterBackward" \notin Forwards
  BY DEF Forwards
<1> QED
  BY <1>1, <1>2, <1>3 DEF Converted

(* The buffer that stands for an operand: the one given, or its conversion.  *)
LEMMA OperandNames ==
    ASSUME NEW j
    PROVE  /\ Operand(j, "input") \in {"input", "promotedInput"}
           /\ Operand(j, "other") \in {"other", "promotedOther"}
           /\ Grad(j) \in {"grad", "promotedGrad"}
BY ConvertedOperands DEF Operand, Grad

(* An operand that may be converted is read as given, or as its conversion   *)
(* has it.                                                                   *)
LEMMA ReadsConverted ==
    ASSUME NEW j, NEW M, Prepared(j, M), NEW b \in {"input", "other", "grad"},
           b \in Converted(j) <=> TypeOf(j, b) # ComputeType(j), NEW o \in 0 .. Size(j, b) - 1
    PROVE  ReadIn(M, Operand(j, b), ComputeType(j), o) = {{<<b, o>>}}
<1>1. b \in Buffers /\ b \in Operands /\ PromotedOf[b] \in Buffers /\ TypeOf(j, PromotedOf[b]) = ComputeType(j)
  BY Names, TypesOfBuffers, ConvertedOperands DEF Operands
<1> DEFINE cells == M[Operand(j, b)].cells
<1>2. Memory(j)[b].cells = [x \in 0 .. Size(j, b) - 1 |-> {{<<b, x>>}}] /\ Memory(j)[b].dtype = TypeOf(j, b)
  BY <1>1, StartCells
<1>3. cells = [x \in 0 .. Size(j, b) - 1 |-> {{<<b, x>>}}] /\ M[Operand(j, b)].dtype = ComputeType(j)
  <2>1. CASE b \in Converted(j)
    <3>1. Operand(j, b) = PromotedOf[b] /\ M[PromotedOf[b]].cells = Memory(j)[b].cells
      BY <2>1 DEF Operand, Prepared
    <3>2. M[PromotedOf[b]].dtype = TypeOf(j, PromotedOf[b])
      BY <1>1, TypeOfBuffer DEF Prepared
    <3> QED
      BY <1>1, <1>2, <3>1, <3>2
  <2>2. CASE b \notin Converted(j)
    <3>1. Operand(j, b) = b /\ M[b] = Memory(j)[b] /\ TypeOf(j, b) = ComputeType(j)
      BY <1>1, <2>2 DEF Operand, Prepared
    <3> QED
      BY <1>2, <3>1
  <2> QED
    BY <2>1, <2>2
<1> HIDE DEF cells
<1>4. o \in DOMAIN cells /\ cells[o] = {{<<b, o>>}}
  BY <1>3
<1> QED
  BY <1>3, <1>4 DEF cells, ReadIn

(* The gradient is read as given, or as its conversion has it.               *)
LEMMA ReadsGrad ==
    ASSUME NEW j, NEW M, Prepared(j, M), j.op \notin Forwards, NEW o \in 0 .. j.bs * j.m * j.n - 1
    PROVE  ReadIn(M, Grad(j), ComputeType(j), o) = {{<<"grad", o>>}}
BY SizesOfBuffers, ConvertedOperands, ReadsConverted DEF Grad

(* Strides count only for a batch of more than one.                          *)
LEMMA BatchFields ==
    ASSUME NEW bs, NEW a, NEW b, NEW c
    PROVE  /\ Batch(bs, a, b, c)[1] = bs
           /\ Batch(bs, a, b, c)[2] = IF bs > 1 THEN a ELSE 0
           /\ Batch(bs, a, b, c)[3] = IF bs > 1 THEN b ELSE 0
           /\ Batch(bs, a, b, c)[4] = IF bs > 1 THEN c ELSE 0
BY DEF Batch

(* The stride of a batch is the size of its matrices.                        *)
LEMMA StrideFits ==
    ASSUME NEW B \in Nat, NEW R \in Nat, NEW C \in Nat
    PROVE  /\ (IF B > 1 THEN R * C ELSE 0) \in Nat
           /\ Strided(B, R, C, IF B > 1 THEN R * C ELSE 0)
           /\ Strided(B, R, C, IF B > 1 THEN C * R ELSE 0)
           /\ Spread(B, C, R, C, IF B > 1 THEN R * C ELSE 0)
           /\ Spread(B, C, R, C, IF B > 1 THEN C * R ELSE 0)
<1>1. R * C \in Nat /\ R * C = C * R
  BY Products
<1> QED
  BY ONLY <1>1, B \in Nat, C \in Nat DEF Strided, Spread

(* A product of two cells does not depend on their order.                    *)
LEMMA TimesCommutes ==
    ASSUME NEW x, NEW y
    PROVE  Times(x, y) = Times(y, x)
<1>1. \A u, v : u \cup v = v \cup u
  OBVIOUS
<1> QED
  BY <1>1 DEF Times

(* A product with alpha 1 and beta 0 is the sum of its terms.                *)
LEMMA PlainValue ==
    ASSUME NEW p, NEW M, NEW b, NEW h, NEW i, p.alpha = 1, p.beta = 0
    PROVE  Value(p, M, b, h, i) = UNION {Times(OfA(p, M, b, i, l), OfB(p, M, b, l, h)) : l \in 0 .. p.k - 1}
<1>1. Before(p, M, b, h, i) = {}
  BY DEF Before
<1>2. Summed(p, M, b, h, i) = UNION {Times(OfA(p, M, b, i, l), OfB(p, M, b, l, h)) : l \in 0 .. p.k - 1}
  BY DEF Summed
<1> QED
  BY ONLY <1>1, <1>2 DEF Value

(* The elements of the operands, where they are read.                        *)
LEMMA InputAt ==
    ASSUME NEW j, Called(j), SameTypes(j),
           j.op \in {"MatmulForward", "MatmulBackwardOther", "LinearForward", "LinearBackwardWeight"}, NEW M, Prepared(j, M),
           NEW b \in 0 .. j.bs - 1, NEW i \in 0 .. j.m - 1, NEW l \in 0 .. j.k - 1,
           NEW s \in Nat, Strided(j.bs, j.m, j.k, s)
    PROVE  ReadIn(M, "input", ComputeType(j), At(b, i, l, j.k, s)) = Input(j, b, i, l)
<1>1. j.bs \in Nat /\ j.m \in Nat /\ j.k \in Nat
  BY CalledFields
<1>2. At(b, i, l, j.k, s) = (b * j.m + i) * j.k + l /\ (b * j.m + i) * j.k + l \in CellsOf(j.bs, j.m, j.k)
  BY <1>1, RowMajorPlace
<1>3. Size(j, "input") = j.bs * j.m * j.k
  BY DEF Size, Temporaries, Outers
<1> DEFINE o == At(b, i, l, j.k, s)
<1>4. o \in 0 .. Size(j, "input") - 1
  BY ONLY <1>2, <1>3 DEF CellsOf
<1> HIDE DEF o
<1>5. ReadIn(M, "input", ComputeType(j), o) = {{<<"input", o>>}}
  BY <1>4, ReadsOperand, OperandTypes, TypesOfBuffers
<1> QED
  BY ONLY <1>2, <1>5 DEF Input, o

(* Where the elements of the right operand of a product are.                 *)
LEMMA OtherAt ==
    ASSUME NEW j, Called(j), SameTypes(j),
           j.op \in {"MatmulForward", "MatmulBackwardInput"}, NEW M, Prepared(j, M),
           NEW b \in 0 .. j.bs - 1, NEW l \in 0 .. j.k - 1, NEW h \in 0 .. j.n - 1,
           NEW s \in Nat, Strided(j.bs, j.k, j.n, s)
    PROVE  ReadIn(M, "other", ComputeType(j), At(b, l, h, j.n, s)) = Other(j, b, l, h)
<1>1. j.bs \in Nat /\ j.k \in Nat /\ j.n \in Nat
  BY CalledFields
<1>2. At(b, l, h, j.n, s) = (b * j.k + l) * j.n + h /\ (b * j.k + l) * j.n + h \in CellsOf(j.bs, j.k, j.n)
  BY <1>1, RowMajorPlace
<1>3. Size(j, "other") = j.bs * j.k * j.n
  BY DEF Size, Temporaries, Outers
<1> DEFINE o == At(b, l, h, j.n, s)
<1>4. o \in 0 .. Size(j, "other") - 1
  BY ONLY <1>2, <1>3 DEF CellsOf
<1> HIDE DEF o
<1>5. ReadIn(M, "other", ComputeType(j), o) = {{<<"other", o>>}}
  BY <1>4, ReadsOperand, OperandTypes, TypesOfBuffers
<1> QED
  BY ONLY <1>2, <1>5 DEF Other, o

(* Where the elements of the gradient of a product are.                      *)
LEMMA GradAt ==
    ASSUME NEW j, Called(j), j.op \notin Forwards, NEW M, Prepared(j, M),
           NEW b \in 0 .. j.bs - 1, NEW i \in 0 .. j.m - 1, NEW h \in 0 .. j.n - 1,
           NEW s \in Nat, Strided(j.bs, j.m, j.n, s)
    PROVE  ReadIn(M, Grad(j), ComputeType(j), At(b, i, h, j.n, s)) = GradOut(j, b, i, h)
<1>1. j.bs \in Nat /\ j.m \in Nat /\ j.n \in Nat /\ (j.op = "LinearBackwardBias" => j.gradType = ComputeType(j))
  BY CalledFields
<1>2. At(b, i, h, j.n, s) = (b * j.m + i) * j.n + h /\ (b * j.m + i) * j.n + h \in CellsOf(j.bs, j.m, j.n)
  BY <1>1, RowMajorPlace
<1> DEFINE o == At(b, i, h, j.n, s)
<1>3. o \in 0 .. j.bs * j.m * j.n - 1
  BY ONLY <1>2 DEF CellsOf
<1> HIDE DEF o
<1>4. ReadIn(M, Grad(j), ComputeType(j), o) = {{<<"grad", o>>}}
  BY <1>1, <1>3, ReadsGrad
<1> QED
  BY ONLY <1>2, <1>4 DEF GradOut, o

(* The output has a cell for each of its elements.                           *)
LEMMA OutputStarts ==
    ASSUME NEW j, NEW M, Prepared(j, M), ~AddsBias(j)
    PROVE  M["output"].cells = [o \in 0 .. OutputSize(j) - 1 |-> {{<<"output", o>>}}]
BY Names, StartCells, SizesOfBuffers DEF Prepared

(* Operations without batches have strides of 0.                             *)
LEMMA NoBatch ==
    /\ Batch(1, 0, 0, 0)[1] = 1 /\ Batch(1, 0, 0, 0)[2] = 0 /\ Batch(1, 0, 0, 0)[3] = 0 /\ Batch(1, 0, 0, 0)[4] = 0
BY DEF Batch

(* The parameters of each operation: their matrices are in their buffers.    *)
LEMMA MatmulForwardFits ==
    ASSUME NEW j, Called(j), j.op = "MatmulForward"
    PROVE  LET p == MatmulForwardProduct(j)
           IN  /\ Fits(j, p) /\ Outside(p) /\ p.in = ComputeType(j) /\ p.out = ComputeType(j)
               /\ p.transA = FALSE /\ p.transB = FALSE /\ p.m = j.n /\ p.n = j.m /\ p.k = j.k
               /\ p.A = "other" /\ p.lda = j.n /\ p.B = "input" /\ p.ldb = j.k /\ p.C = "output" /\ p.ldc = j.n
               /\ p.alpha = 1 /\ p.beta = 0
               /\ p.batchCount = j.bs
               /\ Strided(j.bs, j.k, j.n, p.strideA)
               /\ Strided(j.bs, j.m, j.k, p.strideB)
               /\ Strided(j.bs, j.m, j.n, p.strideC)
<1> DEFINE p == MatmulForwardProduct(j)
           sA == IF j.bs > 1 THEN j.n * j.k ELSE 0
           sB == IF j.bs > 1 THEN j.k * j.m ELSE 0
           sC == IF j.bs > 1 THEN j.m * j.n ELSE 0
<1>1. /\ p.kernel = "mcblas" /\ p.in = ComputeType(j) /\ p.out = ComputeType(j)
      /\ p.transA = FALSE /\ p.transB = FALSE /\ p.m = j.n /\ p.n = j.m /\ p.k = j.k
      /\ p.A = "other" /\ p.lda = j.n /\ p.B = "input" /\ p.ldb = j.k /\ p.C = "output" /\ p.ldc = j.n
      /\ p.alpha = 1 /\ p.beta = 0
  BY DEF MatmulForwardProduct, Params
<1>2. p.batchCount = j.bs /\ p.strideA = sA /\ p.strideB = sB /\ p.strideC = sC
  BY BatchFields DEF MatmulForwardProduct, Params
<1> HIDE DEF p
<1>3. /\ j.m \in Nat /\ j.k \in Nat /\ j.n \in Nat /\ j.bs \in Nat
      /\ j.transpose \in BOOLEAN /\ ComputeType(j) \in {"kFLOAT32", "kBFLOAT16"}
  BY CalledFields
<1>4. /\ sA \in Nat /\ sB \in Nat /\ sC \in Nat
      /\ Strided(j.bs, j.k, j.n, sA)
      /\ Strided(j.bs, j.m, j.k, sB)
      /\ Strided(j.bs, j.m, j.n, sC)
      /\ Spread(j.bs, j.n, j.m, j.n, sC)
  BY <1>3, StrideFits
<1> HIDE DEF sA, sB, sC
<1>5. TypeOf(j, "output") = ComputeType(j)
  BY <1>3, TypesOfBuffers DEF TypeOfOutput, Forwards
<1>7. Fits(j, p)
  BY <1>1, <1>2, <1>3, <1>4, <1>5, Names DEF Fits
<1>8. Outside(p)
  BY <1>1 DEF Outside, Buffers, Operands, Temporaries
<1> QED
  BY <1>1, <1>2, <1>4, <1>7, <1>8 DEF p

LEMMA MatmulBackwardInputFits ==
    ASSUME NEW j, Called(j), j.op = "MatmulBackwardInput"
    PROVE  LET p == MatmulBackwardInputProduct(j)
           IN  /\ Fits(j, p) /\ Outside(p) /\ p.in = ComputeType(j) /\ p.out = OutputType(ComputeType(j))
               /\ p.transA = TRUE /\ p.transB = FALSE /\ p.m = j.k /\ p.n = j.m /\ p.k = j.n
               /\ p.A = "other" /\ p.lda = j.n /\ p.B = Grad(j) /\ p.ldb = j.n /\ p.C = "output" /\ p.ldc = j.k
               /\ p.alpha = 1 /\ p.beta = 0
               /\ p.batchCount = j.bs
               /\ Strided(j.bs, j.k, j.n, p.strideA)
               /\ Strided(j.bs, j.m, j.n, p.strideB)
               /\ Strided(j.bs, j.m, j.k, p.strideC)
<1> DEFINE p == MatmulBackwardInputProduct(j)
           sA == IF j.bs > 1 THEN j.k * j.n ELSE 0
           sB == IF j.bs > 1 THEN j.n * j.m ELSE 0
           sC == IF j.bs > 1 THEN j.m * j.k ELSE 0
<1>1. /\ p.kernel = "mcblas" /\ p.in = ComputeType(j) /\ p.out = OutputType(ComputeType(j))
      /\ p.transA = TRUE /\ p.transB = FALSE /\ p.m = j.k /\ p.n = j.m /\ p.k = j.n
      /\ p.A = "other" /\ p.lda = j.n /\ p.B = Grad(j) /\ p.ldb = j.n /\ p.C = "output" /\ p.ldc = j.k
      /\ p.alpha = 1 /\ p.beta = 0
  BY DEF MatmulBackwardInputProduct, Params
<1>2. p.batchCount = j.bs /\ p.strideA = sA /\ p.strideB = sB /\ p.strideC = sC
  BY BatchFields DEF MatmulBackwardInputProduct, Params
<1> HIDE DEF p
<1>3. /\ j.m \in Nat /\ j.k \in Nat /\ j.n \in Nat /\ j.bs \in Nat
      /\ j.transpose \in BOOLEAN /\ ComputeType(j) \in {"kFLOAT32", "kBFLOAT16"}
  BY CalledFields
<1>4. /\ sA \in Nat /\ sB \in Nat /\ sC \in Nat
      /\ Strided(j.bs, j.k, j.n, sA)
      /\ Strided(j.bs, j.m, j.n, sB)
      /\ Strided(j.bs, j.m, j.k, sC)
      /\ Spread(j.bs, j.k, j.m, j.k, sC)
  BY <1>3, StrideFits
<1> HIDE DEF sA, sB, sC
<1>5. TypeOf(j, "output") = OutputType(ComputeType(j))
  BY <1>3, TypesOfBuffers DEF TypeOfOutput, Forwards, OutputType
<1>6. Grad(j) \in {"grad", "promotedGrad"}
  BY OperandNames
<1>7. Fits(j, p)
  BY <1>1, <1>2, <1>3, <1>4, <1>5, <1>6, Names DEF Fits
<1>8. Outside(p)
  BY <1>1, <1>6 DEF Outside, Buffers, Operands, Temporaries
<1> QED
  BY <1>1, <1>2, <1>4, <1>7, <1>8 DEF p

LEMMA MatmulBackwardOtherFits ==
    ASSUME NEW j, Called(j), j.op = "MatmulBackwardOther"
    PROVE  LET p == MatmulBackwardOtherProduct(j)
           IN  /\ Fits(j, p) /\ Outside(p) /\ p.in = ComputeType(j) /\ p.out = OutputType(ComputeType(j))
               /\ p.transA = FALSE /\ p.transB = TRUE /\ p.m = j.n /\ p.n = j.k /\ p.k = j.m
               /\ p.A = Grad(j) /\ p.lda = j.n /\ p.B = "input" /\ p.ldb = j.k /\ p.C = "output" /\ p.ldc = j.n
               /\ p.alpha = 1 /\ p.beta = 0
               /\ p.batchCount = j.bs
               /\ Strided(j.bs, j.m, j.n, p.strideA)
               /\ Strided(j.bs, j.m, j.k, p.strideB)
               /\ Strided(j.bs, j.k, j.n, p.strideC)
<1> DEFINE p == MatmulBackwardOtherProduct(j)
           sA == IF j.bs > 1 THEN j.n * j.m ELSE 0
           sB == IF j.bs > 1 THEN j.k * j.m ELSE 0
           sC == IF j.bs > 1 THEN j.n * j.k ELSE 0
<1>1. /\ p.kernel = "mcblas" /\ p.in = ComputeType(j) /\ p.out = OutputType(ComputeType(j))
      /\ p.transA = FALSE /\ p.transB = TRUE /\ p.m = j.n /\ p.n = j.k /\ p.k = j.m
      /\ p.A = Grad(j) /\ p.lda = j.n /\ p.B = "input" /\ p.ldb = j.k /\ p.C = "output" /\ p.ldc = j.n
      /\ p.alpha = 1 /\ p.beta = 0
  BY DEF MatmulBackwardOtherProduct, Params
<1>2. p.batchCount = j.bs /\ p.strideA = sA /\ p.strideB = sB /\ p.strideC = sC
  BY BatchFields DEF MatmulBackwardOtherProduct, Params
<1> HIDE DEF p
<1>3. /\ j.m \in Nat /\ j.k \in Nat /\ j.n \in Nat /\ j.bs \in Nat
      /\ j.transpose \in BOOLEAN /\ ComputeType(j) \in {"kFLOAT32", "kBFLOAT16"}
  BY CalledFields
<1>4. /\ sA \in Nat /\ sB \in Nat /\ sC \in Nat
      /\ Strided(j.bs, j.m, j.n, sA)
      /\ Strided(j.bs, j.m, j.k, sB)
      /\ Strided(j.bs, j.k, j.n, sC)
      /\ Spread(j.bs, j.n, j.k, j.n, sC)
  BY <1>3, StrideFits
<1> HIDE DEF sA, sB, sC
<1>5. TypeOf(j, "output") = OutputType(ComputeType(j))
  BY <1>3, TypesOfBuffers DEF TypeOfOutput, Forwards, OutputType
<1>6. Grad(j) \in {"grad", "promotedGrad"}
  BY OperandNames
<1>7. Fits(j, p)
  BY <1>1, <1>2, <1>3, <1>4, <1>5, <1>6, Names DEF Fits
<1>8. Outside(p)
  BY <1>1, <1>6 DEF Outside, Buffers, Operands, Temporaries
<1> QED
  BY <1>1, <1>2, <1>4, <1>7, <1>8 DEF p

LEMMA LinearForwardFits ==
    ASSUME NEW j, Called(j), j.op = "LinearForward"
    PROVE  LET p == LinearForwardProduct(j)
           IN  /\ Fits(j, p) /\ Outside(p) /\ p.in = ComputeType(j) /\ p.out = ComputeType(j)
               /\ p.transA = j.transpose /\ p.transB = FALSE /\ p.m = j.n /\ p.n = j.m /\ p.k = j.k
               /\ p.A = "other" /\ p.lda = (IF j.transpose THEN j.k ELSE j.n) /\ p.B = "input" /\ p.ldb = j.k /\ p.C = "output" /\ p.ldc = j.n
               /\ p.alpha = 1 /\ p.beta = (IF j.bias THEN 1 ELSE 0)
               /\ p.batchCount = 1 /\ p.strideA = 0 /\ p.strideB = 0 /\ p.strideC = 0
<1> DEFINE p == LinearForwardProduct(j)
<1>1. /\ p.kernel = "mcblas" /\ p.in = ComputeType(j) /\ p.out = ComputeType(j)
      /\ p.transA = j.transpose /\ p.transB = FALSE /\ p.m = j.n /\ p.n = j.m /\ p.k = j.k
      /\ p.A = "other" /\ p.lda = (IF j.transpose THEN j.k ELSE j.n) /\ p.B = "input" /\ p.ldb = j.k /\ p.C = "output" /\ p.ldc = j.n
      /\ p.alpha = 1 /\ p.beta = (IF j.bias THEN 1 ELSE 0)
  BY DEF LinearForwardProduct, Params
<1>2. p.batchCount = 1 /\ p.strideA = 0 /\ p.strideB = 0 /\ p.strideC = 0
  BY NoBatch DEF LinearForwardProduct, Params
<1>9. p.transA \in BOOLEAN /\ p.transB \in BOOLEAN
  BY CalledFields DEF LinearForwardProduct, Params
<1> HIDE DEF p
<1>3. /\ j.m \in Nat /\ j.k \in Nat /\ j.n \in Nat /\ j.bs \in Nat
      /\ j.transpose \in BOOLEAN /\ ComputeType(j) \in {"kFLOAT32", "kBFLOAT16"}
  BY CalledFields
<1>4. Spread(1, j.n, j.m, j.n, 0)
  BY <1>3 DEF Spread
<1>5. TypeOf(j, "output") = ComputeType(j)
  BY <1>3, TypesOfBuffers DEF TypeOfOutput, Forwards
<1>7. Fits(j, p)
  <2>1. Spread(p.batchCount, p.m, p.n, p.ldc, p.strideC)
    BY ONLY <1>1, <1>2, <1>4
  <2>2. /\ p.m \in Nat /\ p.n \in Nat /\ p.k \in Nat /\ p.batchCount \in Nat
        /\ p.lda \in Nat /\ p.ldb \in Nat /\ p.ldc \in Nat
        /\ p.strideA \in Nat /\ p.strideB \in Nat /\ p.strideC \in Nat
    BY ONLY <1>1, <1>2, <1>3
  <2>3. /\ p.A \in Buffers /\ p.B \in Buffers /\ p.C \in Buffers /\ p.C # p.A /\ p.C # p.B
        /\ p.out = TypeOf(j, p.C)
    BY ONLY <1>1, <1>5, Names
  <2> QED
    BY ONLY <1>1, <1>9, <2>1, <2>2, <2>3 DEF Fits
<1>8. Outside(p)
  BY <1>1 DEF Outside, Buffers, Operands, Temporaries
<1> QED
  BY <1>1, <1>2, <1>4, <1>7, <1>8 DEF p

LEMMA LinearBackwardInputFits ==
    ASSUME NEW j, Called(j), j.op = "LinearBackwardInput"
    PROVE  LET p == LinearBackwardInputProduct(j)
           IN  /\ Fits(j, p) /\ Outside(p) /\ p.in = ComputeType(j) /\ p.out = OutputType(ComputeType(j))
               /\ p.transA = ~j.transpose /\ p.transB = FALSE /\ p.m = j.k /\ p.n = j.m /\ p.k = j.n
               /\ p.A = "other" /\ p.lda = (IF j.transpose THEN j.k ELSE j.n) /\ p.B = Grad(j) /\ p.ldb = j.n /\ p.C = "output" /\ p.ldc = j.k
               /\ p.alpha = 1 /\ p.beta = 0
               /\ p.batchCount = 1 /\ p.strideA = 0 /\ p.strideB = 0 /\ p.strideC = 0
<1> DEFINE p == LinearBackwardInputProduct(j)
<1>1. /\ p.kernel = "mcblas" /\ p.in = ComputeType(j) /\ p.out = OutputType(ComputeType(j))
      /\ p.transA = ~j.transpose /\ p.transB = FALSE /\ p.m = j.k /\ p.n = j.m /\ p.k = j.n
      /\ p.A = "other" /\ p.lda = (IF j.transpose THEN j.k ELSE j.n) /\ p.B = Grad(j) /\ p.ldb = j.n /\ p.C = "output" /\ p.ldc = j.k
      /\ p.alpha = 1 /\ p.beta = 0
  BY DEF LinearBackwardInputProduct, Params
<1>2. p.batchCount = 1 /\ p.strideA = 0 /\ p.strideB = 0 /\ p.strideC = 0
  BY NoBatch DEF LinearBackwardInputProduct, Params
<1>9. p.transA \in BOOLEAN /\ p.transB \in BOOLEAN
  BY CalledFields DEF LinearBackwardInputProduct, Params
<1> HIDE DEF p
<1>3. /\ j.m \in Nat /\ j.k \in Nat /\ j.n \in Nat /\ j.bs \in Nat
      /\ j.transpose \in BOOLEAN /\ ComputeType(j) \in {"kFLOAT32", "kBFLOAT16"}
  BY CalledFields
<1>4. Spread(1, j.k, j.m, j.k, 0)
  BY <1>3 DEF Spread
<1>5. TypeOf(j, "output") = OutputType(ComputeType(j))
  BY <1>3, TypesOfBuffers DEF TypeOfOutput, Forwards, OutputType
<1>6. Grad(j) \in {"grad", "promotedGrad"}
  BY OperandNames
<1>7. Fits(j, p)
  <2>1. Spread(p.batchCount, p.m, p.n, p.ldc, p.strideC)
    BY ONLY <1>1, <1>2, <1>4
  <2>2. /\ p.m \in Nat /\ p.n \in Nat /\ p.k \in Nat /\ p.batchCount \in Nat
        /\ p.lda \in Nat /\ p.ldb \in Nat /\ p.ldc \in Nat
        /\ p.strideA \in Nat /\ p.strideB \in Nat /\ p.strideC \in Nat
    BY ONLY <1>1, <1>2, <1>3
  <2>3. /\ p.A \in Buffers /\ p.B \in Buffers /\ p.C \in Buffers /\ p.C # p.A /\ p.C # p.B
        /\ p.out = TypeOf(j, p.C)
    BY ONLY <1>1, <1>5, <1>6, Names
  <2> QED
    BY ONLY <1>1, <1>9, <2>1, <2>2, <2>3 DEF Fits
<1>8. Outside(p)
  BY <1>1, <1>6 DEF Outside, Buffers, Operands, Temporaries
<1> QED
  BY <1>1, <1>2, <1>4, <1>7, <1>8 DEF p

LEMMA LinearBackwardWeightTFits ==
    ASSUME NEW j, Called(j), j.op = "LinearBackwardWeight", j.transpose
    PROVE  LET p == LinearBackwardWeightProduct(j)
           IN  /\ Fits(j, p) /\ Outside(p) /\ p.in = ComputeType(j) /\ p.out = OutputType(ComputeType(j))
               /\ p.transA = FALSE /\ p.transB = TRUE /\ p.m = j.k /\ p.n = j.n /\ p.k = j.m
               /\ p.A = "input" /\ p.lda = j.k /\ p.B = Grad(j) /\ p.ldb = j.n /\ p.C = "output" /\ p.ldc = j.k
               /\ p.alpha = 1 /\ p.beta = 0
               /\ p.batchCount = 1 /\ p.strideA = 0 /\ p.strideB = 0 /\ p.strideC = 0
<1> DEFINE p == LinearBackwardWeightProduct(j)
<1>1. /\ p.kernel = "mcblas" /\ p.in = ComputeType(j) /\ p.out = OutputType(ComputeType(j))
      /\ p.transA = FALSE /\ p.transB = TRUE /\ p.m = j.k /\ p.n = j.n /\ p.k = j.m
      /\ p.A = "input" /\ p.lda = j.k /\ p.B = Grad(j) /\ p.ldb = j.n /\ p.C = "output" /\ p.ldc = j.k
      /\ p.alpha = 1 /\ p.beta = 0
  BY DEF LinearBackwardWeightProduct, Params
<1>2. p.batchCount = 1 /\ p.strideA = 0 /\ p.strideB = 0 /\ p.strideC = 0
  BY NoBatch DEF LinearBackwardWeightProduct, Params
<1>9. p.transA \in BOOLEAN /\ p.transB \in BOOLEAN
  BY CalledFields DEF LinearBackwardWeightProduct, Params
<1> HIDE DEF p
<1>3. /\ j.m \in Nat /\ j.k \in Nat /\ j.n \in Nat /\ j.bs \in Nat
      /\ j.transpose \in BOOLEAN /\ ComputeType(j) \in {"kFLOAT32", "kBFLOAT16"}
  BY CalledFields
<1>4. Spread(1, j.k, j.n, j.k, 0)
  BY <1>3 DEF Spread
<1>5. TypeOf(j, "output") = OutputType(ComputeType(j))
  BY <1>3, TypesOfBuffers DEF TypeOfOutput, Forwards, OutputType
<1>6. Grad(j) \in {"grad", "promotedGrad"}
  BY OperandNames
<1>7. Fits(j, p)
  <2>1. Spread(p.batchCount, p.m, p.n, p.ldc, p.strideC)
    BY ONLY <1>1, <1>2, <1>4
  <2>2. /\ p.m \in Nat /\ p.n \in Nat /\ p.k \in Nat /\ p.batchCount \in Nat
        /\ p.lda \in Nat /\ p.ldb \in Nat /\ p.ldc \in Nat
        /\ p.strideA \in Nat /\ p.strideB \in Nat /\ p.strideC \in Nat
    BY ONLY <1>1, <1>2, <1>3
  <2>3. /\ p.A \in Buffers /\ p.B \in Buffers /\ p.C \in Buffers /\ p.C # p.A /\ p.C # p.B
        /\ p.out = TypeOf(j, p.C)
    BY ONLY <1>1, <1>5, <1>6, Names
  <2> QED
    BY ONLY <1>1, <1>9, <2>1, <2>2, <2>3 DEF Fits
<1>8. Outside(p)
  BY <1>1, <1>6 DEF Outside, Buffers, Operands, Temporaries
<1> QED
  BY <1>1, <1>2, <1>4, <1>7, <1>8 DEF p

LEMMA LinearBackwardWeightFits ==
    ASSUME NEW j, Called(j), j.op = "LinearBackwardWeight", ~j.transpose
    PROVE  LET p == LinearBackwardWeightProduct(j)
           IN  /\ Fits(j, p) /\ Outside(p) /\ p.in = ComputeType(j) /\ p.out = OutputType(ComputeType(j))
               /\ p.transA = FALSE /\ p.transB = TRUE /\ p.m = j.n /\ p.n = j.k /\ p.k = j.m
               /\ p.A = Grad(j) /\ p.lda = j.n /\ p.B = "input" /\ p.ldb = j.k /\ p.C = "output" /\ p.ldc = j.n
               /\ p.alpha = 1 /\ p.beta = 0
               /\ p.batchCount = 1 /\ p.strideA = 0 /\ p.strideB = 0 /\ p.strideC = 0
<1> DEFINE p == LinearBackwardWeightProduct(j)
<1>1. /\ p.kernel = "mcblas" /\ p.in = ComputeType(j) /\ p.out = OutputType(ComputeType(j))
      /\ p.transA = FALSE /\ p.transB = TRUE /\ p.m = j.n /\ p.n = j.k /\ p.k = j.m
      /\ p.A = Grad(j) /\ p.lda = j.n /\ p.B = "input" /\ p.ldb = j.k /\ p.C = "output" /\ p.ldc = j.n
      /\ p.alpha = 1 /\ p.beta = 0
  BY DEF LinearBackwardWeightProduct, Params
<1>2. p.batchCount = 1 /\ p.strideA = 0 /\ p.strideB = 0 /\ p.strideC = 0
  BY NoBatch DEF LinearBackwardWeightProduct, Params
<1>9. p.transA \in BOOLEAN /\ p.transB \in BOOLEAN
  BY CalledFields DEF LinearBackwardWeightProduct, Params
<1> HIDE DEF p
<1>3. /\ j.m \in Nat /\ j.k \in Nat /\ j.n \in Nat /\ j.bs \in Nat
      /\ j.transpose \in BOOLEAN /\ ComputeType(j) \in {"kFLOAT32", "kBFLOAT16"}
  BY CalledFields
<1>4. Spread(1, j.n, j.k, j.n, 0)
  BY <1>3 DEF Spread
<1>5. TypeOf(j, "output") = OutputType(ComputeType(j))
  BY <1>3, TypesOfBuffers DEF TypeOfOutput, Forwards, OutputType
<1>6. Grad(j) \in {"grad", "promotedGrad"}
  BY OperandNames
<1>7. Fits(j, p)
  <2>1. Spread(p.batchCount, p.m, p.n, p.ldc, p.strideC)
    BY ONLY <1>1, <1>2, <1>4
  <2>2. /\ p.m \in Nat /\ p.n \in Nat /\ p.k \in Nat /\ p.batchCount \in Nat
        /\ p.lda \in Nat /\ p.ldb \in Nat /\ p.ldc \in Nat
        /\ p.strideA \in Nat /\ p.strideB \in Nat /\ p.strideC \in Nat
    BY ONLY <1>1, <1>2, <1>3
  <2>3. /\ p.A \in Buffers /\ p.B \in Buffers /\ p.C \in Buffers /\ p.C # p.A /\ p.C # p.B
        /\ p.out = TypeOf(j, p.C)
    BY ONLY <1>1, <1>5, <1>6, Names
  <2> QED
    BY ONLY <1>1, <1>9, <2>1, <2>2, <2>3 DEF Fits
<1>8. Outside(p)
  BY <1>1, <1>6 DEF Outside, Buffers, Operands, Temporaries
<1> QED
  BY <1>1, <1>2, <1>4, <1>7, <1>8 DEF p

LEMMA OuterForwardFits ==
    ASSUME NEW j, Called(j), j.op = "OuterForward"
    PROVE  LET p == OuterForwardProduct(j)
           IN  /\ Fits(j, p) /\ Outside(p) /\ p.in = ComputeType(j) /\ p.out = ComputeType(j)
               /\ p.transA = FALSE /\ p.transB = FALSE /\ p.m = j.n /\ p.n = j.m /\ p.k = 1
               /\ p.A = "other" /\ p.lda = j.n /\ p.B = "input" /\ p.ldb = 1 /\ p.C = "output" /\ p.ldc = j.n
               /\ p.alpha = 1 /\ p.beta = 0
               /\ p.batchCount = 1 /\ p.strideA = 0 /\ p.strideB = 0 /\ p.strideC = 0
<1> DEFINE p == OuterForwardProduct(j)
<1>1. /\ p.kernel = "mcblas" /\ p.in = ComputeType(j) /\ p.out = ComputeType(j)
      /\ p.transA = FALSE /\ p.transB = FALSE /\ p.m = j.n /\ p.n = j.m /\ p.k = 1
      /\ p.A = "other" /\ p.lda = j.n /\ p.B = "input" /\ p.ldb = 1 /\ p.C = "output" /\ p.ldc = j.n
      /\ p.alpha = 1 /\ p.beta = 0
  BY DEF OuterForwardProduct, Params
<1>2. p.batchCount = 1 /\ p.strideA = 0 /\ p.strideB = 0 /\ p.strideC = 0
  BY NoBatch DEF OuterForwardProduct, Params
<1>9. p.transA \in BOOLEAN /\ p.transB \in BOOLEAN
  BY CalledFields DEF OuterForwardProduct, Params
<1> HIDE DEF p
<1>3. /\ j.m \in Nat /\ j.k \in Nat /\ j.n \in Nat /\ j.bs \in Nat
      /\ j.transpose \in BOOLEAN /\ ComputeType(j) \in {"kFLOAT32", "kBFLOAT16"}
  BY CalledFields
<1>4. Spread(1, j.n, j.m, j.n, 0)
  BY <1>3 DEF Spread
<1>5. TypeOf(j, "output") = ComputeType(j)
  BY <1>3, TypesOfBuffers DEF TypeOfOutput, Forwards
<1>7. Fits(j, p)
  <2>1. Spread(p.batchCount, p.m, p.n, p.ldc, p.strideC)
    BY ONLY <1>1, <1>2, <1>4
  <2>2. /\ p.m \in Nat /\ p.n \in Nat /\ p.k \in Nat /\ p.batchCount \in Nat
        /\ p.lda \in Nat /\ p.ldb \in Nat /\ p.ldc \in Nat
        /\ p.strideA \in Nat /\ p.strideB \in Nat /\ p.strideC \in Nat
    BY ONLY <1>1, <1>2, <1>3
  <2>3. /\ p.A \in Buffers /\ p.B \in Buffers /\ p.C \in Buffers /\ p.C # p.A /\ p.C # p.B
        /\ p.out = TypeOf(j, p.C)
    BY ONLY <1>1, <1>5, Names
  <2> QED
    BY ONLY <1>1, <1>9, <2>1, <2>2, <2>3 DEF Fits
<1>8. Outside(p)
  BY <1>1 DEF Outside, Buffers, Operands, Temporaries
<1> QED
  BY <1>1, <1>2, <1>4, <1>7, <1>8 DEF p

LEMMA OuterVector1Fits ==
    ASSUME NEW j, Called(j), j.op = "OuterBackward", ComputeType(j) = "kFLOAT32"
    PROVE  LET p == OuterProduct1(j)
           IN  /\ Fits(j, p) /\ Outside(p) /\ p.in = ComputeType(j) /\ p.out = OutputType(ComputeType(j))
               /\ p.transA = TRUE /\ p.transB = FALSE /\ p.m = j.m /\ p.n = 1 /\ p.k = j.n
               /\ p.A = Grad(j) /\ p.lda = j.n /\ p.B = Operand(j, "other") /\ p.ldb = j.n /\ p.C = "output" /\ p.ldc = j.m
               /\ p.alpha = 1 /\ p.beta = 0
               /\ p.batchCount = 1 /\ p.strideA = 0 /\ p.strideB = 0 /\ p.strideC = 0
<1> DEFINE p == OuterProduct1(j)
<1>1. /\ p.kernel = "mcblas" /\ p.in = ComputeType(j) /\ p.out = OutputType(ComputeType(j))
      /\ p.transA = TRUE /\ p.transB = FALSE /\ p.m = j.m /\ p.n = 1 /\ p.k = j.n
      /\ p.A = Grad(j) /\ p.lda = j.n /\ p.B = Operand(j, "other") /\ p.ldb = j.n /\ p.C = "output" /\ p.ldc = j.m
      /\ p.alpha = 1 /\ p.beta = 0
  BY DEF OuterProduct1, Params, OutputType
<1>2. p.batchCount = 1 /\ p.strideA = 0 /\ p.strideB = 0 /\ p.strideC = 0
  BY NoBatch DEF OuterProduct1, Params
<1>9. p.transA \in BOOLEAN /\ p.transB \in BOOLEAN
  BY CalledFields DEF OuterProduct1, Params
<1> HIDE DEF p
<1>3. /\ j.m \in Nat /\ j.k \in Nat /\ j.n \in Nat /\ j.bs \in Nat
      /\ j.transpose \in BOOLEAN /\ ComputeType(j) \in {"kFLOAT32", "kBFLOAT16"}
  BY CalledFields
<1>4. Spread(1, j.m, 1, j.m, 0)
  BY <1>3 DEF Spread
<1>5. TypeOf(j, "output") = OutputType(ComputeType(j))
  BY <1>3, TypesOfBuffers DEF TypeOfOutput, Forwards, OutputType
<1>6. /\ Grad(j) \in {"grad", "promotedGrad"}
      /\ Operand(j, "input") \in {"input", "promotedInput"} /\ Operand(j, "other") \in {"other", "promotedOther"}
  BY OperandNames
<1>7. Fits(j, p)
  <2>1. Spread(p.batchCount, p.m, p.n, p.ldc, p.strideC)
    BY ONLY <1>1, <1>2, <1>4
  <2>2. /\ p.m \in Nat /\ p.n \in Nat /\ p.k \in Nat /\ p.batchCount \in Nat
        /\ p.lda \in Nat /\ p.ldb \in Nat /\ p.ldc \in Nat
        /\ p.strideA \in Nat /\ p.strideB \in Nat /\ p.strideC \in Nat
    BY ONLY <1>1, <1>2, <1>3
  <2>3. /\ p.A \in Buffers /\ p.B \in Buffers /\ p.C \in Buffers /\ p.C # p.A /\ p.C # p.B
        /\ p.out = TypeOf(j, p.C)
    BY ONLY <1>1, <1>5, <1>6, Names
  <2> QED
    BY ONLY <1>1, <1>9, <2>1, <2>2, <2>3 DEF Fits
<1>8. Outside(p)
  BY <1>1, <1>6 DEF Outside, Buffers, Operands, Temporaries
<1> QED
  BY <1>1, <1>2, <1>4, <1>7, <1>8 DEF p

LEMMA OuterVector2Fits ==
    ASSUME NEW j, Called(j), j.op = "OuterBackward", ComputeType(j) = "kFLOAT32"
    PROVE  LET p == OuterProduct2(j)
           IN  /\ Fits(j, p) /\ Outside(p) /\ p.in = ComputeType(j) /\ p.out = OutputType(ComputeType(j))
               /\ p.transA = FALSE /\ p.transB = FALSE /\ p.m = j.n /\ p.n = 1 /\ p.k = j.m
               /\ p.A = Grad(j) /\ p.lda = j.n /\ p.B = Operand(j, "input") /\ p.ldb = j.m /\ p.C = "output2" /\ p.ldc = j.n
               /\ p.alpha = 1 /\ p.beta = 0
               /\ p.batchCount = 1 /\ p.strideA = 0 /\ p.strideB = 0 /\ p.strideC = 0
<1> DEFINE p == OuterProduct2(j)
<1>1. /\ p.kernel = "mcblas" /\ p.in = ComputeType(j) /\ p.out = OutputType(ComputeType(j))
      /\ p.transA = FALSE /\ p.transB = FALSE /\ p.m = j.n /\ p.n = 1 /\ p.k = j.m
      /\ p.A = Grad(j) /\ p.lda = j.n /\ p.B = Operand(j, "input") /\ p.ldb = j.m /\ p.C = "output2" /\ p.ldc = j.n
      /\ p.alpha = 1 /\ p.beta = 0
  BY DEF OuterProduct2, Params, OutputType
<1>2. p.batchCount = 1 /\ p.strideA = 0 /\ p.strideB = 0 /\ p.strideC = 0
  BY NoBatch DEF OuterProduct2, Params
<1>9. p.transA \in BOOLEAN /\ p.transB \in BOOLEAN
  BY CalledFields DEF OuterProduct2, Params
<1> HIDE DEF p
<1>3. /\ j.m \in Nat /\ j.k \in Nat /\ j.n \in Nat /\ j.bs \in Nat
      /\ j.transpose \in BOOLEAN /\ ComputeType(j) \in {"kFLOAT32", "kBFLOAT16"}
  BY CalledFields
<1>4. Spread(1, j.n, 1, j.n, 0)
  BY <1>3 DEF Spread
<1>5. TypeOf(j, "output2") = OutputType(ComputeType(j))
  BY <1>3, TypesOfBuffers DEF TypeOfOutput, Forwards, OutputType
<1>6. /\ Grad(j) \in {"grad", "promotedGrad"}
      /\ Operand(j, "input") \in {"input", "promotedInput"} /\ Operand(j, "other") \in {"other", "promotedOther"}
  BY OperandNames
<1>7. Fits(j, p)
  <2>1. Spread(p.batchCount, p.m, p.n, p.ldc, p.strideC)
    BY ONLY <1>1, <1>2, <1>4
  <2>2. /\ p.m \in Nat /\ p.n \in Nat /\ p.k \in Nat /\ p.batchCount \in Nat
        /\ p.lda \in Nat /\ p.ldb \in Nat /\ p.ldc \in Nat
        /\ p.strideA \in Nat /\ p.strideB \in Nat /\ p.strideC \in Nat
    BY ONLY <1>1, <1>2, <1>3
  <2>3. /\ p.A \in Buffers /\ p.B \in Buffers /\ p.C \in Buffers /\ p.C # p.A /\ p.C # p.B
        /\ p.out = TypeOf(j, p.C)
    BY ONLY <1>1, <1>5, <1>6, Names
  <2> QED
    BY ONLY <1>1, <1>9, <2>1, <2>2, <2>3 DEF Fits
<1>8. Outside(p)
  BY <1>1, <1>6 DEF Outside, Buffers, Operands, Temporaries
<1> QED
  BY <1>1, <1>2, <1>4, <1>7, <1>8 DEF p

LEMMA OuterMatrix1Fits ==
    ASSUME NEW j, Called(j), j.op = "OuterBackward", ComputeType(j) # "kFLOAT32"
    PROVE  LET p == OuterProduct1(j)
           IN  /\ Fits(j, p) /\ Outside(p) /\ p.in = ComputeType(j) /\ p.out = OutputType(ComputeType(j))
               /\ p.transA = FALSE /\ p.transB = FALSE /\ p.m = 1 /\ p.n = j.m /\ p.k = j.n
               /\ p.A = Operand(j, "other") /\ p.lda = 1 /\ p.B = Grad(j) /\ p.ldb = j.n /\ p.C = "output" /\ p.ldc = 1
               /\ p.alpha = 1 /\ p.beta = 0
               /\ p.batchCount = 1 /\ p.strideA = 0 /\ p.strideB = 0 /\ p.strideC = 0
<1> DEFINE p == OuterProduct1(j)
<1>1. /\ p.kernel = "mcblas" /\ p.in = ComputeType(j) /\ p.out = OutputType(ComputeType(j))
      /\ p.transA = FALSE /\ p.transB = FALSE /\ p.m = 1 /\ p.n = j.m /\ p.k = j.n
      /\ p.A = Operand(j, "other") /\ p.lda = 1 /\ p.B = Grad(j) /\ p.ldb = j.n /\ p.C = "output" /\ p.ldc = 1
      /\ p.alpha = 1 /\ p.beta = 0
  BY DEF OuterProduct1, Params
<1>2. p.batchCount = 1 /\ p.strideA = 0 /\ p.strideB = 0 /\ p.strideC = 0
  BY NoBatch DEF OuterProduct1, Params
<1>9. p.transA \in BOOLEAN /\ p.transB \in BOOLEAN
  BY CalledFields DEF OuterProduct1, Params
<1> HIDE DEF p
<1>3. /\ j.m \in Nat /\ j.k \in Nat /\ j.n \in Nat /\ j.bs \in Nat
      /\ j.transpose \in BOOLEAN /\ ComputeType(j) \in {"kFLOAT32", "kBFLOAT16"}
  BY CalledFields
<1>4. Spread(1, 1, j.m, 1, 0)
  BY <1>3 DEF Spread
<1>5. TypeOf(j, "output") = OutputType(ComputeType(j))
  BY <1>3, TypesOfBuffers DEF TypeOfOutput, Forwards, OutputType
<1>6. /\ Grad(j) \in {"grad", "promotedGrad"}
      /\ Operand(j, "input") \in {"input", "promotedInput"} /\ Operand(j, "other") \in {"other", "promotedOther"}
  BY OperandNames
<1>7. Fits(j, p)
  <2>1. Spread(p.batchCount, p.m, p.n, p.ldc, p.strideC)
    BY ONLY <1>1, <1>2, <1>4
  <2>2. /\ p.m \in Nat /\ p.n \in Nat /\ p.k \in Nat /\ p.batchCount \in Nat
        /\ p.lda \in Nat /\ p.ldb \in Nat /\ p.ldc \in Nat
        /\ p.strideA \in Nat /\ p.strideB \in Nat /\ p.strideC \in Nat
    BY ONLY <1>1, <1>2, <1>3
  <2>3. /\ p.A \in Buffers /\ p.B \in Buffers /\ p.C \in Buffers /\ p.C # p.A /\ p.C # p.B
        /\ p.out = TypeOf(j, p.C)
    BY ONLY <1>1, <1>5, <1>6, Names
  <2> QED
    BY ONLY <1>1, <1>9, <2>1, <2>2, <2>3 DEF Fits
<1>8. Outside(p)
  BY <1>1, <1>6 DEF Outside, Buffers, Operands, Temporaries
<1> QED
  BY <1>1, <1>2, <1>4, <1>7, <1>8 DEF p

LEMMA OuterMatrix2Fits ==
    ASSUME NEW j, Called(j), j.op = "OuterBackward", ComputeType(j) # "kFLOAT32"
    PROVE  LET p == OuterProduct2(j)
           IN  /\ Fits(j, p) /\ Outside(p) /\ p.in = ComputeType(j) /\ p.out = OutputType(ComputeType(j))
               /\ p.transA = FALSE /\ p.transB = TRUE /\ p.m = 1 /\ p.n = j.n /\ p.k = j.m
               /\ p.A = Operand(j, "input") /\ p.lda = 1 /\ p.B = Grad(j) /\ p.ldb = j.n /\ p.C = "output2" /\ p.ldc = 1
               /\ p.alpha = 1 /\ p.beta = 0
               /\ p.batchCount = 1 /\ p.strideA = 0 /\ p.strideB = 0 /\ p.strideC = 0
<1> DEFINE p == OuterProduct2(j)
<1>1. /\ p.kernel = "mcblas" /\ p.in = ComputeType(j) /\ p.out = OutputType(ComputeType(j))
      /\ p.transA = FALSE /\ p.transB = TRUE /\ p.m = 1 /\ p.n = j.n /\ p.k = j.m
      /\ p.A = Operand(j, "input") /\ p.lda = 1 /\ p.B = Grad(j) /\ p.ldb = j.n /\ p.C = "output2" /\ p.ldc = 1
      /\ p.alpha = 1 /\ p.beta = 0
  BY DEF OuterProduct2, Params
<1>2. p.batchCount = 1 /\ p.strideA = 0 /\ p.strideB = 0 /\ p.strideC = 0
  BY NoBatch DEF OuterProduct2, Params
<1>9. p.transA \in BOOLEAN /\ p.transB \in BOOLEAN
  BY CalledFields DEF OuterProduct2, Params
<1> HIDE DEF p
<1>3. /\ j.m \in Nat /\ j.k \in Nat /\ j.n \in Nat /\ j.bs \in Nat
      /\ j.transpose \in BOOLEAN /\ ComputeType(j) \in {"kFLOAT32", "kBFLOAT16"}
  BY CalledFields
<1>4. Spread(1, 1, j.n, 1, 0)
  BY <1>3 DEF Spread
<1>5. TypeOf(j, "output2") = OutputType(ComputeType(j))
  BY <1>3, TypesOfBuffers DEF TypeOfOutput, Forwards, OutputType
<1>6. /\ Grad(j) \in {"grad", "promotedGrad"}
      /\ Operand(j, "input") \in {"input", "promotedInput"} /\ Operand(j, "other") \in {"other", "promotedOther"}
  BY OperandNames
<1>7. Fits(j, p)
  <2>1. Spread(p.batchCount, p.m, p.n, p.ldc, p.strideC)
    BY ONLY <1>1, <1>2, <1>4
  <2>2. /\ p.m \in Nat /\ p.n \in Nat /\ p.k \in Nat /\ p.batchCount \in Nat
        /\ p.lda \in Nat /\ p.ldb \in Nat /\ p.ldc \in Nat
        /\ p.strideA \in Nat /\ p.strideB \in Nat /\ p.strideC \in Nat
    BY ONLY <1>1, <1>2, <1>3
  <2>3. /\ p.A \in Buffers /\ p.B \in Buffers /\ p.C \in Buffers /\ p.C # p.A /\ p.C # p.B
        /\ p.out = TypeOf(j, p.C)
    BY ONLY <1>1, <1>5, <1>6, Names
  <2> QED
    BY ONLY <1>1, <1>9, <2>1, <2>2, <2>3 DEF Fits
<1>8. Outside(p)
  BY <1>1, <1>6 DEF Outside, Buffers, Operands, Temporaries
<1> QED
  BY <1>1, <1>2, <1>4, <1>7, <1>8 DEF p

(* Where the elements of the weight are, transposed or not.                  *)
LEMMA WeightAt ==
    ASSUME NEW j, Called(j), SameTypes(j), j.op \in {"LinearForward", "LinearBackwardInput"}, NEW M, Prepared(j, M),
           NEW b \in 0 .. j.bs - 1, NEW l \in 0 .. j.k - 1, NEW h \in 0 .. j.n - 1,
           NEW s \in Nat
    PROVE  /\ j.transpose => ReadIn(M, "other", ComputeType(j), At(b, h, l, j.k, s)) = Weight(j, l, h)
           /\ ~j.transpose => ReadIn(M, "other", ComputeType(j), At(b, l, h, j.n, s)) = Weight(j, l, h)
<1>1. j.k \in Nat /\ j.n \in Nat /\ j.bs = 1
  BY CalledFields DEF Linears
<1>2. b = 0 /\ b \in 0 .. 1 - 1 /\ 1 \in Nat /\ Strided(1, j.k, j.n, s) /\ Strided(1, j.n, j.k, s)
  BY <1>1 DEF Strided
<1>3. At(b, h, l, j.k, s) = (b * j.n + h) * j.k + l /\ (b * j.n + h) * j.k + l \in CellsOf(1, j.n, j.k)
  <2> DEFINE one == 1
  <2>1. one \in Nat /\ b \in 0 .. one - 1 /\ Strided(one, j.n, j.k, s) /\ j.n \in Nat /\ j.k \in Nat
    BY ONLY <1>1, <1>2
  <2> HIDE DEF one
  <2>2. /\ At(b, h, l, j.k, s) = (b * j.n + h) * j.k + l
        /\ (b * j.n + h) * j.k + l \in CellsOf(one, j.n, j.k)
    BY ONLY <2>1, s \in Nat, h \in 0 .. j.n - 1, l \in 0 .. j.k - 1, RowMajorPlace
  <2> QED
    BY ONLY <2>2 DEF one
<1>4. At(b, l, h, j.n, s) = (b * j.k + l) * j.n + h /\ (b * j.k + l) * j.n + h \in CellsOf(1, j.k, j.n)
  <2> DEFINE one == 1
  <2>1. one \in Nat /\ b \in 0 .. one - 1 /\ Strided(one, j.k, j.n, s) /\ j.k \in Nat /\ j.n \in Nat
    BY ONLY <1>1, <1>2
  <2> HIDE DEF one
  <2>2. /\ At(b, l, h, j.n, s) = (b * j.k + l) * j.n + h
        /\ (b * j.k + l) * j.n + h \in CellsOf(one, j.k, j.n)
    BY ONLY <2>1, s \in Nat, l \in 0 .. j.k - 1, h \in 0 .. j.n - 1, RowMajorPlace
  <2> QED
    BY ONLY <2>2 DEF one
<1>5. Size(j, "other") = j.bs * j.k * j.n
  BY DEF Size, Temporaries, Linears, Outers
<1>6. CellsOf(1, j.n, j.k) = 0 .. Size(j, "other") - 1 /\ CellsOf(1, j.k, j.n) = 0 .. Size(j, "other") - 1
  <2>1. j.k * j.n \in Nat /\ j.k * j.n = j.n * j.k
    BY <1>1, Products
  <2>2. 1 * j.n * j.k = j.k * j.n /\ 1 * j.k * j.n = j.k * j.n
    BY <1>1
  <2> QED
    BY ONLY <1>1, <1>5, <2>1, <2>2 DEF CellsOf
<1>7. b * j.n + h = h /\ b * j.k + l = l
  BY <1>1, <1>2
<1> DEFINE o1 == At(b, h, l, j.k, s)
           o2 == At(b, l, h, j.n, s)
<1>8. o1 \in 0 .. Size(j, "other") - 1 /\ o2 \in 0 .. Size(j, "other") - 1
  BY ONLY <1>3, <1>4, <1>6
<1>9. o1 = h * j.k + l /\ o2 = l * j.n + h
  BY ONLY <1>3, <1>4, <1>7
<1> HIDE DEF o1, o2
<1>10. ReadIn(M, "other", ComputeType(j), o1) = {{<<"other", o1>>}} /\ ReadIn(M, "other", ComputeType(j), o2) = {{<<"other", o2>>}}
  BY <1>8, ReadsOperand, OperandTypes, TypesOfBuffers
<1> QED
  BY ONLY <1>9, <1>10 DEF Weight, o1, o2

(* A completed product is what the operation promises, one by one.           *)
LEMMA MatmulForwardRight ==
    ASSUME NEW j, Called(j), SameTypes(j), j.op = "MatmulForward", NEW M0, NEW M, Prepared(j, M0),
           Done(j, MatmulForwardProduct(j), M0, M)
    PROVE  M["output"].cells = Expected(j)
<1> DEFINE p == MatmulForwardProduct(j)
           Cell(b, h, i) == UNION {Times(Input(j, b, h, l), Other(j, b, l, i)) : l \in 0 .. j.k - 1}
<1>1. /\ Fits(j, p) /\ p.in = ComputeType(j)
      /\ p.transA = FALSE /\ p.transB = FALSE /\ p.m = j.n /\ p.n = j.m /\ p.k = j.k
      /\ p.A = "other" /\ p.lda = j.n /\ p.B = "input" /\ p.ldb = j.k /\ p.C = "output" /\ p.ldc = j.n
      /\ p.alpha = 1 /\ p.beta = 0
      /\ p.batchCount = j.bs
      /\ Strided(j.bs, j.k, j.n, p.strideA)
      /\ Strided(j.bs, j.m, j.k, p.strideB)
      /\ Strided(j.bs, j.m, j.n, p.strideC)
  BY MatmulForwardFits
<1>2. Done(j, p, M0, M)
  OBVIOUS
<1> HIDE DEF p
<1>3. /\ j.m \in Nat /\ j.k \in Nat /\ j.n \in Nat /\ j.bs \in Nat /\ p.strideA \in Nat /\ p.strideB \in Nat
  BY <1>1, CalledFields DEF Fits
<1>4. DOMAIN M0[p.C].cells = CellsOf(j.bs, j.m, j.n)
  <2>1. OutputSize(j) = j.bs * j.m * j.n
    BY DEF OutputSize
  <2>2. M0["output"].cells = [o \in 0 .. OutputSize(j) - 1 |-> {{<<"output", o>>}}]
    BY OutputStarts DEF AddsBias
  <2> QED
    BY ONLY <1>1, <2>1, <2>2 DEF CellsOf
<1>5. /\ M[p.C].cells = [o \in CellsOf(j.bs, j.m, j.n) |-> M[p.C].cells[o]]
      /\ \A o \in CellsOf(j.bs, j.m, j.n) :
           /\ o \div (j.m * j.n) \in 0 .. j.bs - 1 /\ (o \div j.n) % j.m \in 0 .. j.m - 1
           /\ o % j.n \in 0 .. j.n - 1
           /\ M[p.C].cells[o] = Value(p, M0, o \div (j.m * j.n), (o \div j.n) % j.m, o % j.n)
  <2>1. Filled(p, M0, M, j.bs, j.m, j.n)
    BY <1>1, <1>2, <1>3, <1>4, RowMajorResult
  <2> QED
    BY <2>1 DEF Filled
<1>6. ASSUME NEW b \in 0 .. j.bs - 1, NEW h \in 0 .. j.m - 1, NEW i \in 0 .. j.n - 1
      PROVE  Value(p, M0, b, h, i) = Cell(b, h, i)
  <2>1. ASSUME NEW l \in 0 .. j.k - 1
        PROVE  Times(OfA(p, M0, b, i, l), OfB(p, M0, b, l, h)) = Times(Input(j, b, h, l), Other(j, b, l, i))
    <3>1. ReadIn(M0, "other", ComputeType(j), At(b, l, i, j.n, p.strideA)) = Other(j, b, l, i)
      BY <1>1, <1>3, OtherAt DEF Outers
    <3>2. ReadIn(M0, "input", ComputeType(j), At(b, h, l, j.k, p.strideB)) = Input(j, b, h, l)
      BY <1>1, <1>3, InputAt DEF Outers
    <3>3. OfA(p, M0, b, i, l) = Other(j, b, l, i) /\ OfB(p, M0, b, l, h) = Input(j, b, h, l)
      BY ONLY <1>1, <3>1, <3>2 DEF OfA, OfB
    <3> QED
      BY ONLY <3>3, TimesCommutes
  <2>2. {Times(OfA(p, M0, b, i, l), OfB(p, M0, b, l, h)) : l \in 0 .. p.k - 1}
        = {Times(Input(j, b, h, l), Other(j, b, l, i)) : l \in 0 .. j.k - 1}
    BY <1>1, <2>1
  <2>3. Value(p, M0, b, h, i) = UNION {Times(OfA(p, M0, b, i, l), OfB(p, M0, b, l, h)) : l \in 0 .. p.k - 1}
    BY <1>1, PlainValue
  <2> QED
    BY ONLY <2>2, <2>3
<1>7. Expected(j) = [o \in CellsOf(j.bs, j.m, j.n) |-> Cell(o \div (j.m * j.n), (o \div j.n) % j.m, o % j.n)]
  BY DEF Expected, RowMajor, SumOver, CellsOf
<1> HIDE DEF Cell
<1>8. \A o \in CellsOf(j.bs, j.m, j.n) :
        M[p.C].cells[o] = Cell(o \div (j.m * j.n), (o \div j.n) % j.m, o % j.n)
  BY ONLY <1>5, <1>6
<1> QED
  BY ONLY <1>1, <1>5, <1>7, <1>8

LEMMA MatmulBackwardInputRight ==
    ASSUME NEW j, Called(j), SameTypes(j), j.op = "MatmulBackwardInput", NEW M0, NEW M, Prepared(j, M0),
           Done(j, MatmulBackwardInputProduct(j), M0, M)
    PROVE  M["output"].cells = Expected(j)
<1> DEFINE p == MatmulBackwardInputProduct(j)
           Cell(b, h, i) == UNION {Times(GradOut(j, b, h, l), Other(j, b, i, l)) : l \in 0 .. j.n - 1}
<1>1. /\ Fits(j, p) /\ p.in = ComputeType(j)
      /\ p.transA = TRUE /\ p.transB = FALSE /\ p.m = j.k /\ p.n = j.m /\ p.k = j.n
      /\ p.A = "other" /\ p.lda = j.n /\ p.B = Grad(j) /\ p.ldb = j.n /\ p.C = "output" /\ p.ldc = j.k
      /\ p.alpha = 1 /\ p.beta = 0
      /\ p.batchCount = j.bs
      /\ Strided(j.bs, j.k, j.n, p.strideA)
      /\ Strided(j.bs, j.m, j.n, p.strideB)
      /\ Strided(j.bs, j.m, j.k, p.strideC)
  BY MatmulBackwardInputFits
<1>2. Done(j, p, M0, M)
  OBVIOUS
<1> HIDE DEF p
<1>3. /\ j.m \in Nat /\ j.k \in Nat /\ j.n \in Nat /\ j.bs \in Nat /\ p.strideA \in Nat /\ p.strideB \in Nat
  BY <1>1, CalledFields DEF Fits
<1>4. DOMAIN M0[p.C].cells = CellsOf(j.bs, j.m, j.k)
  <2>1. OutputSize(j) = j.bs * j.m * j.k
    BY DEF OutputSize
  <2>2. M0["output"].cells = [o \in 0 .. OutputSize(j) - 1 |-> {{<<"output", o>>}}]
    BY OutputStarts DEF AddsBias
  <2> QED
    BY ONLY <1>1, <2>1, <2>2 DEF CellsOf
<1>5. /\ M[p.C].cells = [o \in CellsOf(j.bs, j.m, j.k) |-> M[p.C].cells[o]]
      /\ \A o \in CellsOf(j.bs, j.m, j.k) :
           /\ o \div (j.m * j.k) \in 0 .. j.bs - 1 /\ (o \div j.k) % j.m \in 0 .. j.m - 1
           /\ o % j.k \in 0 .. j.k - 1
           /\ M[p.C].cells[o] = Value(p, M0, o \div (j.m * j.k), (o \div j.k) % j.m, o % j.k)
  <2>1. Filled(p, M0, M, j.bs, j.m, j.k)
    BY <1>1, <1>2, <1>3, <1>4, RowMajorResult
  <2> QED
    BY <2>1 DEF Filled
<1>6. ASSUME NEW b \in 0 .. j.bs - 1, NEW h \in 0 .. j.m - 1, NEW i \in 0 .. j.k - 1
      PROVE  Value(p, M0, b, h, i) = Cell(b, h, i)
  <2>1. ASSUME NEW l \in 0 .. j.n - 1
        PROVE  Times(OfA(p, M0, b, i, l), OfB(p, M0, b, l, h)) = Times(GradOut(j, b, h, l), Other(j, b, i, l))
    <3>1. ReadIn(M0, "other", ComputeType(j), At(b, i, l, j.n, p.strideA)) = Other(j, b, i, l)
      BY <1>1, <1>3, OtherAt DEF Outers
    <3>2. ReadIn(M0, Grad(j), ComputeType(j), At(b, h, l, j.n, p.strideB)) = GradOut(j, b, h, l)
      BY <1>1, <1>3, GradAt DEF Forwards
    <3>3. OfA(p, M0, b, i, l) = Other(j, b, i, l) /\ OfB(p, M0, b, l, h) = GradOut(j, b, h, l)
      BY ONLY <1>1, <3>1, <3>2 DEF OfA, OfB
    <3> QED
      BY ONLY <3>3, TimesCommutes
  <2>2. {Times(OfA(p, M0, b, i, l), OfB(p, M0, b, l, h)) : l \in 0 .. p.k - 1}
        = {Times(GradOut(j, b, h, l), Other(j, b, i, l)) : l \in 0 .. j.n - 1}
    BY <1>1, <2>1
  <2>3. Value(p, M0, b, h, i) = UNION {Times(OfA(p, M0, b, i, l), OfB(p, M0, b, l, h)) : l \in 0 .. p.k - 1}
    BY <1>1, PlainValue
  <2> QED
    BY ONLY <2>2, <2>3
<1>7. Expected(j) = [o \in CellsOf(j.bs, j.m, j.k) |-> Cell(o \div (j.m * j.k), (o \div j.k) % j.m, o % j.k)]
  BY DEF Expected, RowMajor, SumOver, CellsOf
<1> HIDE DEF Cell
<1>8. \A o \in CellsOf(j.bs, j.m, j.k) :
        M[p.C].cells[o] = Cell(o \div (j.m * j.k), (o \div j.k) % j.m, o % j.k)
  BY ONLY <1>5, <1>6
<1> QED
  BY ONLY <1>1, <1>5, <1>7, <1>8

LEMMA MatmulBackwardOtherRight ==
    ASSUME NEW j, Called(j), SameTypes(j), j.op = "MatmulBackwardOther", NEW M0, NEW M, Prepared(j, M0),
           Done(j, MatmulBackwardOtherProduct(j), M0, M)
    PROVE  M["output"].cells = Expected(j)
<1> DEFINE p == MatmulBackwardOtherProduct(j)
           Cell(b, h, i) == UNION {Times(Input(j, b, l, h), GradOut(j, b, l, i)) : l \in 0 .. j.m - 1}
<1>1. /\ Fits(j, p) /\ p.in = ComputeType(j)
      /\ p.transA = FALSE /\ p.transB = TRUE /\ p.m = j.n /\ p.n = j.k /\ p.k = j.m
      /\ p.A = Grad(j) /\ p.lda = j.n /\ p.B = "input" /\ p.ldb = j.k /\ p.C = "output" /\ p.ldc = j.n
      /\ p.alpha = 1 /\ p.beta = 0
      /\ p.batchCount = j.bs
      /\ Strided(j.bs, j.m, j.n, p.strideA)
      /\ Strided(j.bs, j.m, j.k, p.strideB)
      /\ Strided(j.bs, j.k, j.n, p.strideC)
  BY MatmulBackwardOtherFits
<1>2. Done(j, p, M0, M)
  OBVIOUS
<1> HIDE DEF p
<1>3. /\ j.m \in Nat /\ j.k \in Nat /\ j.n \in Nat /\ j.bs \in Nat /\ p.strideA \in Nat /\ p.strideB \in Nat
  BY <1>1, CalledFields DEF Fits
<1>4. DOMAIN M0[p.C].cells = CellsOf(j.bs, j.k, j.n)
  <2>1. OutputSize(j) = j.bs * j.k * j.n
    BY DEF OutputSize
  <2>2. M0["output"].cells = [o \in 0 .. OutputSize(j) - 1 |-> {{<<"output", o>>}}]
    BY OutputStarts DEF AddsBias
  <2> QED
    BY ONLY <1>1, <2>1, <2>2 DEF CellsOf
<1>5. /\ M[p.C].cells = [o \in CellsOf(j.bs, j.k, j.n) |-> M[p.C].cells[o]]
      /\ \A o \in CellsOf(j.bs, j.k, j.n) :
           /\ o \div (j.k * j.n) \in 0 .. j.bs - 1 /\ (o \div j.n) % j.k \in 0 .. j.k - 1
           /\ o % j.n \in 0 .. j.n - 1
           /\ M[p.C].cells[o] = Value(p, M0, o \div (j.k * j.n), (o \div j.n) % j.k, o % j.n)
  <2>1. Filled(p, M0, M, j.bs, j.k, j.n)
    BY <1>1, <1>2, <1>3, <1>4, RowMajorResult
  <2> QED
    BY <2>1 DEF Filled
<1>6. ASSUME NEW b \in 0 .. j.bs - 1, NEW h \in 0 .. j.k - 1, NEW i \in 0 .. j.n - 1
      PROVE  Value(p, M0, b, h, i) = Cell(b, h, i)
  <2>1. ASSUME NEW l \in 0 .. j.m - 1
        PROVE  Times(OfA(p, M0, b, i, l), OfB(p, M0, b, l, h)) = Times(Input(j, b, l, h), GradOut(j, b, l, i))
    <3>1. ReadIn(M0, Grad(j), ComputeType(j), At(b, l, i, j.n, p.strideA)) = GradOut(j, b, l, i)
      BY <1>1, <1>3, GradAt DEF Forwards
    <3>2. ReadIn(M0, "input", ComputeType(j), At(b, l, h, j.k, p.strideB)) = Input(j, b, l, h)
      BY <1>1, <1>3, InputAt DEF Outers
    <3>3. OfA(p, M0, b, i, l) = GradOut(j, b, l, i) /\ OfB(p, M0, b, l, h) = Input(j, b, l, h)
      BY ONLY <1>1, <3>1, <3>2 DEF OfA, OfB
    <3> QED
      BY ONLY <3>3, TimesCommutes
  <2>2. {Times(OfA(p, M0, b, i, l), OfB(p, M0, b, l, h)) : l \in 0 .. p.k - 1}
        = {Times(Input(j, b, l, h), GradOut(j, b, l, i)) : l \in 0 .. j.m - 1}
    BY <1>1, <2>1
  <2>3. Value(p, M0, b, h, i) = UNION {Times(OfA(p, M0, b, i, l), OfB(p, M0, b, l, h)) : l \in 0 .. p.k - 1}
    BY <1>1, PlainValue
  <2> QED
    BY ONLY <2>2, <2>3
<1>7. Expected(j) = [o \in CellsOf(j.bs, j.k, j.n) |-> Cell(o \div (j.k * j.n), (o \div j.n) % j.k, o % j.n)]
  BY DEF Expected, RowMajor, SumOver, CellsOf
<1> HIDE DEF Cell
<1>8. \A o \in CellsOf(j.bs, j.k, j.n) :
        M[p.C].cells[o] = Cell(o \div (j.k * j.n), (o \div j.n) % j.k, o % j.n)
  BY ONLY <1>5, <1>6
<1> QED
  BY ONLY <1>1, <1>5, <1>7, <1>8

LEMMA LinearBackwardInputRight ==
    ASSUME NEW j, Called(j), SameTypes(j), j.op = "LinearBackwardInput", NEW M0, NEW M, Prepared(j, M0),
           Done(j, LinearBackwardInputProduct(j), M0, M)
    PROVE  M["output"].cells = Expected(j)
<1> DEFINE p == LinearBackwardInputProduct(j)
           Cell(b, h, i) == UNION {Times(GradOut(j, 0, h, l), Weight(j, i, l)) : l \in 0 .. j.n - 1}
<1>1. /\ Fits(j, p) /\ p.in = ComputeType(j)
      /\ p.transA = ~j.transpose /\ p.transB = FALSE /\ p.m = j.k /\ p.n = j.m /\ p.k = j.n
      /\ p.A = "other" /\ p.lda = (IF j.transpose THEN j.k ELSE j.n) /\ p.B = Grad(j) /\ p.ldb = j.n /\ p.C = "output" /\ p.ldc = j.k
      /\ p.alpha = 1 /\ p.beta = 0
      /\ p.batchCount = 1 /\ p.strideA = 0 /\ p.strideB = 0 /\ p.strideC = 0
  BY LinearBackwardInputFits
<1>2. Done(j, p, M0, M)
  OBVIOUS
<1> HIDE DEF p
<1>3. /\ j.m \in Nat /\ j.k \in Nat /\ j.n \in Nat /\ j.bs \in Nat /\ p.strideA \in Nat /\ p.strideB \in Nat /\ j.bs = 1
  BY <1>1, CalledFields DEF Fits, Linears, Outers
<1>0. /\ Strided(1, j.m, j.k, p.strideC) /\ \A x, y, z : z \in {p.strideA, p.strideB} => Strided(j.bs, x, y, z)
  BY <1>1, <1>3 DEF Strided
<1>4. DOMAIN M0[p.C].cells = CellsOf(1, j.m, j.k)
  <2>1. OutputSize(j) = 1 * j.m * j.k
    BY <1>3 DEF OutputSize
  <2>2. M0["output"].cells = [o \in 0 .. OutputSize(j) - 1 |-> {{<<"output", o>>}}]
    BY OutputStarts DEF AddsBias
  <2> QED
    BY ONLY <1>1, <2>1, <2>2 DEF CellsOf
<1>5. /\ M[p.C].cells = [o \in CellsOf(1, j.m, j.k) |-> M[p.C].cells[o]]
      /\ \A o \in CellsOf(1, j.m, j.k) :
           /\ o \div (j.m * j.k) \in 0 .. 1 - 1 /\ (o \div j.k) % j.m \in 0 .. j.m - 1
           /\ o % j.k \in 0 .. j.k - 1
           /\ M[p.C].cells[o] = Value(p, M0, o \div (j.m * j.k), (o \div j.k) % j.m, o % j.k)
  <2>1. Filled(p, M0, M, 1, j.m, j.k)
    BY <1>0, <1>1, <1>2, <1>3, <1>4, RowMajorResult
  <2> QED
    BY <2>1 DEF Filled
<1>6. ASSUME NEW b \in 0 .. 1 - 1, NEW h \in 0 .. j.m - 1, NEW i \in 0 .. j.k - 1
      PROVE  Value(p, M0, b, h, i) = Cell(b, h, i)
  <2>0. b = 0 /\ b \in 0 .. j.bs - 1
    BY <1>3
  <2>1. ASSUME NEW l \in 0 .. j.n - 1
        PROVE  Times(OfA(p, M0, b, i, l), OfB(p, M0, b, l, h)) = Times(GradOut(j, 0, h, l), Weight(j, i, l))
    <3>1. /\ j.transpose => ReadIn(M0, "other", ComputeType(j), At(b, l, i, j.k, p.strideA)) = Weight(j, i, l)
          /\ ~j.transpose => ReadIn(M0, "other", ComputeType(j), At(b, i, l, j.n, p.strideA)) = Weight(j, i, l)
      BY <1>0, <2>0, <1>1, <1>3, WeightAt DEF Linears
    <3>2. ReadIn(M0, Grad(j), ComputeType(j), At(b, h, l, j.n, p.strideB)) = GradOut(j, b, h, l)
      BY <1>0, <2>0, <1>1, <1>3, GradAt DEF Forwards
    <3>3. OfA(p, M0, b, i, l) = Weight(j, i, l) /\ OfB(p, M0, b, l, h) = GradOut(j, 0, h, l)
      BY ONLY <1>0, <2>0, <1>1, <3>1, <3>2 DEF OfA, OfB
    <3> QED
      BY ONLY <3>3, TimesCommutes
  <2>2. {Times(OfA(p, M0, b, i, l), OfB(p, M0, b, l, h)) : l \in 0 .. p.k - 1}
        = {Times(GradOut(j, 0, h, l), Weight(j, i, l)) : l \in 0 .. j.n - 1}
    BY <1>1, <2>1
  <2>3. Value(p, M0, b, h, i) = UNION {Times(OfA(p, M0, b, i, l), OfB(p, M0, b, l, h)) : l \in 0 .. p.k - 1}
    BY <1>1, PlainValue
  <2> QED
    BY ONLY <2>2, <2>3
<1>7. Expected(j) = [o \in CellsOf(1, j.m, j.k) |-> Cell(o \div (j.m * j.k), (o \div j.k) % j.m, o % j.k)]
  BY DEF Expected, RowMajor, SumOver, CellsOf
<1> HIDE DEF Cell
<1>8. \A o \in CellsOf(1, j.m, j.k) :
        M[p.C].cells[o] = Cell(o \div (j.m * j.k), (o \div j.k) % j.m, o % j.k)
  BY ONLY <1>5, <1>6
<1> QED
  BY ONLY <1>1, <1>5, <1>7, <1>8

LEMMA LinearBackwardWeightTRight ==
    ASSUME NEW j, Called(j), SameTypes(j), j.op = "LinearBackwardWeight", j.transpose, NEW M0, NEW M, Prepared(j, M0),
           Done(j, LinearBackwardWeightProduct(j), M0, M)
    PROVE  M["output"].cells = Expected(j)
<1> DEFINE p == LinearBackwardWeightProduct(j)
           Cell(b, h, i) == UNION {Times(Input(j, 0, l, i), GradOut(j, 0, l, h)) : l \in 0 .. j.m - 1}
<1>1. /\ Fits(j, p) /\ p.in = ComputeType(j)
      /\ p.transA = FALSE /\ p.transB = TRUE /\ p.m = j.k /\ p.n = j.n /\ p.k = j.m
      /\ p.A = "input" /\ p.lda = j.k /\ p.B = Grad(j) /\ p.ldb = j.n /\ p.C = "output" /\ p.ldc = j.k
      /\ p.alpha = 1 /\ p.beta = 0
      /\ p.batchCount = 1 /\ p.strideA = 0 /\ p.strideB = 0 /\ p.strideC = 0
  BY LinearBackwardWeightTFits
<1>2. Done(j, p, M0, M)
  OBVIOUS
<1> HIDE DEF p
<1>3. /\ j.m \in Nat /\ j.k \in Nat /\ j.n \in Nat /\ j.bs \in Nat /\ p.strideA \in Nat /\ p.strideB \in Nat /\ j.bs = 1
  BY <1>1, CalledFields DEF Fits, Linears, Outers
<1>0. /\ Strided(1, j.n, j.k, p.strideC) /\ \A x, y, z : z \in {p.strideA, p.strideB} => Strided(j.bs, x, y, z)
  BY <1>1, <1>3 DEF Strided
<1>4. DOMAIN M0[p.C].cells = CellsOf(1, j.n, j.k)
  <2>1. OutputSize(j) = 1 * j.n * j.k
    BY <1>3 DEF OutputSize
  <2>2. M0["output"].cells = [o \in 0 .. OutputSize(j) - 1 |-> {{<<"output", o>>}}]
    BY OutputStarts DEF AddsBias
  <2> QED
    BY ONLY <1>1, <2>1, <2>2 DEF CellsOf
<1>5. /\ M[p.C].cells = [o \in CellsOf(1, j.n, j.k) |-> M[p.C].cells[o]]
      /\ \A o \in CellsOf(1, j.n, j.k) :
           /\ o \div (j.n * j.k) \in 0 .. 1 - 1 /\ (o \div j.k) % j.n \in 0 .. j.n - 1
           /\ o % j.k \in 0 .. j.k - 1
           /\ M[p.C].cells[o] = Value(p, M0, o \div (j.n * j.k), (o \div j.k) % j.n, o % j.k)
  <2>1. Filled(p, M0, M, 1, j.n, j.k)
    BY <1>0, <1>1, <1>2, <1>3, <1>4, RowMajorResult
  <2> QED
    BY <2>1 DEF Filled
<1>6. ASSUME NEW b \in 0 .. 1 - 1, NEW h \in 0 .. j.n - 1, NEW i \in 0 .. j.k - 1
      PROVE  Value(p, M0, b, h, i) = Cell(b, h, i)
  <2>0. b = 0 /\ b \in 0 .. j.bs - 1
    BY <1>3
  <2>1. ASSUME NEW l \in 0 .. j.m - 1
        PROVE  Times(OfA(p, M0, b, i, l), OfB(p, M0, b, l, h)) = Times(Input(j, 0, l, i), GradOut(j, 0, l, h))
    <3>1. ReadIn(M0, "input", ComputeType(j), At(b, l, i, j.k, p.strideA)) = Input(j, b, l, i)
      BY <1>0, <2>0, <1>1, <1>3, InputAt DEF Outers
    <3>2. ReadIn(M0, Grad(j), ComputeType(j), At(b, l, h, j.n, p.strideB)) = GradOut(j, b, l, h)
      BY <1>0, <2>0, <1>1, <1>3, GradAt DEF Forwards
    <3>3. OfA(p, M0, b, i, l) = Input(j, 0, l, i) /\ OfB(p, M0, b, l, h) = GradOut(j, 0, l, h)
      BY ONLY <1>0, <2>0, <1>1, <3>1, <3>2 DEF OfA, OfB
    <3> QED
      BY ONLY <3>3
  <2>2. {Times(OfA(p, M0, b, i, l), OfB(p, M0, b, l, h)) : l \in 0 .. p.k - 1}
        = {Times(Input(j, 0, l, i), GradOut(j, 0, l, h)) : l \in 0 .. j.m - 1}
    BY <1>1, <2>1
  <2>3. Value(p, M0, b, h, i) = UNION {Times(OfA(p, M0, b, i, l), OfB(p, M0, b, l, h)) : l \in 0 .. p.k - 1}
    BY <1>1, PlainValue
  <2> QED
    BY ONLY <2>2, <2>3
<1>7. Expected(j) = [o \in CellsOf(1, j.n, j.k) |-> Cell(o \div (j.n * j.k), (o \div j.k) % j.n, o % j.k)]
  BY DEF Expected, RowMajor, SumOver, CellsOf
<1> HIDE DEF Cell
<1>8. \A o \in CellsOf(1, j.n, j.k) :
        M[p.C].cells[o] = Cell(o \div (j.n * j.k), (o \div j.k) % j.n, o % j.k)
  BY ONLY <1>5, <1>6
<1> QED
  BY ONLY <1>1, <1>5, <1>7, <1>8

LEMMA LinearBackwardWeightRight ==
    ASSUME NEW j, Called(j), SameTypes(j), j.op = "LinearBackwardWeight", ~j.transpose, NEW M0, NEW M, Prepared(j, M0),
           Done(j, LinearBackwardWeightProduct(j), M0, M)
    PROVE  M["output"].cells = Expected(j)
<1> DEFINE p == LinearBackwardWeightProduct(j)
           Cell(b, h, i) == UNION {Times(Input(j, 0, l, h), GradOut(j, 0, l, i)) : l \in 0 .. j.m - 1}
<1>1. /\ Fits(j, p) /\ p.in = ComputeType(j)
      /\ p.transA = FALSE /\ p.transB = TRUE /\ p.m = j.n /\ p.n = j.k /\ p.k = j.m
      /\ p.A = Grad(j) /\ p.lda = j.n /\ p.B = "input" /\ p.ldb = j.k /\ p.C = "output" /\ p.ldc = j.n
      /\ p.alpha = 1 /\ p.beta = 0
      /\ p.batchCount = 1 /\ p.strideA = 0 /\ p.strideB = 0 /\ p.strideC = 0
  BY LinearBackwardWeightFits
<1>2. Done(j, p, M0, M)
  OBVIOUS
<1> HIDE DEF p
<1>3. /\ j.m \in Nat /\ j.k \in Nat /\ j.n \in Nat /\ j.bs \in Nat /\ p.strideA \in Nat /\ p.strideB \in Nat /\ j.bs = 1
  BY <1>1, CalledFields DEF Fits, Linears, Outers
<1>0. /\ Strided(1, j.k, j.n, p.strideC) /\ \A x, y, z : z \in {p.strideA, p.strideB} => Strided(j.bs, x, y, z)
  BY <1>1, <1>3 DEF Strided
<1>4. DOMAIN M0[p.C].cells = CellsOf(1, j.k, j.n)
  <2>1. OutputSize(j) = 1 * j.k * j.n
    BY <1>3 DEF OutputSize
  <2>2. M0["output"].cells = [o \in 0 .. OutputSize(j) - 1 |-> {{<<"output", o>>}}]
    BY OutputStarts DEF AddsBias
  <2> QED
    BY ONLY <1>1, <2>1, <2>2 DEF CellsOf
<1>5. /\ M[p.C].cells = [o \in CellsOf(1, j.k, j.n) |-> M[p.C].cells[o]]
      /\ \A o \in CellsOf(1, j.k, j.n) :
           /\ o \div (j.k * j.n) \in 0 .. 1 - 1 /\ (o \div j.n) % j.k \in 0 .. j.k - 1
           /\ o % j.n \in 0 .. j.n - 1
           /\ M[p.C].cells[o] = Value(p, M0, o \div (j.k * j.n), (o \div j.n) % j.k, o % j.n)
  <2>1. Filled(p, M0, M, 1, j.k, j.n)
    BY <1>0, <1>1, <1>2, <1>3, <1>4, RowMajorResult
  <2> QED
    BY <2>1 DEF Filled
<1>6. ASSUME NEW b \in 0 .. 1 - 1, NEW h \in 0 .. j.k - 1, NEW i \in 0 .. j.n - 1
      PROVE  Value(p, M0, b, h, i) = Cell(b, h, i)
  <2>0. b = 0 /\ b \in 0 .. j.bs - 1
    BY <1>3
  <2>1. ASSUME NEW l \in 0 .. j.m - 1
        PROVE  Times(OfA(p, M0, b, i, l), OfB(p, M0, b, l, h)) = Times(Input(j, 0, l, h), GradOut(j, 0, l, i))
    <3>1. ReadIn(M0, Grad(j), ComputeType(j), At(b, l, i, j.n, p.strideA)) = GradOut(j, b, l, i)
      BY <1>0, <2>0, <1>1, <1>3, GradAt DEF Forwards
    <3>2. ReadIn(M0, "input", ComputeType(j), At(b, l, h, j.k, p.strideB)) = Input(j, b, l, h)
      BY <1>0, <2>0, <1>1, <1>3, InputAt DEF Outers
    <3>3. OfA(p, M0, b, i, l) = GradOut(j, 0, l, i) /\ OfB(p, M0, b, l, h) = Input(j, 0, l, h)
      BY ONLY <1>0, <2>0, <1>1, <3>1, <3>2 DEF OfA, OfB
    <3> QED
      BY ONLY <3>3, TimesCommutes
  <2>2. {Times(OfA(p, M0, b, i, l), OfB(p, M0, b, l, h)) : l \in 0 .. p.k - 1}
        = {Times(Input(j, 0, l, h), GradOut(j, 0, l, i)) : l \in 0 .. j.m - 1}
    BY <1>1, <2>1
  <2>3. Value(p, M0, b, h, i) = UNION {Times(OfA(p, M0, b, i, l), OfB(p, M0, b, l, h)) : l \in 0 .. p.k - 1}
    BY <1>1, PlainValue
  <2> QED
    BY ONLY <2>2, <2>3
<1>7. Expected(j) = [o \in CellsOf(1, j.k, j.n) |-> Cell(o \div (j.k * j.n), (o \div j.n) % j.k, o % j.n)]
  BY DEF Expected, RowMajor, SumOver, CellsOf
<1> HIDE DEF Cell
<1>8. \A o \in CellsOf(1, j.k, j.n) :
        M[p.C].cells[o] = Cell(o \div (j.k * j.n), (o \div j.n) % j.k, o % j.n)
  BY ONLY <1>5, <1>6
<1> QED
  BY ONLY <1>1, <1>5, <1>7, <1>8

LEMMA LinearForwardRight ==
    ASSUME NEW j, Called(j), SameTypes(j), j.op = "LinearForward", NEW M0, NEW M, Prepared(j, M0),
           Done(j, LinearForwardProduct(j), M0, M)
    PROVE  M["output"].cells = Expected(j)
<1> DEFINE p == LinearForwardProduct(j)
           Terms(h, i) == UNION {Times(Input(j, 0, h, l), Weight(j, l, i)) : l \in 0 .. j.k - 1}
           Cell(b, h, i) == Terms(h, i) \cup (IF j.bias THEN {{<<"bias", i>>}} ELSE {})
<1>1. /\ Fits(j, p) /\ p.in = ComputeType(j) /\ p.out = ComputeType(j)
      /\ p.transA = j.transpose /\ p.transB = FALSE /\ p.m = j.n /\ p.n = j.m /\ p.k = j.k
      /\ p.A = "other" /\ p.lda = (IF j.transpose THEN j.k ELSE j.n) /\ p.B = "input" /\ p.ldb = j.k /\ p.C = "output" /\ p.ldc = j.n
      /\ p.alpha = 1 /\ p.beta = (IF j.bias THEN 1 ELSE 0)
      /\ p.batchCount = 1 /\ p.strideA = 0 /\ p.strideB = 0 /\ p.strideC = 0
  BY LinearForwardFits
<1>2. Done(j, p, M0, M)
  OBVIOUS
<1> HIDE DEF p
<1>3. /\ j.m \in Nat /\ j.k \in Nat /\ j.n \in Nat /\ j.bs \in Nat /\ p.strideA \in Nat /\ p.strideB \in Nat /\ j.bs = 1 /\ j.bias \in BOOLEAN
  BY <1>1, CalledFields DEF Fits, Linears, Outers
<1>0. /\ Strided(1, j.m, j.n, p.strideC) /\ \A x, y, z : z \in {p.strideA, p.strideB} => Strided(j.bs, x, y, z)
  BY <1>1, <1>3 DEF Strided
<1>4. DOMAIN M0[p.C].cells = CellsOf(1, j.m, j.n)
  <2>1. OutputSize(j) = 1 * j.m * j.n
    BY <1>3 DEF OutputSize
  <2>2. CASE ~j.bias
    <3>1. M0["output"].cells = [o \in 0 .. OutputSize(j) - 1 |-> {{<<"output", o>>}}]
      BY <2>2, OutputStarts DEF AddsBias
    <3> QED
      BY ONLY <1>1, <2>1, <3>1 DEF CellsOf
  <2>3. CASE j.bias
    <3>1. M0["output"].cells = Biased(j)
      BY <2>3 DEF AddsBias, Prepared
    <3>2. 1 * j.m * j.n = j.m * j.n
      BY <1>3
    <3> QED
      BY ONLY <1>1, <3>1, <3>2 DEF CellsOf, Biased
  <2> QED
    BY <1>3, <2>2, <2>3
<1>5. /\ M[p.C].cells = [o \in CellsOf(1, j.m, j.n) |-> M[p.C].cells[o]]
      /\ \A o \in CellsOf(1, j.m, j.n) :
           /\ o \div (j.m * j.n) \in 0 .. 1 - 1 /\ (o \div j.n) % j.m \in 0 .. j.m - 1
           /\ o % j.n \in 0 .. j.n - 1
           /\ M[p.C].cells[o] = Value(p, M0, o \div (j.m * j.n), (o \div j.n) % j.m, o % j.n)
  <2>1. Filled(p, M0, M, 1, j.m, j.n)
    BY <1>0, <1>1, <1>2, <1>3, <1>4, RowMajorResult
  <2> QED
    BY <2>1 DEF Filled
<1>6. ASSUME NEW b \in 0 .. 1 - 1, NEW h \in 0 .. j.m - 1, NEW i \in 0 .. j.n - 1
      PROVE  Value(p, M0, b, h, i) = Cell(b, h, i)
  <2>0. b = 0 /\ b \in 0 .. j.bs - 1
    BY <1>3
  <2>1. ASSUME NEW l \in 0 .. j.k - 1
        PROVE  Times(OfA(p, M0, b, i, l), OfB(p, M0, b, l, h)) = Times(Input(j, 0, h, l), Weight(j, l, i))
    <3>1. /\ j.transpose => ReadIn(M0, "other", ComputeType(j), At(b, i, l, j.k, p.strideA)) = Weight(j, l, i)
          /\ ~j.transpose => ReadIn(M0, "other", ComputeType(j), At(b, l, i, j.n, p.strideA)) = Weight(j, l, i)
      BY <1>0, <2>0, <1>1, <1>3, WeightAt DEF Linears
    <3>2. ReadIn(M0, "input", ComputeType(j), At(b, h, l, j.k, p.strideB)) = Input(j, b, h, l)
      BY <1>0, <2>0, <1>1, <1>3, InputAt DEF Outers
    <3>3. OfA(p, M0, b, i, l) = Weight(j, l, i) /\ OfB(p, M0, b, l, h) = Input(j, 0, h, l)
      BY ONLY <1>0, <2>0, <1>1, <3>1, <3>2 DEF OfA, OfB
    <3> QED
      BY ONLY <3>3, TimesCommutes
  <2>2. {Times(OfA(p, M0, b, i, l), OfB(p, M0, b, l, h)) : l \in 0 .. p.k - 1}
        = {Times(Input(j, 0, h, l), Weight(j, l, i)) : l \in 0 .. j.k - 1}
    BY <1>1, <2>1
  <2>3. Summed(p, M0, b, h, i) = Terms(h, i)
    BY ONLY <1>1, <2>2 DEF Summed
  <2>4. Before(p, M0, b, h, i) = IF j.bias THEN {{<<"bias", i>>}} ELSE {}
    <3>1. CASE ~j.bias
      BY <1>1, <3>1 DEF Before
    <3>2. CASE j.bias
      <4> DEFINE o == At(b, h, i, j.n, p.strideC)
      <4>1. p.strideC \in Nat /\ b \in 0 .. 1 - 1 /\ 1 \in Nat
        BY <1>1, <2>0 DEF Fits
      <4>2. At(b, h, i, j.n, p.strideC) = (b * j.m + h) * j.n + i
        <5> DEFINE one == 1
                   s == p.strideC
        <5>1. /\ one \in Nat /\ b \in 0 .. one - 1 /\ Strided(one, j.m, j.n, s) /\ s \in Nat
              /\ j.m \in Nat /\ j.n \in Nat
          BY ONLY <1>0, <1>3, <4>1
        <5> HIDE DEF one, s
        <5>2. At(b, h, i, j.n, s) = (b * j.m + h) * j.n + i
          <6> DEFINE R == j.m
                     C == j.n
          <6>1. h \in 0 .. R - 1 /\ i \in 0 .. C - 1 /\ R \in Nat /\ C \in Nat /\ Strided(one, R, C, s)
            BY ONLY <5>1, h \in 0 .. j.m - 1, i \in 0 .. j.n - 1
          <6> HIDE DEF R, C
          <6>2. At(b, h, i, C, s) = (b * R + h) * C + i
            BY ONLY <5>1, <6>1, RowMajorPlace
          <6> QED
            BY ONLY <6>2 DEF R, C
        <5> QED
          BY ONLY <5>2 DEF s
      <4>3. o = h * j.n + i
        <5>1. b * j.m + h = h
          BY <1>3, <2>0
        <5> QED
          BY ONLY <4>2, <5>1
      <4>4. h * j.n + i \in 0 .. j.m * j.n - 1 /\ (h * j.n + i) % j.n = i
        <5> DEFINE rows == j.m
                   cols == j.n
        <5>1. rows \in Nat /\ cols \in Nat /\ h \in 0 .. rows - 1 /\ i \in 0 .. cols - 1
          BY <1>3
        <5> HIDE DEF rows, cols
        <5>2. h * cols + i \in 0 .. rows * cols - 1 /\ (h * cols + i) % cols = i
          BY ONLY <5>1, TwoDigits
        <5> QED
          BY ONLY <5>2 DEF rows, cols
      <4>5. M0["output"].cells = Biased(j)
        BY <3>2 DEF AddsBias, Prepared
      <4>6. M0["output"].dtype = ComputeType(j)
        <5>1. M0["output"].dtype = TypeOf(j, "output")
          BY Names, TypeOfBuffer DEF Prepared
        <5> QED
          BY <5>1, TypesOfBuffers DEF TypeOfOutput, Forwards
      <4> HIDE DEF o
      <4>7. o \in DOMAIN Biased(j) /\ Biased(j)[o] = {{<<"bias", o % j.n>>}}
        BY ONLY <4>3, <4>4 DEF Biased
      <4>8. ReadIn(M0, "output", ComputeType(j), o) = {{<<"bias", i>>}}
        BY ONLY <4>3, <4>4, <4>5, <4>6, <4>7 DEF ReadIn
      <4>9. p.beta # 0
        BY <1>1, <3>2
      <4> QED
        BY ONLY <1>1, <3>2, <4>8, <4>9 DEF Before, o
    <3> QED
      BY <1>3, <3>1, <3>2
  <2> QED
    BY ONLY <2>3, <2>4 DEF Value
<1>7. Expected(j) = [o \in CellsOf(1, j.m, j.n) |-> Cell(o \div (j.m * j.n), (o \div j.n) % j.m, o % j.n)]
  BY DEF Expected, RowMajor, SumOver, CellsOf
<1> HIDE DEF Cell
<1>8. \A o \in CellsOf(1, j.m, j.n) :
        M[p.C].cells[o] = Cell(o \div (j.m * j.n), (o \div j.n) % j.m, o % j.n)
  BY ONLY <1>5, <1>6
<1> QED
  BY ONLY <1>1, <1>5, <1>7, <1>8

(* The sizes of the vectors of an outer product.                             *)
LEMMA VectorSizes ==
    ASSUME NEW j, j.op \in Outers
    PROVE  Size(j, "input") = j.m /\ Size(j, "other") = j.n
<1>1. j.op # "Gemm"
  BY DEF Outers
<1>2. Size(j, "input") = j.m
  BY <1>1 DEF Size, Temporaries
<1>3. Size(j, "other") = j.n
  BY <1>1 DEF Size, Temporaries
<1> QED
  BY ONLY <1>2, <1>3

(* The vectors of an outer product, where their elements are read.           *)
LEMMA OuterOperandAt ==
    ASSUME NEW j, Called(j), j.op = "OuterBackward", NEW M, Prepared(j, M), NEW b \in 0 .. 1 - 1,
           NEW o, NEW x \in {"input", "other"}, o \in 0 .. (IF x = "input" THEN j.m ELSE j.n) - 1, NEW ld \in Nat
    PROVE  /\ ReadIn(M, Operand(j, x), ComputeType(j), At(b, 0, o, ld, 0)) = {{<<x, o>>}}
           /\ ReadIn(M, Operand(j, x), ComputeType(j), At(b, o, 0, 1, 0)) = {{<<x, o>>}}
<1>1. j.m \in Nat /\ j.n \in Nat
  BY CalledFields
<1>2. Size(j, "input") = j.m /\ Size(j, "other") = j.n
  BY VectorSizes DEF Outers
<1>3. At(b, 0, o, ld, 0) = o /\ At(b, o, 0, 1, 0) = o
  BY <1>1 DEF At
<1>4. ReadIn(M, Operand(j, x), ComputeType(j), o) = {{<<x, o>>}}
  BY <1>2, ReadsConverted, ConvertedOperands
<1> QED
  BY <1>3, <1>4

(* The gradient of an outer product, where its elements are read.            *)
LEMMA OuterGradAt ==
    ASSUME NEW j, Called(j), j.op = "OuterBackward", NEW M, Prepared(j, M), NEW b \in 0 .. 1 - 1,
           NEW i \in 0 .. j.m - 1, NEW h \in 0 .. j.n - 1
    PROVE  ReadIn(M, Grad(j), ComputeType(j), At(b, i, h, j.n, 0)) = GradOut(j, 0, i, h)
<1>1. j.bs = 1 /\ j.m \in Nat /\ j.n \in Nat
  BY CalledFields DEF Outers
<1>2. b = 0 /\ b \in 0 .. j.bs - 1 /\ Strided(j.bs, j.m, j.n, 0) /\ 0 \in Nat /\ j.op \notin Forwards
  BY <1>1 DEF Strided, Forwards
<1>3. ReadIn(M, Grad(j), ComputeType(j), At(b, i, h, j.n, 0)) = GradOut(j, b, i, h)
  BY ONLY Called(j), Prepared(j, M), i \in 0 .. j.m - 1, h \in 0 .. j.n - 1, <1>2, GradAt
<1> QED
  BY ONLY <1>2, <1>3

(* The same of the outer product, and of its gradients in both types.        *)
LEMMA OuterForwardRight ==
    ASSUME NEW j, Called(j), SameTypes(j), j.op = "OuterForward", NEW M0, NEW M1, NEW M, Prepared(j, M0),
           \A x \in Buffers \ Temporaries : M1[x] = M0[x], Done(j, OuterForwardProduct(j), M1, M)
    PROVE  M["output"].cells = Expected(j)
<1> DEFINE p == OuterForwardProduct(j)
           Cell(h, i) == Times({{<<"input", h>>}}, {{<<"other", i>>}})
<1>1. /\ Fits(j, p) /\ p.in = ComputeType(j)
      /\ p.transA = FALSE /\ p.transB = FALSE /\ p.m = j.n /\ p.n = j.m /\ p.k = 1
      /\ p.A = "other" /\ p.lda = j.n /\ p.B = "input" /\ p.ldb = 1 /\ p.C = "output" /\ p.ldc = j.n
      /\ p.alpha = 1 /\ p.beta = 0
      /\ p.batchCount = 1 /\ p.strideA = 0 /\ p.strideB = 0 /\ p.strideC = 0
  BY OuterForwardFits
<1>2. Done(j, p, M1, M)
  OBVIOUS
<1> HIDE DEF p
<1>3. /\ j.m \in Nat /\ j.k \in Nat /\ j.n \in Nat /\ j.bs \in Nat /\ j.bs = 1 /\ 1 \in Nat
  BY CalledFields DEF Outers
<1>0. Strided(1, j.m, j.n, p.strideC) /\ Strided(j.bs, j.m, j.n, 0)
  BY <1>1, <1>3 DEF Strided
<1>9. \A x \in Buffers \ Temporaries : \A d, o : ReadIn(M1, x, d, o) = ReadIn(M0, x, d, o)
  BY DEF ReadIn
<1>4. DOMAIN M1[p.C].cells = CellsOf(1, j.m, j.n)
  <2>1. OutputSize(j) = 1 * j.m * j.n
    BY <1>3 DEF OutputSize
  <2>2. M0["output"].cells = [o \in 0 .. OutputSize(j) - 1 |-> {{<<"output", o>>}}]
    BY OutputStarts DEF AddsBias
  <2>3. M1["output"] = M0["output"]
    BY Names DEF Temporaries
  <2> QED
    BY ONLY <1>1, <2>1, <2>2, <2>3 DEF CellsOf
<1>5. /\ M[p.C].cells = [o \in CellsOf(1, j.m, j.n) |-> M[p.C].cells[o]]
      /\ \A o \in CellsOf(1, j.m, j.n) :
           /\ o \div (j.m * j.n) \in 0 .. 1 - 1 /\ (o \div j.n) % j.m \in 0 .. j.m - 1
           /\ o % j.n \in 0 .. j.n - 1
           /\ M[p.C].cells[o] = Value(p, M1, o \div (j.m * j.n), (o \div j.n) % j.m, o % j.n)
  <2>1. Filled(p, M1, M, 1, j.m, j.n)
    BY <1>0, <1>1, <1>2, <1>3, <1>4, RowMajorResult
  <2> QED
    BY ONLY <2>1 DEF Filled
<1>6. ASSUME NEW b \in 0 .. 1 - 1, NEW h \in 0 .. j.m - 1, NEW i \in 0 .. j.n - 1
      PROVE  Value(p, M1, b, h, i) = Cell(h, i)
  <2>0. b = 0 /\ b \in 0 .. j.bs - 1
    BY <1>3
  <2>1. ASSUME NEW l \in 0 .. 1 - 1
        PROVE  Times(OfA(p, M1, b, i, l), OfB(p, M1, b, l, h)) = Times({{<<"input", h>>}}, {{<<"other", i>>}})
    <3>0. l = 0
      OBVIOUS
    <3>1. ReadIn(M1, "other", ComputeType(j), At(b, 0, i, j.n, 0)) = {{<<"other", i>>}}
      <4>1. ReadIn(M0, "other", ComputeType(j), At(b, 0, i, j.n, 0)) = {{<<"other", i>>}}
        <5>1. At(b, 0, i, j.n, 0) = i
          BY <2>0, <1>3 DEF At
        <5>2. i \in 0 .. Size(j, "other") - 1 /\ TypeOf(j, "other") = ComputeType(j)
          BY VectorSizes, OperandTypes, TypesOfBuffers DEF Outers
        <5> QED
          BY <5>1, <5>2, ReadsOperand
      <4> QED
        BY ONLY <1>9, <4>1 DEF Buffers, Operands, Temporaries
    <3>2. ReadIn(M1, "input", ComputeType(j), At(b, h, 0, 1, 0)) = {{<<"input", h>>}}
      <4>1. ReadIn(M0, "input", ComputeType(j), At(b, h, 0, 1, 0)) = {{<<"input", h>>}}
        <5>1. At(b, h, 0, 1, 0) = h
          BY <2>0, <1>3 DEF At
        <5>2. h \in 0 .. Size(j, "input") - 1 /\ TypeOf(j, "input") = ComputeType(j)
          BY VectorSizes, OperandTypes, TypesOfBuffers DEF Outers
        <5> QED
          BY <5>1, <5>2, ReadsOperand
      <4> QED
        BY ONLY <1>9, <4>1 DEF Buffers, Operands, Temporaries
    <3>3. OfA(p, M1, b, i, l) = {{<<"other", i>>}} /\ OfB(p, M1, b, l, h) = {{<<"input", h>>}}
      BY ONLY <2>0, <1>1, <3>0, <3>1, <3>2 DEF OfA, OfB
    <3> QED
      BY ONLY <3>3, TimesCommutes
  <2>2. {Times(OfA(p, M1, b, i, l), OfB(p, M1, b, l, h)) : l \in 0 .. p.k - 1}
        = {Times({{<<"input", h>>}}, {{<<"other", i>>}}) : l \in 0 .. 1 - 1}
    <3>1. p.k = 1
      BY <1>1
    <3> QED
      BY ONLY <2>1, <3>1
  <2>3. Value(p, M1, b, h, i) = UNION {Times(OfA(p, M1, b, i, l), OfB(p, M1, b, l, h)) : l \in 0 .. p.k - 1}
    BY <1>1, PlainValue
  <2>4. UNION {Cell(h, i) : l \in 0 .. 1 - 1} = Cell(h, i)
    <3> HIDE DEF Cell
    <3>1. {Cell(h, i) : l \in 0 .. 1 - 1} = {Cell(h, i)}
      BY 0 \in 0 .. 1 - 1
    <3> QED
      BY ONLY <3>1
  <2> QED
    BY ONLY <2>2, <2>3, <2>4
<1>7. Expected(j) = [o \in CellsOf(1, j.m, j.n) |-> Cell((o \div j.n) % j.m, o % j.n)]
  BY DEF Expected, RowMajor, CellsOf
<1> HIDE DEF Cell
<1>8. \A o \in CellsOf(1, j.m, j.n) :
        M[p.C].cells[o] = Cell((o \div j.n) % j.m, o % j.n)
  BY ONLY <1>5, <1>6
<1> QED
  BY ONLY <1>1, <1>5, <1>7, <1>8

LEMMA OuterVector1Right ==
    ASSUME NEW j, Called(j), j.op = "OuterBackward", ComputeType(j) = "kFLOAT32", NEW M0, NEW M1, NEW M, Prepared(j, M0),
           \A x \in Buffers \ Temporaries : M1[x] = M0[x], Done(j, OuterProduct1(j), M1, M)
    PROVE  M["output"].cells = Expected(j)
<1> DEFINE p == OuterProduct1(j)
           Cell(x) == UNION {Times(GradOut(j, 0, x, l), {{<<"other", l>>}}) : l \in 0 .. j.n - 1}
<1>1. /\ Fits(j, p) /\ p.in = ComputeType(j)
      /\ p.transA = TRUE /\ p.transB = FALSE /\ p.m = j.m /\ p.n = 1 /\ p.k = j.n
      /\ p.A = Grad(j) /\ p.lda = j.n /\ p.B = Operand(j, "other") /\ p.ldb = j.n /\ p.C = "output" /\ p.ldc = j.m
      /\ p.alpha = 1 /\ p.beta = 0
      /\ p.batchCount = 1 /\ p.strideA = 0 /\ p.strideB = 0 /\ p.strideC = 0
  BY OuterVector1Fits
<1>2. Done(j, p, M1, M)
  OBVIOUS
<1> HIDE DEF p
<1>3. /\ j.m \in Nat /\ j.k \in Nat /\ j.n \in Nat /\ j.bs \in Nat /\ j.bs = 1 /\ 1 \in Nat
  BY CalledFields DEF Outers
<1>0. Strided(1, 1, j.m, p.strideC) /\ Strided(j.bs, j.m, j.n, 0)
  BY <1>1, <1>3 DEF Strided
<1>9. \A x \in Buffers \ Temporaries : \A d, o : ReadIn(M1, x, d, o) = ReadIn(M0, x, d, o)
  BY DEF ReadIn
<1>4. DOMAIN M1[p.C].cells = CellsOf(1, 1, j.m)
  <2>1. OutputSize(j) = 1 * 1 * j.m
    BY <1>3 DEF OutputSize
  <2>2. M0["output"].cells = [o \in 0 .. OutputSize(j) - 1 |-> {{<<"output", o>>}}]
    BY OutputStarts DEF AddsBias
  <2>3. M1["output"] = M0["output"]
    BY Names DEF Temporaries
  <2> QED
    BY ONLY <1>1, <2>1, <2>2, <2>3 DEF CellsOf
<1>5. /\ M[p.C].cells = [o \in CellsOf(1, 1, j.m) |-> M[p.C].cells[o]]
      /\ \A o \in CellsOf(1, 1, j.m) :
           /\ o \div (1 * j.m) \in 0 .. 1 - 1 /\ (o \div j.m) % 1 \in 0 .. 1 - 1
           /\ o % j.m \in 0 .. j.m - 1
           /\ M[p.C].cells[o] = Value(p, M1, o \div (1 * j.m), (o \div j.m) % 1, o % j.m)
  <2>1. Filled(p, M1, M, 1, 1, j.m)
    BY <1>0, <1>1, <1>2, <1>3, <1>4, RowMajorResult
  <2> QED
    BY ONLY <2>1 DEF Filled
<1>6. ASSUME NEW b \in 0 .. 1 - 1, NEW h \in 0 .. 1 - 1, NEW i \in 0 .. j.m - 1
      PROVE  Value(p, M1, b, h, i) = Cell(i)
  <2>0. b = 0 /\ b \in 0 .. j.bs - 1 /\ h = 0
    BY <1>3
  <2>1. ASSUME NEW l \in 0 .. j.n - 1
        PROVE  Times(OfA(p, M1, b, i, l), OfB(p, M1, b, l, h)) = Times(GradOut(j, 0, i, l), {{<<"other", l>>}})
    <3>1. ReadIn(M1, Grad(j), ComputeType(j), At(b, i, l, j.n, 0)) = GradOut(j, 0, i, l)
      <4>1. ReadIn(M0, Grad(j), ComputeType(j), At(b, i, l, j.n, 0)) = GradOut(j, 0, i, l)
        BY <2>0, OuterGradAt
      <4> QED
        BY ONLY <1>9, <4>1, OperandNames DEF Buffers, Operands, Temporaries
    <3>2. ReadIn(M1, Operand(j, "other"), ComputeType(j), At(b, 0, l, j.n, 0)) = {{<<"other", l>>}}
      <4>1. ReadIn(M0, Operand(j, "other"), ComputeType(j), At(b, 0, l, j.n, 0)) = {{<<"other", l>>}}
        BY <2>0, <1>3, OuterOperandAt
      <4> QED
        BY ONLY <1>9, <4>1, OperandNames DEF Buffers, Operands, Temporaries
    <3>3. OfA(p, M1, b, i, l) = GradOut(j, 0, i, l) /\ OfB(p, M1, b, l, h) = {{<<"other", l>>}}
      BY ONLY <2>0, <1>1, <3>1, <3>2 DEF OfA, OfB
    <3> QED
      BY ONLY <3>3, TimesCommutes
  <2>2. {Times(OfA(p, M1, b, i, l), OfB(p, M1, b, l, h)) : l \in 0 .. p.k - 1}
        = {Times(GradOut(j, 0, i, l), {{<<"other", l>>}}) : l \in 0 .. j.n - 1}
    <3>1. p.k = j.n
      BY <1>1
    <3> QED
      BY ONLY <2>1, <3>1
  <2>3. Value(p, M1, b, h, i) = UNION {Times(OfA(p, M1, b, i, l), OfB(p, M1, b, l, h)) : l \in 0 .. p.k - 1}
    BY <1>1, PlainValue
  <2> QED
    BY ONLY <2>2, <2>3
<1>7. Expected(j) = [o \in CellsOf(1, 1, j.m) |-> Cell(o % j.m)]
  BY DEF Expected, RowMajor, SumOver, CellsOf
<1> HIDE DEF Cell
<1>8. \A o \in CellsOf(1, 1, j.m) :
        M[p.C].cells[o] = Cell(o % j.m)
  BY ONLY <1>5, <1>6
<1> QED
  BY ONLY <1>1, <1>5, <1>7, <1>8

LEMMA OuterVector2Right ==
    ASSUME NEW j, Called(j), j.op = "OuterBackward", ComputeType(j) = "kFLOAT32", NEW M0, NEW M1, NEW M, Prepared(j, M0),
           \A x \in Buffers \ (Temporaries \cup {"output"}) : M1[x] = M0[x], Done(j, OuterProduct2(j), M1, M)
    PROVE  M["output2"].cells = Expected2(j)
<1> DEFINE p == OuterProduct2(j)
           Cell(x) == UNION {Times(GradOut(j, 0, l, x), {{<<"input", l>>}}) : l \in 0 .. j.m - 1}
<1>1. /\ Fits(j, p) /\ p.in = ComputeType(j)
      /\ p.transA = FALSE /\ p.transB = FALSE /\ p.m = j.n /\ p.n = 1 /\ p.k = j.m
      /\ p.A = Grad(j) /\ p.lda = j.n /\ p.B = Operand(j, "input") /\ p.ldb = j.m /\ p.C = "output2" /\ p.ldc = j.n
      /\ p.alpha = 1 /\ p.beta = 0
      /\ p.batchCount = 1 /\ p.strideA = 0 /\ p.strideB = 0 /\ p.strideC = 0
  BY OuterVector2Fits
<1>2. Done(j, p, M1, M)
  OBVIOUS
<1> HIDE DEF p
<1>3. /\ j.m \in Nat /\ j.k \in Nat /\ j.n \in Nat /\ j.bs \in Nat /\ j.bs = 1 /\ 1 \in Nat
  BY CalledFields DEF Outers
<1>0. Strided(1, 1, j.n, p.strideC) /\ Strided(j.bs, j.m, j.n, 0)
  BY <1>1, <1>3 DEF Strided
<1>9. \A x \in Buffers \ (Temporaries \cup {"output"}) : \A d, o : ReadIn(M1, x, d, o) = ReadIn(M0, x, d, o)
  BY DEF ReadIn
<1>4. DOMAIN M1[p.C].cells = CellsOf(1, 1, j.n)
  <2>1. Size(j, "output2") = 1 * 1 * j.n
    BY <1>3 DEF Size, Temporaries
  <2>2. Memory(j)["output2"].cells = [o \in 0 .. Size(j, "output2") - 1 |-> {{<<"output2", o>>}}]
    BY Names, StartCells
  <2>3. M1["output2"] = Memory(j)["output2"]
    BY Names DEF Temporaries, Prepared
  <2> QED
    BY ONLY <1>1, <2>1, <2>2, <2>3 DEF CellsOf
<1>5. /\ M[p.C].cells = [o \in CellsOf(1, 1, j.n) |-> M[p.C].cells[o]]
      /\ \A o \in CellsOf(1, 1, j.n) :
           /\ o \div (1 * j.n) \in 0 .. 1 - 1 /\ (o \div j.n) % 1 \in 0 .. 1 - 1
           /\ o % j.n \in 0 .. j.n - 1
           /\ M[p.C].cells[o] = Value(p, M1, o \div (1 * j.n), (o \div j.n) % 1, o % j.n)
  <2>1. Filled(p, M1, M, 1, 1, j.n)
    BY <1>0, <1>1, <1>2, <1>3, <1>4, RowMajorResult
  <2> QED
    BY ONLY <2>1 DEF Filled
<1>6. ASSUME NEW b \in 0 .. 1 - 1, NEW h \in 0 .. 1 - 1, NEW i \in 0 .. j.n - 1
      PROVE  Value(p, M1, b, h, i) = Cell(i)
  <2>0. b = 0 /\ b \in 0 .. j.bs - 1 /\ h = 0
    BY <1>3
  <2>1. ASSUME NEW l \in 0 .. j.m - 1
        PROVE  Times(OfA(p, M1, b, i, l), OfB(p, M1, b, l, h)) = Times(GradOut(j, 0, l, i), {{<<"input", l>>}})
    <3>1. ReadIn(M1, Grad(j), ComputeType(j), At(b, l, i, j.n, 0)) = GradOut(j, 0, l, i)
      <4>1. ReadIn(M0, Grad(j), ComputeType(j), At(b, l, i, j.n, 0)) = GradOut(j, 0, l, i)
        BY <2>0, OuterGradAt
      <4> QED
        BY ONLY <1>9, <4>1, OperandNames DEF Buffers, Operands, Temporaries
    <3>2. ReadIn(M1, Operand(j, "input"), ComputeType(j), At(b, 0, l, j.m, 0)) = {{<<"input", l>>}}
      <4>1. ReadIn(M0, Operand(j, "input"), ComputeType(j), At(b, 0, l, j.m, 0)) = {{<<"input", l>>}}
        BY <2>0, <1>3, OuterOperandAt
      <4> QED
        BY ONLY <1>9, <4>1, OperandNames DEF Buffers, Operands, Temporaries
    <3>3. OfA(p, M1, b, i, l) = GradOut(j, 0, l, i) /\ OfB(p, M1, b, l, h) = {{<<"input", l>>}}
      BY ONLY <2>0, <1>1, <3>1, <3>2 DEF OfA, OfB
    <3> QED
      BY ONLY <3>3, TimesCommutes
  <2>2. {Times(OfA(p, M1, b, i, l), OfB(p, M1, b, l, h)) : l \in 0 .. p.k - 1}
        = {Times(GradOut(j, 0, l, i), {{<<"input", l>>}}) : l \in 0 .. j.m - 1}
    <3>1. p.k = j.m
      BY <1>1
    <3> QED
      BY ONLY <2>1, <3>1
  <2>3. Value(p, M1, b, h, i) = UNION {Times(OfA(p, M1, b, i, l), OfB(p, M1, b, l, h)) : l \in 0 .. p.k - 1}
    BY <1>1, PlainValue
  <2> QED
    BY ONLY <2>2, <2>3
<1>7. Expected2(j) = [o \in CellsOf(1, 1, j.n) |-> Cell(o % j.n)]
  BY DEF Expected2, RowMajor, SumOver, CellsOf
<1> HIDE DEF Cell
<1>8. \A o \in CellsOf(1, 1, j.n) :
        M[p.C].cells[o] = Cell(o % j.n)
  BY ONLY <1>5, <1>6
<1> QED
  BY ONLY <1>1, <1>5, <1>7, <1>8

LEMMA OuterMatrix1Right ==
    ASSUME NEW j, Called(j), j.op = "OuterBackward", ComputeType(j) # "kFLOAT32", NEW M0, NEW M1, NEW M, Prepared(j, M0),
           \A x \in Buffers \ Temporaries : M1[x] = M0[x], Done(j, OuterProduct1(j), M1, M)
    PROVE  M["output"].cells = Expected(j)
<1> DEFINE p == OuterProduct1(j)
           Cell(x) == UNION {Times(GradOut(j, 0, x, l), {{<<"other", l>>}}) : l \in 0 .. j.n - 1}
<1>1. /\ Fits(j, p) /\ p.in = ComputeType(j)
      /\ p.transA = FALSE /\ p.transB = FALSE /\ p.m = 1 /\ p.n = j.m /\ p.k = j.n
      /\ p.A = Operand(j, "other") /\ p.lda = 1 /\ p.B = Grad(j) /\ p.ldb = j.n /\ p.C = "output" /\ p.ldc = 1
      /\ p.alpha = 1 /\ p.beta = 0
      /\ p.batchCount = 1 /\ p.strideA = 0 /\ p.strideB = 0 /\ p.strideC = 0
  BY OuterMatrix1Fits
<1>2. Done(j, p, M1, M)
  OBVIOUS
<1> HIDE DEF p
<1>3. /\ j.m \in Nat /\ j.k \in Nat /\ j.n \in Nat /\ j.bs \in Nat /\ j.bs = 1 /\ 1 \in Nat
  BY CalledFields DEF Outers
<1>0. Strided(1, j.m, 1, p.strideC) /\ Strided(j.bs, j.m, j.n, 0)
  BY <1>1, <1>3 DEF Strided
<1>9. \A x \in Buffers \ Temporaries : \A d, o : ReadIn(M1, x, d, o) = ReadIn(M0, x, d, o)
  BY DEF ReadIn
<1>4. DOMAIN M1[p.C].cells = CellsOf(1, j.m, 1)
  <2>1. OutputSize(j) = 1 * j.m * 1
    BY <1>3 DEF OutputSize
  <2>2. M0["output"].cells = [o \in 0 .. OutputSize(j) - 1 |-> {{<<"output", o>>}}]
    BY OutputStarts DEF AddsBias
  <2>3. M1["output"] = M0["output"]
    BY Names DEF Temporaries
  <2> QED
    BY ONLY <1>1, <2>1, <2>2, <2>3 DEF CellsOf
<1>5. /\ M[p.C].cells = [o \in CellsOf(1, j.m, 1) |-> M[p.C].cells[o]]
      /\ \A o \in CellsOf(1, j.m, 1) :
           /\ o \div (j.m * 1) \in 0 .. 1 - 1 /\ (o \div 1) % j.m \in 0 .. j.m - 1
           /\ o % 1 \in 0 .. 1 - 1
           /\ M[p.C].cells[o] = Value(p, M1, o \div (j.m * 1), (o \div 1) % j.m, o % 1)
  <2>1. Filled(p, M1, M, 1, j.m, 1)
    BY <1>0, <1>1, <1>2, <1>3, <1>4, RowMajorResult
  <2> QED
    BY ONLY <2>1 DEF Filled
<1>6. ASSUME NEW b \in 0 .. 1 - 1, NEW h \in 0 .. j.m - 1, NEW i \in 0 .. 1 - 1
      PROVE  Value(p, M1, b, h, i) = Cell(h)
  <2>0. b = 0 /\ b \in 0 .. j.bs - 1 /\ i = 0
    BY <1>3
  <2>1. ASSUME NEW l \in 0 .. j.n - 1
        PROVE  Times(OfA(p, M1, b, i, l), OfB(p, M1, b, l, h)) = Times(GradOut(j, 0, h, l), {{<<"other", l>>}})
    <3>1. ReadIn(M1, Operand(j, "other"), ComputeType(j), At(b, l, 0, 1, 0)) = {{<<"other", l>>}}
      <4>1. ReadIn(M0, Operand(j, "other"), ComputeType(j), At(b, l, 0, 1, 0)) = {{<<"other", l>>}}
        BY <2>0, <1>3, OuterOperandAt
      <4> QED
        BY ONLY <1>9, <4>1, OperandNames DEF Buffers, Operands, Temporaries
    <3>2. ReadIn(M1, Grad(j), ComputeType(j), At(b, h, l, j.n, 0)) = GradOut(j, 0, h, l)
      <4>1. ReadIn(M0, Grad(j), ComputeType(j), At(b, h, l, j.n, 0)) = GradOut(j, 0, h, l)
        BY <2>0, OuterGradAt
      <4> QED
        BY ONLY <1>9, <4>1, OperandNames DEF Buffers, Operands, Temporaries
    <3>3. OfA(p, M1, b, i, l) = {{<<"other", l>>}} /\ OfB(p, M1, b, l, h) = GradOut(j, 0, h, l)
      BY ONLY <2>0, <1>1, <3>1, <3>2 DEF OfA, OfB
    <3> QED
      BY ONLY <3>3, TimesCommutes
  <2>2. {Times(OfA(p, M1, b, i, l), OfB(p, M1, b, l, h)) : l \in 0 .. p.k - 1}
        = {Times(GradOut(j, 0, h, l), {{<<"other", l>>}}) : l \in 0 .. j.n - 1}
    <3>1. p.k = j.n
      BY <1>1
    <3> QED
      BY ONLY <2>1, <3>1
  <2>3. Value(p, M1, b, h, i) = UNION {Times(OfA(p, M1, b, i, l), OfB(p, M1, b, l, h)) : l \in 0 .. p.k - 1}
    BY <1>1, PlainValue
  <2> QED
    BY ONLY <2>2, <2>3
<1>7. Expected(j) = [o \in CellsOf(1, j.m, 1) |-> Cell((o \div 1) % j.m)]
  <2>1. Expected(j) = [o \in CellsOf(1, 1, j.m) |-> Cell(o % j.m)]
    BY DEF Expected, RowMajor, SumOver, CellsOf
  <2>2. CellsOf(1, 1, j.m) = CellsOf(1, j.m, 1) /\ \A o \in CellsOf(1, j.m, 1) : o \div 1 = o
    BY <1>3 DEF CellsOf
  <2> HIDE DEF Cell
  <2> QED
    BY ONLY <2>1, <2>2
<1> HIDE DEF Cell
<1>8. \A o \in CellsOf(1, j.m, 1) :
        M[p.C].cells[o] = Cell((o \div 1) % j.m)
  BY ONLY <1>5, <1>6
<1> QED
  BY ONLY <1>1, <1>5, <1>7, <1>8

LEMMA OuterMatrix2Right ==
    ASSUME NEW j, Called(j), j.op = "OuterBackward", ComputeType(j) # "kFLOAT32", NEW M0, NEW M1, NEW M, Prepared(j, M0),
           \A x \in Buffers \ (Temporaries \cup {"output"}) : M1[x] = M0[x], Done(j, OuterProduct2(j), M1, M)
    PROVE  M["output2"].cells = Expected2(j)
<1> DEFINE p == OuterProduct2(j)
           Cell(x) == UNION {Times(GradOut(j, 0, l, x), {{<<"input", l>>}}) : l \in 0 .. j.m - 1}
<1>1. /\ Fits(j, p) /\ p.in = ComputeType(j)
      /\ p.transA = FALSE /\ p.transB = TRUE /\ p.m = 1 /\ p.n = j.n /\ p.k = j.m
      /\ p.A = Operand(j, "input") /\ p.lda = 1 /\ p.B = Grad(j) /\ p.ldb = j.n /\ p.C = "output2" /\ p.ldc = 1
      /\ p.alpha = 1 /\ p.beta = 0
      /\ p.batchCount = 1 /\ p.strideA = 0 /\ p.strideB = 0 /\ p.strideC = 0
  BY OuterMatrix2Fits
<1>2. Done(j, p, M1, M)
  OBVIOUS
<1> HIDE DEF p
<1>3. /\ j.m \in Nat /\ j.k \in Nat /\ j.n \in Nat /\ j.bs \in Nat /\ j.bs = 1 /\ 1 \in Nat
  BY CalledFields DEF Outers
<1>0. Strided(1, j.n, 1, p.strideC) /\ Strided(j.bs, j.m, j.n, 0)
  BY <1>1, <1>3 DEF Strided
<1>9. \A x \in Buffers \ (Temporaries \cup {"output"}) : \A d, o : ReadIn(M1, x, d, o) = ReadIn(M0, x, d, o)
  BY DEF ReadIn
<1>4. DOMAIN M1[p.C].cells = CellsOf(1, j.n, 1)
  <2>1. Size(j, "output2") = 1 * j.n * 1
    BY <1>3 DEF Size, Temporaries
  <2>2. Memory(j)["output2"].cells = [o \in 0 .. Size(j, "output2") - 1 |-> {{<<"output2", o>>}}]
    BY Names, StartCells
  <2>3. M1["output2"] = Memory(j)["output2"]
    BY Names DEF Temporaries, Prepared
  <2> QED
    BY ONLY <1>1, <2>1, <2>2, <2>3 DEF CellsOf
<1>5. /\ M[p.C].cells = [o \in CellsOf(1, j.n, 1) |-> M[p.C].cells[o]]
      /\ \A o \in CellsOf(1, j.n, 1) :
           /\ o \div (j.n * 1) \in 0 .. 1 - 1 /\ (o \div 1) % j.n \in 0 .. j.n - 1
           /\ o % 1 \in 0 .. 1 - 1
           /\ M[p.C].cells[o] = Value(p, M1, o \div (j.n * 1), (o \div 1) % j.n, o % 1)
  <2>1. Filled(p, M1, M, 1, j.n, 1)
    BY <1>0, <1>1, <1>2, <1>3, <1>4, RowMajorResult
  <2> QED
    BY ONLY <2>1 DEF Filled
<1>6. ASSUME NEW b \in 0 .. 1 - 1, NEW h \in 0 .. j.n - 1, NEW i \in 0 .. 1 - 1
      PROVE  Value(p, M1, b, h, i) = Cell(h)
  <2>0. b = 0 /\ b \in 0 .. j.bs - 1 /\ i = 0
    BY <1>3
  <2>1. ASSUME NEW l \in 0 .. j.m - 1
        PROVE  Times(OfA(p, M1, b, i, l), OfB(p, M1, b, l, h)) = Times(GradOut(j, 0, l, h), {{<<"input", l>>}})
    <3>1. ReadIn(M1, Operand(j, "input"), ComputeType(j), At(b, l, 0, 1, 0)) = {{<<"input", l>>}}
      <4>1. ReadIn(M0, Operand(j, "input"), ComputeType(j), At(b, l, 0, 1, 0)) = {{<<"input", l>>}}
        BY <2>0, <1>3, OuterOperandAt
      <4> QED
        BY ONLY <1>9, <4>1, OperandNames DEF Buffers, Operands, Temporaries
    <3>2. ReadIn(M1, Grad(j), ComputeType(j), At(b, l, h, j.n, 0)) = GradOut(j, 0, l, h)
      <4>1. ReadIn(M0, Grad(j), ComputeType(j), At(b, l, h, j.n, 0)) = GradOut(j, 0, l, h)
        BY <2>0, OuterGradAt
      <4> QED
        BY ONLY <1>9, <4>1, OperandNames DEF Buffers, Operands, Temporaries
    <3>3. OfA(p, M1, b, i, l) = {{<<"input", l>>}} /\ OfB(p, M1, b, l, h) = GradOut(j, 0, l, h)
      BY ONLY <2>0, <1>1, <3>1, <3>2 DEF OfA, OfB
    <3> QED
      BY ONLY <3>3, TimesCommutes
  <2>2. {Times(OfA(p, M1, b, i, l), OfB(p, M1, b, l, h)) : l \in 0 .. p.k - 1}
        = {Times(GradOut(j, 0, l, h), {{<<"input", l>>}}) : l \in 0 .. j.m - 1}
    <3>1. p.k = j.m
      BY <1>1
    <3> QED
      BY ONLY <2>1, <3>1
  <2>3. Value(p, M1, b, h, i) = UNION {Times(OfA(p, M1, b, i, l), OfB(p, M1, b, l, h)) : l \in 0 .. p.k - 1}
    BY <1>1, PlainValue
  <2> QED
    BY ONLY <2>2, <2>3
<1>7. Expected2(j) = [o \in CellsOf(1, j.n, 1) |-> Cell((o \div 1) % j.n)]
  <2>1. Expected2(j) = [o \in CellsOf(1, 1, j.n) |-> Cell(o % j.n)]
    BY DEF Expected2, RowMajor, SumOver, CellsOf
  <2>2. CellsOf(1, 1, j.n) = CellsOf(1, j.n, 1) /\ \A o \in CellsOf(1, j.n, 1) : o \div 1 = o
    BY <1>3 DEF CellsOf
  <2> HIDE DEF Cell
  <2> QED
    BY ONLY <2>1, <2>2
<1> HIDE DEF Cell
<1>8. \A o \in CellsOf(1, j.n, 1) :
        M[p.C].cells[o] = Cell((o \div 1) % j.n)
  BY ONLY <1>5, <1>6
<1> QED
  BY ONLY <1>1, <1>5, <1>7, <1>8

(* The cells of padded matrices are those of their buffer; B is the number of *)
(* matrices it has, one when a batch shares it.                               *)
Housed(B, bs, cols, ld, s) == (B = bs /\ Strided(bs, cols, ld, s)) \/ (B = 1 /\ s = 0)

(* The elements of a matrix with padding are within its buffer.              *)
LEMMA PaddedPlace ==
    ASSUME NEW B \in Nat, NEW bs \in Nat, NEW cols \in Nat, NEW ld \in Nat, NEW s \in Nat,
           Housed(B, bs, cols, ld, s),
           NEW b \in 0 .. bs - 1, NEW c \in 0 .. cols - 1, NEW r \in 0 .. ld - 1
    PROVE  At(b, c, r, ld, s) \in 0 .. ld * cols * B - 1
<1>1. \A y \in Nat : CellsOf(y, cols, ld) = 0 .. ld * cols * y - 1
  BY DEF CellsOf
<1>2. CASE B = bs /\ Strided(bs, cols, ld, s)
  <2>1. At(b, c, r, ld, s) \in CellsOf(bs, cols, ld)
    BY <1>2, RowMajorPlace
  <2> QED
    BY ONLY <1>1, <1>2, <2>1, B \in Nat
<1>3. CASE B = 1 /\ s = 0
  <2>1. Strided(1, cols, ld, 0) /\ 0 \in 0 .. 1 - 1 /\ 1 \in Nat /\ 0 \in Nat
    BY DEF Strided
  <2>2. At(0, c, r, ld, 0) \in CellsOf(1, cols, ld)
    BY ONLY <2>1, cols \in Nat, ld \in Nat, c \in 0 .. cols - 1, r \in 0 .. ld - 1, RowMajorPlace
  <2>3. At(b, c, r, ld, s) = At(0, c, r, ld, 0)
    BY <1>3 DEF At
  <2> QED
    BY ONLY <1>1, <1>3, <2>1, <2>2, <2>3
<1> QED
  BY <1>2, <1>3 DEF Housed

(* The sizes of what Gemm itself is called for.                              *)
LdOf(j) == Ld(j.m, j)
Batches(j) == IF j.broadcast THEN 1 ELSE j.bs

(* The buffers of a direct call have room for matrices and padding.          *)
LEMMA DirectSizes ==
    ASSUME NEW j, Called(j), j.op = "Gemm"
    PROVE  /\ DirectA(j).ld \in Nat /\ DirectA(j).cols \in Nat /\ Ld(j.k, j) \in Nat /\ LdOf(j) \in Nat
           /\ j.m <= LdOf(j) /\ j.k <= Ld(j.k, j)
           /\ DirectA(j).cols = (IF j.transpose THEN j.m ELSE j.k)
           /\ (IF j.transpose THEN j.k ELSE j.m) <= DirectA(j).ld
           /\ Size(j, "input") = DirectA(j).ld * DirectA(j).cols * Batches(j)
           /\ Size(j, "other") = Ld(j.k, j) * j.n * j.bs
           /\ Size(j, "output") = LdOf(j) * j.n * j.bs
           /\ Batches(j) \in Nat
<1>1. /\ j.m \in Nat /\ j.k \in Nat /\ j.n \in Nat /\ j.bs \in Nat /\ j.pad \in Nat
      /\ j.transpose \in BOOLEAN /\ j.broadcast \in BOOLEAN
  BY CalledFields
<1>2. \A x \in Nat : Ld(x, j) \in Nat /\ x <= Ld(x, j)
  BY <1>1 DEF Ld
<1>3. /\ DirectA(j).ld = Ld(IF j.transpose THEN j.k ELSE j.m, j)
      /\ DirectA(j).cols = (IF j.transpose THEN j.m ELSE j.k)
  BY DEF DirectA
<1>4. Size(j, "input") = DirectA(j).ld * DirectA(j).cols * Batches(j)
  BY DEF Size, Temporaries, Batches
<1>5. Size(j, "other") = Ld(j.k, j) * j.n * j.bs
  BY DEF Size, Temporaries
<1>6. Size(j, "output") = LdOf(j) * j.n * j.bs
  BY SizesOfBuffers DEF OutputSize, LdOf
<1>7. Batches(j) \in Nat
  BY <1>1 DEF Batches
<1> QED
  BY ONLY <1>1, <1>2, <1>3, <1>4, <1>5, <1>6, <1>7 DEF LdOf

(* The parameters of a direct call, with padding or one A for a batch.       *)
LEMMA DirectFits ==
    ASSUME NEW j, Called(j), j.op = "Gemm"
    PROVE  LET p == DirectProduct(j)
           IN  /\ Fits(j, p) /\ Outside(p) /\ p.in = ComputeType(j) /\ p.out = ComputeType(j)
               /\ p.transA = j.transpose /\ p.transB = FALSE /\ p.m = j.m /\ p.n = j.n /\ p.k = j.k
               /\ p.A = "input" /\ p.lda = DirectA(j).ld /\ p.B = "other" /\ p.ldb = Ld(j.k, j)
               /\ p.C = "output" /\ p.ldc = LdOf(j) /\ p.alpha = j.alpha /\ p.beta = j.beta
               /\ p.batchCount = j.bs /\ p.strideA = DirectStrides(j)[2] /\ p.strideB = DirectStrides(j)[3]
               /\ Housed(Batches(j), j.bs, DirectA(j).cols, DirectA(j).ld, p.strideA)
               /\ Strided(j.bs, j.n, Ld(j.k, j), p.strideB)
               /\ Strided(j.bs, j.n, LdOf(j), p.strideC)
<1> DEFINE p == DirectProduct(j)
           ldA == DirectA(j).ld
           colsA == DirectA(j).cols
           ldB == Ld(j.k, j)
           ldC == LdOf(j)
           sA == IF j.bs > 1 THEN (IF j.broadcast THEN 0 ELSE ldA * colsA) ELSE 0
           sB == IF j.bs > 1 THEN ldB * j.n ELSE 0
           sC == IF j.bs > 1 THEN ldC * j.n ELSE 0
<1>1. /\ p.kernel = "mcblas" /\ p.in = ComputeType(j) /\ p.out = ComputeType(j)
      /\ p.transA = j.transpose /\ p.transB = FALSE /\ p.m = j.m /\ p.n = j.n /\ p.k = j.k
      /\ p.A = "input" /\ p.lda = ldA /\ p.B = "other" /\ p.ldb = ldB /\ p.C = "output" /\ p.ldc = ldC
      /\ p.alpha = j.alpha /\ p.beta = j.beta
  BY DEF DirectProduct, Params, LdOf
<1>2. /\ p.batchCount = j.bs /\ p.strideA = sA /\ p.strideB = sB /\ p.strideC = sC
      /\ p.strideA = DirectStrides(j)[2] /\ p.strideB = DirectStrides(j)[3]
  BY BatchFields DEF DirectProduct, Params, DirectStrides, LdOf
<1> HIDE DEF p
<1>3. /\ j.m \in Nat /\ j.k \in Nat /\ j.n \in Nat /\ j.bs \in Nat
      /\ j.transpose \in BOOLEAN /\ j.broadcast \in BOOLEAN /\ ComputeType(j) \in {"kFLOAT32", "kBFLOAT16"}
  BY CalledFields
<1>4. ldA \in Nat /\ colsA \in Nat /\ ldB \in Nat /\ ldC \in Nat /\ j.m <= ldC
  BY DirectSizes
<1> HIDE DEF ldA, colsA, ldB, ldC
<1>5. /\ sA \in Nat /\ sB \in Nat /\ sC \in Nat
      /\ Strided(j.bs, j.n, ldB, sB) /\ Strided(j.bs, j.n, ldC, sC)
      /\ Spread(j.bs, j.m, j.n, ldC, sC)
  <2>1. ldA * colsA \in Nat /\ ldB * j.n \in Nat /\ ldC * j.n \in Nat /\ ldC * j.n = j.n * ldC /\ ldB * j.n = j.n * ldB
    BY ONLY <1>3, <1>4, Products
  <2> QED
    BY ONLY <1>3, <1>4, <2>1 DEF Strided, Spread
<1>6. Housed(Batches(j), j.bs, colsA, ldA, sA)
  <2>1. ldA * colsA = colsA * ldA
    BY <1>4, Products
  <2> QED
    BY <1>3, <2>1 DEF Housed, Batches, Strided
<1> HIDE DEF sA, sB, sC
<1>7. TypeOf(j, "output") = ComputeType(j)
  BY TypesOfBuffers DEF TypeOfOutput, Forwards
<1>8. Fits(j, p)
  BY <1>1, <1>2, <1>3, <1>4, <1>5, <1>7, Names DEF Fits
<1>9. Outside(p)
  BY <1>1 DEF Outside, Buffers, Operands, Temporaries
<1> QED
  BY ONLY <1>1, <1>2, <1>5, <1>6, <1>8, <1>9 DEF p, ldA, colsA, ldB, ldC

(* A completed direct call is the product, and its padding is left.          *)
LEMMA DirectRight ==
    ASSUME NEW j, Called(j), SameTypes(j), j.op = "Gemm", NEW M0, NEW M, Prepared(j, M0), Done(j, DirectProduct(j), M0, M)
    PROVE  M["output"].cells = Expected(j)
<1> DEFINE p == DirectProduct(j)
           ldA == DirectA(j).ld
           ldB == Ld(j.k, j)
           ldC == LdOf(j)
           A(b, i, l) == {{<<"input", b * DirectStrides(j)[2] + (IF j.transpose THEN i * ldA + l ELSE l * ldA + i)>>}}
           B(b, l, h) == {{<<"other", b * DirectStrides(j)[3] + h * ldB + l>>}}
           Old(o) == {{<<"output", o>>}}
           Terms(b, h, i) == IF j.alpha = 0 THEN {} ELSE UNION {Times(A(b, i, l), B(b, l, h)) : l \in 0 .. j.k - 1}
           Kept(o) == IF j.beta = 0 THEN {} ELSE Old(o)
<1>1. /\ Fits(j, p) /\ p.in = ComputeType(j) /\ p.out = ComputeType(j)
      /\ p.transA = j.transpose /\ p.transB = FALSE /\ p.m = j.m /\ p.n = j.n /\ p.k = j.k
      /\ p.A = "input" /\ p.lda = ldA /\ p.B = "other" /\ p.ldb = ldB /\ p.C = "output" /\ p.ldc = ldC
      /\ p.alpha = j.alpha /\ p.beta = j.beta
      /\ p.batchCount = j.bs /\ p.strideA = DirectStrides(j)[2] /\ p.strideB = DirectStrides(j)[3]
      /\ Housed(Batches(j), j.bs, DirectA(j).cols, ldA, p.strideA)
      /\ Strided(j.bs, j.n, ldB, p.strideB) /\ Strided(j.bs, j.n, ldC, p.strideC)
  BY DirectFits
<1>2. Done(j, p, M0, M)
  OBVIOUS
<1> HIDE DEF p
<1>3. /\ j.m \in Nat /\ j.k \in Nat /\ j.n \in Nat /\ j.bs \in Nat /\ j.transpose \in BOOLEAN
      /\ p.strideA \in Nat /\ p.strideB \in Nat /\ p.strideC \in Nat
      /\ ldA \in Nat /\ DirectA(j).cols \in Nat /\ ldB \in Nat /\ ldC \in Nat /\ Batches(j) \in Nat
      /\ j.m <= ldC /\ j.k <= ldB
      /\ DirectA(j).cols = (IF j.transpose THEN j.m ELSE j.k)
      /\ (IF j.transpose THEN j.k ELSE j.m) <= ldA
  BY <1>1, CalledFields, DirectSizes DEF Fits
<1>4. M0["output"].cells = [o \in CellsOf(j.bs, j.n, ldC) |-> Old(o)] /\ M0["output"].dtype = ComputeType(j)
  <2>1. M0["output"].cells = [o \in 0 .. OutputSize(j) - 1 |-> {{<<"output", o>>}}]
    BY OutputStarts DEF AddsBias
  <2>2. OutputSize(j) = ldC * j.n * j.bs
    BY SizesOfBuffers, DirectSizes
  <2>3. ldC * j.n * j.bs = j.bs * j.n * ldC
    BY <1>3
  <2>4. M0["output"].dtype = TypeOf(j, "output")
    BY Names, TypeOfBuffer DEF Prepared
  <2>5. TypeOf(j, "output") = ComputeType(j)
    BY TypesOfBuffers DEF TypeOfOutput, Forwards
  <2> QED
    BY ONLY <2>1, <2>2, <2>3, <2>4, <2>5 DEF CellsOf
<1>5. /\ M[p.C].cells = [o \in CellsOf(j.bs, j.n, ldC) |-> M[p.C].cells[o]]
      /\ \A o \in CellsOf(j.bs, j.n, ldC) :
           /\ o \div (j.n * ldC) \in 0 .. j.bs - 1 /\ (o \div ldC) % j.n \in 0 .. j.n - 1 /\ o % ldC \in 0 .. ldC - 1
           /\ o % ldC < p.m => M[p.C].cells[o] = Value(p, M0, o \div (j.n * ldC), (o \div ldC) % j.n, o % ldC)
           /\ o % ldC >= p.m => M[p.C].cells[o] = M0[p.C].cells[o]
  <2>1. PaddedCells(p, M0, M, j.bs, j.n, ldC)
    BY <1>1, <1>2, <1>3, <1>4, PaddedResult
  <2> QED
    BY ONLY <2>1 DEF PaddedCells
<1>6. ASSUME NEW b \in 0 .. j.bs - 1, NEW h \in 0 .. j.n - 1, NEW i \in 0 .. j.m - 1
      PROVE  Summed(p, M0, b, h, i) = Terms(b, h, i)
  <2>1. ASSUME NEW l \in 0 .. j.k - 1
        PROVE  OfA(p, M0, b, i, l) = A(b, i, l) /\ OfB(p, M0, b, l, h) = B(b, l, h)
    <3> DEFINE cA == IF j.transpose THEN i ELSE l
               rA == IF j.transpose THEN l ELSE i
    <3>1. cA \in 0 .. DirectA(j).cols - 1 /\ rA \in 0 .. ldA - 1 /\ l \in 0 .. ldB - 1
      BY <1>3
    <3>2. OfA(p, M0, b, i, l) = ReadIn(M0, "input", ComputeType(j), At(b, cA, rA, ldA, p.strideA))
      BY <1>1, <1>3 DEF OfA
    <3>3. OfB(p, M0, b, l, h) = ReadIn(M0, "other", ComputeType(j), At(b, h, l, ldB, p.strideB))
      BY <1>1 DEF OfB
    <3>4. At(b, cA, rA, ldA, p.strideA) = b * DirectStrides(j)[2] + (IF j.transpose THEN i * ldA + l ELSE l * ldA + i)
      BY <1>1, <1>3 DEF At
    <3>5. At(b, h, l, ldB, p.strideB) = b * DirectStrides(j)[3] + h * ldB + l
      BY <1>1 DEF At
    <3> HIDE DEF cA, rA
    <3>6. At(b, cA, rA, ldA, p.strideA) \in 0 .. Size(j, "input") - 1
      <4>1. At(b, cA, rA, ldA, p.strideA) \in 0 .. ldA * DirectA(j).cols * Batches(j) - 1
        BY <1>1, <1>3, <3>1, PaddedPlace
      <4> QED
        BY <4>1, DirectSizes
    <3>7. At(b, h, l, ldB, p.strideB) \in 0 .. Size(j, "other") - 1
      <4>0. Housed(j.bs, j.bs, j.n, ldB, p.strideB)
        BY <1>1 DEF Housed
      <4>1. At(b, h, l, ldB, p.strideB) \in 0 .. ldB * j.n * j.bs - 1
        BY <1>3, <3>1, <4>0, PaddedPlace
      <4> QED
        BY <4>1, DirectSizes
    <3>8. ReadIn(M0, "input", ComputeType(j), At(b, cA, rA, ldA, p.strideA)) = {{<<"input", At(b, cA, rA, ldA, p.strideA)>>}}
      BY <3>6, ReadsOperand, OperandTypes, TypesOfBuffers
    <3>9. ReadIn(M0, "other", ComputeType(j), At(b, h, l, ldB, p.strideB)) = {{<<"other", At(b, h, l, ldB, p.strideB)>>}}
      BY <3>7, ReadsOperand, OperandTypes, TypesOfBuffers
    <3> QED
      BY ONLY <3>2, <3>3, <3>4, <3>5, <3>8, <3>9
  <2> HIDE DEF A, B
  <2>2. p.k = j.k /\ p.alpha = j.alpha
    BY <1>1
  <2>3. {Times(OfA(p, M0, b, i, l), OfB(p, M0, b, l, h)) : l \in 0 .. p.k - 1}
        = {Times(A(b, i, l), B(b, l, h)) : l \in 0 .. j.k - 1}
    BY ONLY <2>1, <2>2
  <2> QED
    BY ONLY <2>2, <2>3 DEF Summed
<1>7. ASSUME NEW o \in CellsOf(j.bs, j.n, ldC), NEW b \in 0 .. j.bs - 1, NEW h \in 0 .. j.n - 1, NEW i \in 0 .. j.m - 1,
             o = At(b, h, i, ldC, p.strideC)
      PROVE  Before(p, M0, b, h, i) = Kept(o)
  <2>1. ReadIn(M0, "output", ComputeType(j), o) = Old(o)
    BY ONLY <1>4, o \in CellsOf(j.bs, j.n, ldC) DEF ReadIn
  <2>2. Before(p, M0, b, h, i) = IF j.beta = 0 THEN {} ELSE ReadIn(M0, "output", ComputeType(j), o)
    BY ONLY <1>1, <1>7 DEF Before
  <2> QED
    BY ONLY <2>1, <2>2
<1> DEFINE Cell(o) == IF o % ldC >= j.m THEN Old(o) ELSE Terms(o \div (ldC * j.n), (o \div ldC) % j.n, o % ldC) \cup Kept(o)
<1>8. Expected(j) = [o \in CellsOf(j.bs, j.n, ldC) |-> Cell(o)]
  <2>1. Expected(j) = ExpectedOfGemm(j)
    BY DEF Expected
  <2>2. ExpectedOfGemm(j) = [o \in 0 .. ldC * j.n * j.bs - 1 |-> Cell(o)]
    BY DEF ExpectedOfGemm, SumOver, LdOf
  <2>3. 0 .. ldC * j.n * j.bs - 1 = CellsOf(j.bs, j.n, ldC)
    BY <1>3 DEF CellsOf
  <2> HIDE DEF Cell
  <2> QED
    BY ONLY <2>1, <2>2, <2>3
<1> HIDE DEF Terms, Kept, Old, ldC
<1>9. ASSUME NEW o \in CellsOf(j.bs, j.n, ldC)
      PROVE  M[p.C].cells[o] = Cell(o)
  <2>1. ldC * j.n = j.n * ldC /\ p.m = j.m
    BY <1>1, <1>3, Products
  <2> DEFINE b == o \div (ldC * j.n)
             h == (o \div ldC) % j.n
             i == o % ldC
  <2>2. /\ b \in 0 .. j.bs - 1 /\ h \in 0 .. j.n - 1 /\ i \in 0 .. ldC - 1
        /\ i < j.m => M[p.C].cells[o] = Value(p, M0, b, h, i)
        /\ i >= j.m => M[p.C].cells[o] = M0[p.C].cells[o]
    BY ONLY <1>5, <2>1
  <2>3. o = At(b, h, i, ldC, p.strideC)
    <3> DEFINE s == p.strideC
               R == j.n
    <3>1. s \in Nat /\ R \in Nat /\ j.bs \in Nat /\ ldC \in Nat /\ Strided(j.bs, R, ldC, s) /\ ldC * j.n = R * ldC
      BY ONLY <1>1, <1>3, <2>1
    <3>2. o \in CellsOf(j.bs, R, ldC)
      OBVIOUS
    <3> HIDE DEF s, R
    <3>3. o = At(o \div (R * ldC), (o \div ldC) % R, o % ldC, ldC, s)
      BY ONLY <3>1, <3>2, RowMajorDigits
    <3> QED
      BY ONLY <3>1, <3>3 DEF s, R
  <2> HIDE DEF b, h, i
  <2>4. CASE i < j.m
    <3>1. i \in 0 .. j.m - 1
      BY <1>3, <2>2, <2>4
    <3>2. Summed(p, M0, b, h, i) = Terms(b, h, i) /\ Before(p, M0, b, h, i) = Kept(o)
      BY <1>6, <1>7, <2>2, <2>3, <3>1
    <3>3. M[p.C].cells[o] = Terms(b, h, i) \cup Kept(o)
      BY ONLY <2>2, <2>4, <3>2 DEF Value
    <3>4. ~(i >= j.m)
      BY <1>3, <2>2, <2>4
    <3> QED
      BY ONLY <3>3, <3>4 DEF b, h, i
  <2>5. CASE i >= j.m
    <3>1. M0[p.C].cells[o] = Old(o)
      BY ONLY <1>1, <1>4, o \in CellsOf(j.bs, j.n, ldC)
    <3> QED
      BY ONLY <2>2, <2>5, <3>1 DEF i
  <2> QED
    BY <1>3, <2>2, <2>4, <2>5
<1> HIDE DEF Cell
<1> QED
  BY ONLY <1>1, <1>5, <1>8, <1>9

(***************************************************************************)
(* What comes before a product, and the operation that asks for none.      *)
(***************************************************************************)
LEMMA MemoryShaped ==
    ASSUME NEW j
    PROVE  Shaped(Memory(j), j)
<1> DEFINE t(b) == TypeOf(j, b)
           c(b) == [o \in 0 .. Size(j, b) - 1 |-> {{<<b, o>>}}]
<1>1. Memory(j) = [b \in Buffers |-> [dtype |-> t(b), cells |-> c(b)]]
  BY DEF Memory, Unwritten, Buffers, Operands, Promotions
<1>2. \A b : c(b) = [o \in DOMAIN c(b) |-> c(b)[o]]
  OBVIOUS
<1> HIDE DEF t, c
<1>3. Memory(j) = [b \in Buffers |-> Memory(j)[b]]
  BY <1>1
<1>4. \A b \in Buffers : Memory(j)[b] = [dtype |-> t(b), cells |-> c(b)]
  BY <1>1
<1>5. \A b \in Buffers : Memory(j)[b].cells = c(b)
  BY StartCells DEF c
<1> QED
  BY ONLY <1>2, <1>3, <1>4, <1>5 DEF Shaped, t

(* Calls with no bias and no conversion are prepared from the start.         *)
LEMMA StartsPrepared ==
    ASSUME NEW j, ~Promotes(j), ~AddsBias(j)
    PROVE  Prepared(j, Memory(j))
BY MemoryShaped DEF Prepared, Promotes

BiasKernel(j) == [kernel |-> "BiasCopyKernel", bs |-> j.m, outFeatures |-> j.n, dtype |-> ComputeType(j)]
ToKernel(j) == [kernel |-> "Convert", of |-> Converted(j)]
ReduceKernel(j) == [kernel |-> "ReduceRowsKernel", rows |-> j.m, cols |-> j.n, dtype |-> ComputeType(j)]

(* BiasCopyKernel prepares the output of LinearForward.                      *)
LEMMA BiasIsCopied ==
    ASSUME NEW j, Called(j), AddsBias(j), memory = Memory(j), CarryOut(BiasKernel(j))
    PROVE  Prepared(j, memory')
<1> DEFINE S == 0 .. j.m * j.n - 1
           cells == [o \in S |-> CellAt("bias", ComputeType(j), o % j.n)]
<1>1. j.m \in Nat /\ j.n \in Nat /\ j.bs = 1 /\ Converted(j) = {}
  BY CalledFields, ConvertedOperands DEF AddsBias, Linears, Forwards
<1>2. Wrote("output", ComputeType(j), cells)
  BY DEF CarryOut, BiasCopyKernel, BiasKernel
<1>3. TypeOf(j, "output") = ComputeType(j)
  BY TypesOfBuffers DEF TypeOfOutput, Forwards, AddsBias
<1>4. Shaped(memory, j)
  BY MemoryShaped
<1>5. DOMAIN memory["output"].cells = S
  <2>1. OutputSize(j) = 1 * j.m * j.n
    BY <1>1 DEF OutputSize, AddsBias
  <2>2. OutputSize(j) = j.m * j.n
    BY ONLY <1>1, <2>1
  <2>3. Memory(j)["output"].cells = [o \in 0 .. OutputSize(j) - 1 |-> {{<<"output", o>>}}]
    BY StartCells, Names, SizesOfBuffers
  <2> QED
    BY ONLY <2>2, <2>3, memory = Memory(j)
<1>6. ASSUME SameTypes(j), NEW o \in S
      PROVE  cells[o] = {{<<"bias", o % j.n>>}}
  <2> DEFINE rows == j.m
             cols == j.n
             i == o % j.n
  <2>1. rows \in Nat /\ cols \in Nat /\ o \in 0 .. rows * cols - 1
    BY <1>1
  <2> HIDE DEF rows, cols
  <2>2. o % cols \in 0 .. cols - 1
    BY ONLY <2>1, DigitsOf
  <2>3. i \in 0 .. j.n - 1
    BY ONLY <2>2 DEF cols
  <2>4. /\ memory["bias"].cells = [x \in 0 .. j.n - 1 |-> {{<<"bias", x>>}}]
        /\ memory["bias"].dtype = ComputeType(j)
    BY <1>6, StartCells, Names, SizesOfBuffers, TypesOfBuffers, OperandTypes
  <2> HIDE DEF i
  <2>5. CellAt("bias", ComputeType(j), i) = {{<<"bias", i>>}}
    BY ONLY <2>3, <2>4 DEF CellAt
  <2>6. cells[o] = CellAt("bias", ComputeType(j), i)
    BY DEF i
  <2> QED
    BY ONLY <2>5, <2>6 DEF i
<1>7. DOMAIN cells = S
  OBVIOUS
<1> HIDE DEF cells, S
<1>8. /\ Shaped(memory', j)
      /\ \A b \in Buffers \ {"output"} : memory'[b] = memory[b]
      /\ DOMAIN memory'["output"].cells = DOMAIN cells \cup DOMAIN memory["output"].cells
      /\ \A o \in DOMAIN cells : memory'["output"].cells[o] = cells[o]
  BY <1>2, <1>3, <1>4, Writes, Names
<1>9. ASSUME SameTypes(j)
      PROVE  memory'["output"].cells = Biased(j)
  <2>1. memory'["output"].cells = [o \in DOMAIN memory'["output"].cells |-> memory'["output"].cells[o]]
    BY <1>8, Names DEF Shaped
  <2>2. \A o \in S : memory'["output"].cells[o] = {{<<"bias", o % j.n>>}}
    BY ONLY <1>6, <1>7, <1>8, <1>9
  <2>3. DOMAIN memory'["output"].cells = S
    BY ONLY <1>5, <1>7, <1>8
  <2> QED
    BY ONLY <2>1, <2>2, <2>3 DEF Biased, S
<1> QED
  BY <1>1, <1>8, <1>9 DEF Prepared, Buffers, Operands, Temporaries

(* The conversion of its operands prepares a backward operation.             *)
LEMMA OperandsAreConverted ==
    ASSUME NEW j, Called(j), Promotes(j), memory = Memory(j), CarryOut(ToKernel(j))
    PROVE  Prepared(j, memory')
<1> DEFINE q == ToKernel(j)
           New(x) == IF \E b \in Converted(j) : x = PromotedOf[b]
                     THEN memory[CHOOSE b \in Converted(j) : x = PromotedOf[b]].cells ELSE memory[x].cells
<1>1. Shaped(memory, j)
  BY MemoryShaped
<1>2. memory' = [x \in DOMAIN memory |-> [memory[x] EXCEPT !.cells = New(x)]]
  <2>1. q.kernel = "Convert" /\ q.of = Converted(j)
    BY DEF ToKernel
  <2> HIDE DEF q
  <2>2. Convert(q)
    BY <2>1 DEF CarryOut, q
  <2> QED
    BY <2>1, <2>2 DEF Convert
<1>3. Converted(j) \subseteq {"input", "other", "grad"}
  BY ConvertedOperands
<1>4. ASSUME NEW b \in Converted(j)
      PROVE  New(PromotedOf[b]) = memory[b].cells
  <2>1. \A c \in Converted(j) : PromotedOf[c] = PromotedOf[b] => c = b
    BY <1>3, ConvertedOperands
  <2>2. (CHOOSE c \in Converted(j) : PromotedOf[b] = PromotedOf[c]) = b
    BY <2>1
  <2> QED
    BY <2>2
<1>5. ASSUME NEW x, \A b \in Converted(j) : x # PromotedOf[b]
      PROVE  New(x) = memory[x].cells
  BY <1>5
<1>6. ASSUME NEW x \in Buffers
      PROVE  New(x) = [o \in DOMAIN New(x) |-> New(x)[o]]
  <2>1. CASE \E b \in Converted(j) : x = PromotedOf[b]
    <3>1. PICK b \in Converted(j) : x = PromotedOf[b]
      BY <2>1
    <3>2. b \in Buffers /\ New(x) = memory[b].cells
      BY <1>3, <1>4, <3>1, Names
    <3> HIDE DEF New
    <3> QED
      BY <1>1, <3>2 DEF Shaped
  <2>2. CASE \A b \in Converted(j) : x # PromotedOf[b]
    <3>1. New(x) = memory[x].cells
      BY <1>5, <2>2
    <3> HIDE DEF New
    <3> QED
      BY <1>1, <3>1 DEF Shaped
  <2> QED
    BY <2>1, <2>2
<1> HIDE DEF New
<1>7. /\ memory' = [x \in Buffers |-> memory'[x]]
      /\ \A x \in Buffers : memory'[x] = [dtype |-> TypeOf(j, x), cells |-> New(x)]
  <2>1. memory = [x \in Buffers |-> memory[x]]
    BY <1>1 DEF Shaped
  <2>2. memory' = [x \in Buffers |-> [memory[x] EXCEPT !.cells = New(x)]]
    BY <1>2, <2>1
  <2>3. ASSUME NEW x \in Buffers
        PROVE  memory'[x] = [dtype |-> TypeOf(j, x), cells |-> New(x)]
    <3>1. memory[x] = [dtype |-> TypeOf(j, x), cells |-> memory[x].cells]
      BY <1>1 DEF Shaped
    <3>2. memory'[x] = [memory[x] EXCEPT !.cells = New(x)]
      BY <2>2
    <3> QED
      BY <3>1, <3>2
  <2> QED
    BY <2>2, <2>3
<1>8. \A x \in Buffers : memory'[x].cells = New(x)
  BY <1>7
<1>9. Shaped(memory', j)
  BY <1>6, <1>7, <1>8 DEF Shaped
<1>10. ASSUME NEW x \in Operands \cup {"output", "output2"}
       PROVE  memory'[x] = Memory(j)[x]
  <2>1. x \in Buffers /\ \A b \in Converted(j) : x # PromotedOf[b]
    BY <1>3, ConvertedOperands DEF Buffers, Operands
  <2>2. New(x) = memory[x].cells
    BY <1>5, <2>1
  <2>3. memory[x] = [dtype |-> TypeOf(j, x), cells |-> memory[x].cells]
    BY <1>1, <2>1 DEF Shaped
  <2> QED
    BY <1>7, <2>1, <2>2, <2>3
<1>11. ASSUME NEW b \in Converted(j)
       PROVE  memory'[PromotedOf[b]].cells = Memory(j)[b].cells
  <2>1. PromotedOf[b] \in Buffers
    BY <1>3, ConvertedOperands, Names
  <2> QED
    BY <1>4, <1>8, <2>1
<1>12. ~AddsBias(j)
  BY ConvertedOperands DEF AddsBias, Promotes, Forwards
<1> QED
  BY <1>9, <1>10, <1>11, <1>12 DEF Prepared

(* ReduceRowsKernel is all of LinearBackwardBias.                            *)
LEMMA RowsAreReduced ==
    ASSUME NEW j, Called(j), j.op = "LinearBackwardBias", memory = Memory(j), CarryOut(ReduceKernel(j))
    PROVE  /\ Shaped(memory', j)
           /\ \A b \in Buffers \ {"output"} : memory'[b] = Memory(j)[b]
           /\ memory'["output"].cells = Expected(j)
<1> DEFINE S == 0 .. j.n - 1
           Cell(h) == UNION {GradOut(j, 0, i, h) : i \in 0 .. j.m - 1}
           cells == [o \in S |-> UNION {CellAt("grad", ComputeType(j), row * j.n + o) : row \in 0 .. j.m - 1}]
<1>1. j.m \in Nat /\ j.n \in Nat /\ j.bs = 1 /\ j.gradType = ComputeType(j)
  BY CalledFields DEF Linears
<1>2. Wrote("output", "kFLOAT32", cells)
  BY DEF CarryOut, ReduceRowsKernel, ReduceKernel
<1>3. TypeOf(j, "output") = "kFLOAT32"
  BY TypesOfBuffers, CalledFields DEF TypeOfOutput, Forwards, OutputType
<1>4. Shaped(memory, j)
  BY MemoryShaped
<1>5. DOMAIN memory["output"].cells = S
  <2>1. OutputSize(j) = j.n
    BY DEF OutputSize
  <2>2. Memory(j)["output"].cells = [o \in 0 .. OutputSize(j) - 1 |-> {{<<"output", o>>}}]
    BY StartCells, Names, SizesOfBuffers
  <2> QED
    BY ONLY <2>1, <2>2, memory = Memory(j)
<1>6. ASSUME NEW h \in S
      PROVE  cells[h] = Cell(h)
  <2>1. ASSUME NEW i \in 0 .. j.m - 1
        PROVE  CellAt("grad", ComputeType(j), i * j.n + h) = GradOut(j, 0, i, h)
    <3> DEFINE rows == j.m
               cols == j.n
               o == i * j.n + h
    <3>1. rows \in Nat /\ cols \in Nat /\ i \in 0 .. rows - 1 /\ h \in 0 .. cols - 1
      BY <1>1
    <3> HIDE DEF rows, cols
    <3>2. i * cols + h \in 0 .. rows * cols - 1 /\ (0 * rows + i) * cols + h = i * cols + h
      BY ONLY <3>1, TwoDigits
    <3>3. o \in 0 .. j.m * j.n - 1 /\ (0 * j.m + i) * j.n + h = o
      BY ONLY <3>2 DEF rows, cols
    <3>4. j.m * j.n = j.bs * j.m * j.n
      BY <1>1
    <3>5. /\ memory["grad"].cells = [x \in 0 .. j.m * j.n - 1 |-> {{<<"grad", x>>}}]
          /\ memory["grad"].dtype = ComputeType(j)
      <4>1. /\ Memory(j)["grad"].cells = [x \in 0 .. Size(j, "grad") - 1 |-> {{<<"grad", x>>}}]
            /\ Memory(j)["grad"].dtype = TypeOf(j, "grad")
        BY StartCells, Names
      <4>2. Size(j, "grad") = j.m * j.n
        BY <3>4, SizesOfBuffers
      <4>3. TypeOf(j, "grad") = ComputeType(j)
        BY <1>1, TypesOfBuffers
      <4> QED
        BY ONLY <4>1, <4>2, <4>3, memory = Memory(j)
    <3> HIDE DEF o
    <3>6. CellAt("grad", ComputeType(j), o) = {{<<"grad", o>>}}
      BY ONLY <3>3, <3>5 DEF CellAt
    <3>7. GradOut(j, 0, i, h) = {{<<"grad", o>>}}
      BY ONLY <3>3 DEF GradOut
    <3> QED
      BY ONLY <3>6, <3>7 DEF o
  <2>2. cells[h] = UNION {CellAt("grad", ComputeType(j), i * j.n + h) : i \in 0 .. j.m - 1}
    OBVIOUS
  <2>3. {CellAt("grad", ComputeType(j), i * j.n + h) : i \in 0 .. j.m - 1} = {GradOut(j, 0, i, h) : i \in 0 .. j.m - 1}
    BY ONLY <2>1
  <2> QED
    BY ONLY <2>2, <2>3
<1>7. DOMAIN cells = S
  OBVIOUS
<1>0. Expected(j) = [o \in 0 .. 1 * 1 * j.n - 1 |-> Cell(o % j.n)]
  BY DEF Expected, RowMajor, SumOver
<1> HIDE DEF cells, Cell
<1>8. /\ Shaped(memory', j)
      /\ \A b \in Buffers \ {"output"} : memory'[b] = memory[b]
      /\ DOMAIN memory'["output"].cells = DOMAIN cells \cup DOMAIN memory["output"].cells
      /\ \A o \in DOMAIN cells : memory'["output"].cells[o] = cells[o]
  BY <1>2, <1>3, <1>4, Writes, Names
<1>9. memory'["output"].cells = Expected(j)
  <2>1. memory'["output"].cells = [o \in DOMAIN memory'["output"].cells |-> memory'["output"].cells[o]]
    BY <1>8, Names DEF Shaped
  <2>2. \A o \in S : memory'["output"].cells[o] = Cell(o)
    BY ONLY <1>6, <1>7, <1>8
  <2>3. DOMAIN memory'["output"].cells = S
    BY ONLY <1>5, <1>7, <1>8
  <2>4. 0 .. 1 * 1 * j.n - 1 = S /\ \A o \in S : o % j.n = o
    BY <1>1
  <2>5. Expected(j) = [o \in S |-> Cell(o)]
    BY ONLY <1>0, <2>4
  <2> QED
    BY ONLY <2>1, <2>2, <2>3, <2>5
<1> QED
  BY ONLY <1>8, <1>9, memory = Memory(j)

(***************************************************************************)
(* The operations as wholes.                                               *)
(***************************************************************************)
LEMMA SingleFits ==
    ASSUME NEW j, Called(j), j.op \in Singles
    PROVE  Fits(j, ProductFor(j)) /\ Outside(ProductFor(j)) /\ ProductFor(j).C = "output"
<1>1. CASE j.op = "MatmulForward"
  BY <1>1, MatmulForwardFits DEF ProductFor
<1>2. CASE j.op = "MatmulBackwardInput"
  BY <1>2, MatmulBackwardInputFits DEF ProductFor
<1>3. CASE j.op = "MatmulBackwardOther"
  BY <1>3, MatmulBackwardOtherFits DEF ProductFor
<1>4. CASE j.op = "LinearForward"
  BY <1>4, LinearForwardFits DEF ProductFor
<1>5. CASE j.op = "LinearBackwardInput"
  BY <1>5, LinearBackwardInputFits DEF ProductFor
<1>6. CASE j.op = "LinearBackwardWeight"
  <2>1. ProductFor(j) = LinearBackwardWeightProduct(j)
    BY <1>6 DEF ProductFor
  <2>2. CASE j.transpose
    BY <1>6, <2>1, <2>2, LinearBackwardWeightTFits
  <2>3. CASE ~j.transpose
    BY <1>6, <2>1, <2>3, LinearBackwardWeightFits
  <2> QED
    BY <2>2, <2>3
<1>7. CASE j.op = "OuterForward"
  BY <1>7, OuterForwardFits DEF ProductFor
<1>8. CASE j.op = "Gemm"
  BY <1>8, DirectFits DEF ProductFor
<1> QED
  BY <1>1, <1>2, <1>3, <1>4, <1>5, <1>6, <1>7, <1>8 DEF Singles, Matmuls

(* A call of one product ends with its result.                               *)
LEMMA SingleRight ==
    ASSUME NEW j, Called(j), j.op \in Singles, NEW M0, NEW M, Prepared(j, M0), Done(j, ProductFor(j), M0, M)
    PROVE  /\ SameTypes(j) => M["output"].cells = Expected(j)
           /\ \A b \in Operands : M[b] = Memory(j)[b]
<1>1. ASSUME SameTypes(j)
      PROVE  M["output"].cells = Expected(j)
  <2>1. CASE j.op = "MatmulForward"
    BY <1>1, <2>1, MatmulForwardRight DEF ProductFor
  <2>2. CASE j.op = "MatmulBackwardInput"
    BY <1>1, <2>2, MatmulBackwardInputRight DEF ProductFor
  <2>3. CASE j.op = "MatmulBackwardOther"
    BY <1>1, <2>3, MatmulBackwardOtherRight DEF ProductFor
  <2>4. CASE j.op = "LinearForward"
    BY <1>1, <2>4, LinearForwardRight DEF ProductFor
  <2>5. CASE j.op = "LinearBackwardInput"
    BY <1>1, <2>5, LinearBackwardInputRight DEF ProductFor
  <2>6. CASE j.op = "LinearBackwardWeight"
    <3>1. ProductFor(j) = LinearBackwardWeightProduct(j)
      BY <2>6 DEF ProductFor
    <3>2. CASE j.transpose
      BY <1>1, <2>6, <3>1, <3>2, LinearBackwardWeightTRight
    <3>3. CASE ~j.transpose
      BY <1>1, <2>6, <3>1, <3>3, LinearBackwardWeightRight
    <3> QED
      BY <3>2, <3>3
  <2>7. CASE j.op = "OuterForward"
    <3>1. ProductFor(j) = OuterForwardProduct(j) /\ \A x \in Buffers \ Temporaries : M0[x] = M0[x]
      BY <2>7 DEF ProductFor
    <3> QED
      BY <1>1, <2>7, <3>1, OuterForwardRight
  <2>8. CASE j.op = "Gemm"
    BY <1>1, <2>8, DirectRight DEF ProductFor
  <2> QED
    BY <2>1, <2>2, <2>3, <2>4, <2>5, <2>6, <2>7, <2>8 DEF Singles, Matmuls
<1>2. \A x \in Buffers \ (Temporaries \cup {"output"}) : M[x] = M0[x]
  BY SingleFits DEF Done, Multiplied, Rewritten
<1> QED
  BY <1>1, <1>2 DEF Prepared, Buffers, Operands, Temporaries

(* Both products of OuterBackward have room.                                 *)
LEMMA OuterFits ==
    ASSUME NEW j, Called(j), j.op = "OuterBackward"
    PROVE  /\ Fits(j, OuterProduct1(j)) /\ Outside(OuterProduct1(j)) /\ OuterProduct1(j).C = "output"
           /\ Fits(j, OuterProduct2(j)) /\ Outside(OuterProduct2(j)) /\ OuterProduct2(j).C = "output2"
<1>1. CASE ComputeType(j) = "kFLOAT32"
  BY <1>1, OuterVector1Fits, OuterVector2Fits
<1>2. CASE ComputeType(j) # "kFLOAT32"
  BY <1>2, OuterMatrix1Fits, OuterMatrix2Fits
<1> QED
  BY <1>1, <1>2

(* Both gradients of OuterBackward are right, one after the other.           *)
LEMMA OuterRight ==
    ASSUME NEW j, Called(j), j.op = "OuterBackward", NEW M0, NEW M1, NEW M, Prepared(j, M0),
           Done(j, OuterProduct1(j), M0, M1), Done(j, OuterProduct2(j), M1, M)
    PROVE  /\ M["output"].cells = Expected(j) /\ M["output2"].cells = Expected2(j)
           /\ \A b \in Operands : M[b] = Memory(j)[b]
<1>1. \A x \in Buffers \ (Temporaries \cup {"output"}) : M1[x] = M0[x]
  BY OuterFits DEF Done, Multiplied, Rewritten
<1>2. \A x \in Buffers \ (Temporaries \cup {"output2"}) : M[x] = M1[x]
  BY OuterFits DEF Done, Multiplied, Rewritten
<1>3. \A x \in Buffers \ Temporaries : M0[x] = M0[x]
  OBVIOUS
<1>4. M1["output"].cells = Expected(j)
  <2>1. CASE ComputeType(j) = "kFLOAT32"
    BY <1>3, <2>1, OuterVector1Right
  <2>2. CASE ComputeType(j) # "kFLOAT32"
    BY <1>3, <2>2, OuterMatrix1Right
  <2> QED
    BY <2>1, <2>2
<1>5. M["output2"].cells = Expected2(j)
  <2>1. CASE ComputeType(j) = "kFLOAT32"
    BY <1>1, <2>1, OuterVector2Right
  <2>2. CASE ComputeType(j) # "kFLOAT32"
    BY <1>1, <2>2, OuterMatrix2Right
  <2> QED
    BY <2>1, <2>2
<1>6. M["output"] = M1["output"]
  BY <1>2, Names DEF Temporaries
<1>7. \A b \in Operands : M[b] = M0[b]
  BY ONLY <1>1, <1>2 DEF Operands, Buffers, Temporaries
<1> QED
  BY <1>4, <1>5, <1>6, <1>7 DEF Prepared

-----------------------------------------------------------------------------
(* The kernels of an operation: what comes first, and those of its product.  *)
Prelude(j) == IF Promotes(j) THEN <<ToKernel(j)>> ELSE IF AddsBias(j) THEN <<BiasKernel(j)>> ELSE <<>>

GemmKernels(p) == {<<p>>} \cup {q \in {GemmFp64Accum(p)} : p.out = "kFLOAT32"}

(* Gemm submits the kernels of one path or of the other.                     *)
LEMMA GemmSubmits ==
    ASSUME NEW p
    PROVE  Gemm(p) \in GemmKernels(p) /\ (p.in # "kFLOAT32" => Gemm(p) = <<p>>)
BY DEF GemmKernels, Gemm, InFp64

(* The kernels of a product are a sequence.                                  *)
LEMMA GemmIsSeq ==
    ASSUME NEW p, NEW q \in GemmKernels(p)
    PROVE  \E S : q \in Seq(S)
<1> DEFINE S == {p, Scaled(p), PackedA(p), PackedB(p), PackedC(p), InDouble(p), Unpacked(p)}
<1>1. \A a, b, c, d, e \in S : <<a>> \in Seq(S) /\ <<a, b, c, d>> \in Seq(S) /\ <<a, b, c, d, e>> \in Seq(S)
  OBVIOUS
<1>2. <<>> \in Seq(S)
  OBVIOUS
<1>3. /\ p \in S /\ Scaled(p) \in S /\ PackedA(p) \in S /\ PackedB(p) \in S /\ PackedC(p) \in S
      /\ InDouble(p) \in S /\ Unpacked(p) \in S
  OBVIOUS
<1> HIDE DEF S
<1>4. GemmFp64Accum(p) \in Seq(S)
  BY ONLY <1>1, <1>2, <1>3 DEF GemmFp64Accum
<1>5. <<p>> \in Seq(S)
  BY ONLY <1>1, <1>3
<1> QED
  BY ONLY <1>4, <1>5, q \in GemmKernels(p) DEF GemmKernels

(* No kernel put before others leaves them as they are.                      *)
LEMMA EmptyFirst ==
    ASSUME NEW S, NEW q \in Seq(S)
    PROVE  <<>> \o q = q
BY ConcatEmptySeq

(* A kernel before others is carried out first, and they remain.             *)
LEMMA OneFirst ==
    ASSUME NEW x, NEW S, NEW q \in Seq(S)
    PROVE  <<x>> \o q # <<>> /\ Head(<<x>> \o q) = x /\ Tail(<<x>> \o q) = q
<1> DEFINE T == S \cup {x}
           r == <<x>> \o q
<1>1. q \in Seq(T) /\ <<x>> \in Seq(T) /\ Len(q) \in Nat /\ Len(<<x>>) = 1 /\ <<x>>[1] = x
  OBVIOUS
<1>2. /\ r \in Seq(T) /\ Len(r) = 1 + Len(q)
      /\ \A i \in 1 .. 1 + Len(q) : r[i] = IF i <= 1 THEN <<x>>[i] ELSE q[i - 1]
  BY <1>1, ConcatProperties
<1> HIDE DEF T, r
<1>3. r # <<>> /\ Head(r) = x
  BY <1>1, <1>2
<1>4. /\ Tail(r) \in Seq(T) /\ Len(Tail(r)) = Len(q)
      /\ \A i \in 1 .. Len(q) : Tail(r)[i] = r[i + 1]
  BY ONLY <1>1, <1>2, <1>3, HeadTailProperties
<1>5. \A i \in 1 .. Len(q) : r[i + 1] = q[i]
  BY ONLY <1>1, <1>2
<1>6. Tail(r) = q
  BY ONLY <1>1, <1>4, <1>5, SeqEqual
<1> QED
  BY <1>3, <1>6 DEF r

(* The kernels of a call of one product: preparation, then Gemm.             *)
LEMMA SingleKernels ==
    ASSUME NEW j, Called(j), j.op \in Singles
    PROVE  Kernels(j) = (IF Prelude(j) = <<>> THEN Gemm(ProductFor(j)) ELSE Prelude(j) \o Gemm(ProductFor(j)))
<1>1. <<>> \o Gemm(ProductFor(j)) = Gemm(ProductFor(j))
  <2>1. PICK S : Gemm(ProductFor(j)) \in Seq(S)
    BY GemmSubmits, GemmIsSeq
  <2> QED
    BY <2>1, EmptyFirst
<1> SUFFICES \/ Kernels(j) = Prelude(j) \o Gemm(ProductFor(j))
             \/ Prelude(j) = <<>> /\ Kernels(j) = Gemm(ProductFor(j))
  BY <1>1
<1>2. CASE j.op \in {"MatmulForward", "OuterForward", "Gemm"}
  <2>1. Prelude(j) = <<>>
    BY <1>2, ConvertedOperands DEF Prelude, Promotes, AddsBias, Forwards
  <2>2. Kernels(j) = Gemm(ProductFor(j))
    <3>1. CASE j.op = "MatmulForward"
      BY <3>1 DEF Kernels, ProductFor, MatmulForward, MatmulForwardProduct
    <3>2. CASE j.op = "OuterForward"
      BY <3>2 DEF Kernels, ProductFor, OuterForward, OuterForwardProduct
    <3>3. CASE j.op = "Gemm"
      BY <3>3 DEF Kernels, ProductFor, DirectGemm, DirectProduct
    <3> QED
      BY <1>2, <3>1, <3>2, <3>3
  <2> QED
    BY <2>1, <2>2
<1>3. CASE j.op = "LinearForward"
  <2>1. Prelude(j) = IF j.bias THEN <<BiasKernel(j)>> ELSE <<>>
    BY <1>3, ConvertedOperands DEF Prelude, Promotes, AddsBias, Forwards
  <2>2. Kernels(j) = (IF j.bias THEN <<BiasKernel(j)>> ELSE <<>>) \o Gemm(ProductFor(j))
    BY <1>3 DEF Kernels, ProductFor, LinearForward, LinearForwardProduct, BiasKernel
  <2> QED
    BY <2>1, <2>2
<1>4. CASE j.op \in {"MatmulBackwardInput", "MatmulBackwardOther", "LinearBackwardInput", "LinearBackwardWeight"}
  <2>1. Prelude(j) = Promote(j)
    BY <1>4 DEF Prelude, Promote, Promotes, AddsBias, ToKernel
  <2>2. Kernels(j) = Promote(j) \o Gemm(ProductFor(j))
    <3>1. CASE j.op = "MatmulBackwardInput"
      BY <3>1 DEF Kernels, ProductFor, MatmulBackwardInput, MatmulBackwardInputProduct
    <3>2. CASE j.op = "MatmulBackwardOther"
      BY <3>2 DEF Kernels, ProductFor, MatmulBackwardOther, MatmulBackwardOtherProduct
    <3>3. CASE j.op = "LinearBackwardInput"
      BY <3>3 DEF Kernels, ProductFor, LinearBackwardInput, LinearBackwardInputProduct
    <3>4. CASE j.op = "LinearBackwardWeight"
      <4>1. j.transpose \in BOOLEAN
        BY CalledFields
      <4>2. Kernels(j) = LinearBackwardWeight(j) /\ ProductFor(j) = LinearBackwardWeightProduct(j)
        BY <3>4 DEF Kernels, ProductFor
      <4>3. LinearBackwardWeight(j) = Promote(j) \o Gemm(LinearBackwardWeightProduct(j))
        <5>1. CASE j.transpose
          BY <5>1 DEF LinearBackwardWeight, LinearBackwardWeightProduct
        <5>2. CASE ~j.transpose
          BY <5>2 DEF LinearBackwardWeight, LinearBackwardWeightProduct
        <5> QED
          BY <4>1, <5>1, <5>2
      <4> QED
        BY ONLY <4>2, <4>3
    <3> QED
      BY <1>4, <3>1, <3>2, <3>3, <3>4
  <2> QED
    BY <2>1, <2>2
<1> QED
  BY <1>2, <1>3, <1>4 DEF Singles, Matmuls

(* The same of two kernels: OuterBackward without a conversion.              *)
LEMMA NoneFirst ==
    \A b, c : <<>> \o <<b, c>> = <<b, c>>
<1> SUFFICES ASSUME NEW b, NEW c
             PROVE  <<>> \o <<b, c>> = <<b, c>>
  OBVIOUS
<1>1. <<b, c>> \in Seq({b, c})
  OBVIOUS
<1> QED
  BY <1>1, EmptyFirst

(* One kernel put before two others: OuterBackward with a conversion.        *)
LEMMA OneThenTwo ==
    \A a, b, c : <<a>> \o <<b, c>> = <<a, b, c>>
<1> SUFFICES ASSUME NEW a, NEW b, NEW c
             PROVE  <<a>> \o <<b, c>> = <<a, b, c>>
  OBVIOUS
<1> DEFINE S == {a, b, c}
           r == <<a>> \o <<b, c>>
           t == <<a, b, c>>
<1>1. <<a>> \in Seq(S) /\ <<b, c>> \in Seq(S) /\ t \in Seq(S) /\ Len(<<a>>) = 1 /\ Len(<<b, c>>) = 2
  OBVIOUS
<1> HIDE DEF S
<1>2. /\ r \in Seq(S) /\ Len(r) = 1 + 2
      /\ \A i \in 1 .. 1 + 2 : r[i] = IF i <= 1 THEN <<a>>[i] ELSE <<b, c>>[i - 1]
  BY <1>1, ConcatProperties
<1>3. \A i \in 1 .. 3 : r[i] = t[i]
  BY <1>2
<1>4. Len(r) = Len(t) /\ \A i \in 1 .. Len(r) : r[i] = t[i]
  BY <1>2, <1>3
<1> HIDE DEF r, t
<1>5. r = t
  BY ONLY <1>1, <1>2, <1>4, SeqEqual
<1> QED
  BY <1>5 DEF r, t

(* One kernel put before another: both products of OuterBackward.            *)
LEMMA OneThenOne ==
    \A a, b : <<a>> \o <<b>> = <<a, b>>
<1> SUFFICES ASSUME NEW a, NEW b
             PROVE  <<a>> \o <<b>> = <<a, b>>
  OBVIOUS
<1> DEFINE S == {a, b}
           r == <<a>> \o <<b>>
           t == <<a, b>>
<1>1. <<a>> \in Seq(S) /\ <<b>> \in Seq(S) /\ t \in Seq(S) /\ Len(<<a>>) = 1 /\ Len(<<b>>) = 1
  OBVIOUS
<1> HIDE DEF S
<1>2. /\ r \in Seq(S) /\ Len(r) = 1 + 1
      /\ \A i \in 1 .. 1 + 1 : r[i] = IF i <= 1 THEN <<a>>[i] ELSE <<b>>[i - 1]
  BY <1>1, ConcatProperties
<1>3. \A i \in 1 .. 2 : r[i] = t[i]
  BY <1>2
<1>4. Len(r) = Len(t) /\ \A i \in 1 .. Len(r) : r[i] = t[i]
  BY <1>2, <1>3
<1> HIDE DEF r, t
<1>5. r = t
  BY ONLY <1>1, <1>2, <1>4, SeqEqual
<1> QED
  BY <1>5 DEF r, t

(* The kernels of OuterBackward: preparation, then both products.            *)
LEMMA OuterKernels ==
    ASSUME NEW j, Called(j), j.op = "OuterBackward"
    PROVE  Kernels(j) = (IF Promotes(j) THEN <<ToKernel(j), OuterProduct1(j), OuterProduct2(j)>>
                         ELSE <<OuterProduct1(j), OuterProduct2(j)>>)
<1> DEFINE P1 == OuterProduct1(j)
           P2 == OuterProduct2(j)
<1>1. Kernels(j) = Promote(j) \o <<P1, P2>>
  <2>1. Kernels(j) = OuterBackward(j)
    BY DEF Kernels
  <2>2. CASE ComputeType(j) = "kFLOAT32"
    BY <2>1, <2>2 DEF OuterBackward, OuterProduct1, OuterProduct2
  <2>3. CASE ComputeType(j) # "kFLOAT32"
    <3>1. P1.in # "kFLOAT32" /\ P2.in # "kFLOAT32"
      <4>1. P1.in = ComputeType(j)
        BY <2>3, OuterMatrix1Fits
      <4>2. P2.in = ComputeType(j)
        BY <2>3, OuterMatrix2Fits
      <4> QED
        BY <2>3, <4>1, <4>2
    <3>2. Gemm(P1) = <<P1>> /\ Gemm(P2) = <<P2>>
      BY <3>1, GemmSubmits
    <3>3. OuterBackward(j) = Promote(j) \o (Gemm(P1) \o Gemm(P2))
      BY <2>3 DEF OuterBackward, OuterProduct1, OuterProduct2
    <3>4. <<P1>> \o <<P2>> = <<P1, P2>>
      BY OneThenOne
    <3> QED
      BY ONLY <2>1, <3>2, <3>3, <3>4
  <2> QED
    BY <2>2, <2>3
<1>2. Promote(j) = IF Promotes(j) THEN <<ToKernel(j)>> ELSE <<>>
  BY DEF Promote, Promotes, ToKernel
<1> HIDE DEF P1, P2
<1>3. <<>> \o <<P1, P2>> = <<P1, P2>> /\ <<ToKernel(j)>> \o <<P1, P2>> = <<ToKernel(j), P1, P2>>
  BY OneThenTwo, NoneFirst
<1> QED
  BY ONLY <1>1, <1>2, <1>3 DEF P1, P2

-----------------------------------------------------------------------------
(* What is left of a call j and what its memory holds by then.               *)
SingleGoes(j, q, M) ==
    \/ Prelude(j) # <<>> /\ M = Memory(j) /\ \E r \in GemmKernels(ProductFor(j)) : q = Prelude(j) \o r
    \/ \E M0 : Prepared(j, M0) /\ Toward(j, ProductFor(j), M0, q, M)
OuterGoes(j, q, M) ==
    \/ Promotes(j) /\ M = Memory(j) /\ q = <<ToKernel(j), OuterProduct1(j), OuterProduct2(j)>>
    \/ Prepared(j, M) /\ q = <<OuterProduct1(j), OuterProduct2(j)>>
    \/ \E M0 : Prepared(j, M0) /\ Done(j, OuterProduct1(j), M0, M) /\ q = <<OuterProduct2(j)>>
    \/ \E M0, M1 : /\ Prepared(j, M0) /\ Done(j, OuterProduct1(j), M0, M1) /\ Done(j, OuterProduct2(j), M1, M)
                   /\ q = <<>>
BiasGoes(j, q, M) ==
    \/ M = Memory(j) /\ q = <<ReduceKernel(j)>>
    \/ q = <<>> /\ M["output"].cells = Expected(j) /\ \A b \in Buffers \ {"output"} : M[b] = Memory(j)[b]

Goes(j, q, M) ==
    /\ j.op \in Singles => SingleGoes(j, q, M)
    /\ j.op = "OuterBackward" => OuterGoes(j, q, M)
    /\ j.op = "LinearBackwardBias" => BiasGoes(j, q, M)

(* What is prepared stays so while the kernels leave the operands.           *)
LEMMA SamePrepared ==
    ASSUME NEW j, NEW M, Prepared(j, M)
    PROVE  Same(j, M, M)
BY DEF Prepared, Same

(* A call that begins has all of its kernels left.                           *)
LEMMA CallBegins ==
    ASSUME NEW j, Called(j)
    PROVE  Goes(j, Kernels(j), Memory(j))
<1>1. ASSUME j.op \in Singles
      PROVE  SingleGoes(j, Kernels(j), Memory(j))
  <2>1. Kernels(j) = (IF Prelude(j) = <<>> THEN Gemm(ProductFor(j)) ELSE Prelude(j) \o Gemm(ProductFor(j)))
    BY <1>1, SingleKernels
  <2>2. Gemm(ProductFor(j)) \in GemmKernels(ProductFor(j))
    BY GemmSubmits
  <2>3. CASE Prelude(j) # <<>>
    BY ONLY <2>1, <2>2, <2>3 DEF SingleGoes
  <2>4. CASE Prelude(j) = <<>>
    <3>1. Prepared(j, Memory(j))
      BY <2>4, StartsPrepared DEF Prelude
    <3>2. Toward(j, ProductFor(j), Memory(j), Gemm(ProductFor(j)), Memory(j))
      BY <1>1, <2>2, <3>1, SingleFits, SamePrepared, ProductStarts DEF GemmKernels
    <3> QED
      BY ONLY <2>1, <2>4, <3>1, <3>2 DEF SingleGoes
  <2> QED
    BY <2>3, <2>4
<1>2. ASSUME j.op = "OuterBackward"
      PROVE  OuterGoes(j, Kernels(j), Memory(j))
  <2>1. CASE Promotes(j)
    BY <1>2, <2>1, OuterKernels DEF OuterGoes
  <2>2. CASE ~Promotes(j)
    <3>1. Prepared(j, Memory(j))
      BY <1>2, <2>2, StartsPrepared DEF AddsBias
    <3> QED
      BY <1>2, <2>2, <3>1, OuterKernels DEF OuterGoes
  <2> QED
    BY <2>1, <2>2
<1>3. ASSUME j.op = "LinearBackwardBias"
      PROVE  BiasGoes(j, Kernels(j), Memory(j))
  BY <1>3 DEF BiasGoes, Kernels, LinearBackwardBias, ReduceKernel
<1> QED
  BY <1>1, <1>2, <1>3 DEF Goes

(* A kernel of a call of one product keeps it on its way.                    *)
LEMMA SingleGoesOn ==
    ASSUME NEW j, Called(j), j.op \in Singles, SingleGoes(j, queue, memory),
           queue # <<>>, CarryOut(Head(queue)), queue' = Tail(queue)
    PROVE  SingleGoes(j, queue', memory')
<1>1. Fits(j, ProductFor(j)) /\ Outside(ProductFor(j))
  BY SingleFits
<1>2. CASE Prelude(j) # <<>> /\ memory = Memory(j) /\ \E r \in GemmKernels(ProductFor(j)) : queue = Prelude(j) \o r
  <2>1. PICK r \in GemmKernels(ProductFor(j)) : queue = Prelude(j) \o r
    BY <1>2
  <2>2. PICK S : r \in Seq(S)
    BY GemmIsSeq
  <2>3. Prepared(j, memory') /\ queue' = r
    <3>1. CASE Promotes(j)
      <4>1. queue = <<ToKernel(j)>> \o r
        BY <2>1, <3>1 DEF Prelude
      <4>2. Head(queue) = ToKernel(j) /\ Tail(queue) = r
        BY ONLY <2>2, <4>1, OneFirst
      <4> QED
        BY <1>2, <3>1, <4>2, OperandsAreConverted
    <3>2. CASE ~Promotes(j)
      <4>1. AddsBias(j) /\ queue = <<BiasKernel(j)>> \o r
        BY <1>2, <2>1, <3>2 DEF Prelude
      <4>2. Head(queue) = BiasKernel(j) /\ Tail(queue) = r
        BY ONLY <2>2, <4>1, OneFirst
      <4> QED
        BY <1>2, <4>1, <4>2, BiasIsCopied
    <3> QED
      BY <3>1, <3>2
  <2>4. Toward(j, ProductFor(j), memory', r, memory')
    BY <1>1, <2>3, SamePrepared, ProductStarts DEF GemmKernels
  <2> QED
    BY ONLY <2>3, <2>4 DEF SingleGoes
<1>3. CASE \E M0 : Prepared(j, M0) /\ Toward(j, ProductFor(j), M0, queue, memory)
  <2>1. PICK M0 : Prepared(j, M0) /\ Toward(j, ProductFor(j), M0, queue, memory)
    BY <1>3
  <2>2. Toward(j, ProductFor(j), M0, queue', memory')
    BY <1>1, <2>1, ProductGoesOn
  <2> QED
    BY ONLY <2>1, <2>2 DEF SingleGoes
<1> QED
  BY <1>2, <1>3 DEF SingleGoes

(* A kernel of OuterBackward keeps it on its way.                            *)
LEMMA OuterGoesOn ==
    ASSUME NEW j, Called(j), j.op = "OuterBackward", OuterGoes(j, queue, memory),
           queue # <<>>, CarryOut(Head(queue)), queue' = Tail(queue)
    PROVE  OuterGoes(j, queue', memory')
<1> DEFINE P1 == OuterProduct1(j)
           P2 == OuterProduct2(j)
<1>1. Fits(j, P1) /\ Outside(P1) /\ Fits(j, P2) /\ Outside(P2)
  BY OuterFits
<1> HIDE DEF P1, P2
<1>2. CASE Promotes(j) /\ memory = Memory(j) /\ queue = <<ToKernel(j), P1, P2>>
  <2>1. Head(queue) = ToKernel(j) /\ queue' = <<P1, P2>>
    BY <1>2
  <2>2. Prepared(j, memory')
    BY <1>2, <2>1, OperandsAreConverted
  <2> QED
    BY ONLY <2>1, <2>2 DEF OuterGoes, P1, P2
<1>3. CASE Prepared(j, memory) /\ queue = <<P1, P2>>
  <2>1. Head(queue) = P1 /\ queue' = <<P2>>
    BY <1>3
  <2>2. Done(j, P1, memory, memory')
    BY <1>1, <1>3, <2>1, SamePrepared, Multiplies
  <2> QED
    BY ONLY <1>3, <2>1, <2>2 DEF OuterGoes, P1, P2
<1>4. CASE \E M0 : Prepared(j, M0) /\ Done(j, P1, M0, memory) /\ queue = <<P2>>
  <2>1. PICK M0 : Prepared(j, M0) /\ Done(j, P1, M0, memory) /\ queue = <<P2>>
    BY <1>4
  <2>2. Head(queue) = P2 /\ queue' = <<>>
    BY <2>1
  <2>3. Same(j, memory, memory)
    BY <2>1 DEF Done, Multiplied, Rewritten, Same
  <2>4. Done(j, P2, memory, memory')
    BY <1>1, <2>2, <2>3, Multiplies
  <2> QED
    BY ONLY <2>1, <2>2, <2>4 DEF OuterGoes, P1, P2
<1> QED
  BY <1>2, <1>3, <1>4 DEF OuterGoes, P1, P2

(* A kernel of any call keeps it on its way.                                 *)
LEMMA CallGoesOn ==
    ASSUME NEW j, Called(j), Goes(j, queue, memory), queue # <<>>, CarryOut(Head(queue)), queue' = Tail(queue)
    PROVE  Goes(j, queue', memory')
<1>1. j.op = "LinearBackwardBias" => BiasGoes(j, queue', memory')
  <2> SUFFICES ASSUME j.op = "LinearBackwardBias"
               PROVE  BiasGoes(j, queue', memory')
    OBVIOUS
  <2>1. memory = Memory(j) /\ queue = <<ReduceKernel(j)>>
    BY DEF Goes, BiasGoes
  <2>2. Head(queue) = ReduceKernel(j) /\ queue' = <<>>
    BY <2>1
  <2> QED
    BY <2>1, <2>2, RowsAreReduced DEF BiasGoes
<1> QED
  BY <1>1, SingleGoesOn, OuterGoesOn DEF Goes

(* What a call is to leave, once its kernels were carried out.               *)
Result(j, M) ==
    /\ SameTypes(j) => M["output"].cells = Expected(j)
    /\ j.op = "OuterBackward" => M["output2"].cells = Expected2(j)
    /\ \A b \in Operands : M[b] = Memory(j)[b]

(* With no kernel left, the results of the call are right.                   *)
LEMMA CallEnds ==
    ASSUME NEW j, Called(j), NEW M, Goes(j, <<>>, M)
    PROVE  Result(j, M)
<1>1. CASE j.op \in Singles
  <2>0. Fits(j, ProductFor(j)) /\ Outside(ProductFor(j)) /\ j.op # "OuterBackward"
    BY <1>1, SingleFits DEF Singles, Matmuls
  <2>1. SingleGoes(j, <<>>, M)
    BY <1>1 DEF Goes
  <2>2. \E M0 : Prepared(j, M0) /\ Toward(j, ProductFor(j), M0, <<>>, M)
    <3>1. ASSUME Prelude(j) # <<>>, NEW r \in GemmKernels(ProductFor(j)), <<>> = Prelude(j) \o r
          PROVE  FALSE
      <4>1. PICK S : r \in Seq(S)
        BY GemmIsSeq
      <4>2. \A x : <<x>> \o r # <<>>
        BY <4>1, OneFirst
      <4> QED
        BY <3>1, <4>2 DEF Prelude
    <3> QED
      BY <2>1, <3>1 DEF SingleGoes
  <2>3. PICK M0 : Prepared(j, M0) /\ Toward(j, ProductFor(j), M0, <<>>, M)
    BY <2>2
  <2>4. Done(j, ProductFor(j), M0, M)
    BY ONLY <2>3 DEF Toward
  <2> QED
    BY <1>1, <2>0, <2>3, <2>4, SingleRight DEF Result
<1>2. CASE j.op = "OuterBackward"
  <2>1. PICK M0, M1 : Prepared(j, M0) /\ Done(j, OuterProduct1(j), M0, M1) /\ Done(j, OuterProduct2(j), M1, M)
    BY <1>2 DEF Goes, OuterGoes
  <2> QED
    BY <1>2, <2>1, OuterRight DEF Result
<1>3. CASE j.op = "LinearBackwardBias"
  BY <1>3 DEF Goes, BiasGoes, Result, Buffers, Operands
<1> QED
  BY <1>1, <1>2, <1>3, CalledFields DEF Singles, Matmuls, Linears, Outers

-----------------------------------------------------------------------------
(* The inductive invariant: a call has its kernels left for what its memory  *)
(* holds, and the switch decides for every product once it was read.         *)
GoesRight ==
    /\ job = NoJob => queue = <<>>
    /\ job # NoJob => Called(job) /\ Goes(job, queue, memory)
ReadOnce ==
    \A a \in modes : IF a.by = "Gemm" THEN enabled # "unread" /\ a.fp64 = (enabled = "yes") ELSE a.fp64 = FALSE

(* The variables of the products keep their types: the switch is unread or   *)
(* decided, and the bounds hold.                                             *)
THEOREM GemmTypes == GemmSpec => []GemmTypeOK
<1>1. GemmInit => GemmTypeOK
  BY GemmAssumption DEF GemmInit, GemmTypeOK
<1>2. GemmTypeOK /\ [GemmNext]_gemmVars => GemmTypeOK'
  <2> SUFFICES ASSUME GemmTypeOK, [GemmNext]_gemmVars
               PROVE  GemmTypeOK'
    OBVIOUS
  <2> USE GemmAssumption DEF GemmTypeOK
  <2>1. CASE UNCHANGED gemmVars
    BY <2>1 DEF gemmVars
  <2>2. ASSUME NEW v \in Values, SetEnv(v)
        PROVE  GemmTypeOK'
    BY <2>2 DEF SetEnv
  <2>3. ASSUME NEW j \in Jobs, Call(j)
        PROVE  GemmTypeOK'
    <3>1. Fp64AccumEnabled \in BOOLEAN
      BY Zenon DEF Fp64AccumEnabled
    <3>2. modes' \subseteq [by : {"Gemm", "Sgemv"}, fp64 : BOOLEAN]
      <4>1. Accumulated(j) \subseteq [by : {"Gemm", "Sgemv"}, fp64 : BOOLEAN]
        <5>1. \A x \in BOOLEAN : /\ [by |-> "Gemm", fp64 |-> x] \in [by : {"Gemm", "Sgemv"}, fp64 : BOOLEAN]
                                 /\ [by |-> "Sgemv", fp64 |-> x] \in [by : {"Gemm", "Sgemv"}, fp64 : BOOLEAN]
          OBVIOUS
        <5> QED
          BY <3>1, <5>1, Zenon DEF Accumulated
      <4> QED
        BY <2>3, <4>1 DEF Call
    <3>3. enabled' \in {"unread", "yes", "no"}
      BY <2>3, Zenon DEF Call
    <3>4. env' \in Values /\ job' \in Jobs \cup {NoJob} /\ calls' \in 0 .. MaxCalls /\ changes' \in 0 .. MaxChanges
      BY <2>3 DEF Call
    <3> QED
      BY <3>2, <3>3, <3>4
  <2>4. ASSUME NEW j \in Jobs, CallRefused(j)
        PROVE  GemmTypeOK'
    BY <2>4 DEF CallRefused
  <2>5. CASE Step
    BY <2>5 DEF Step
  <2>6. CASE Release
    BY <2>6 DEF Release
  <2> QED
    BY <2>1, <2>2, <2>3, <2>4, <2>5, <2>6 DEF GemmNext
<1> QED
  BY <1>1, <1>2, PTL DEF GemmSpec

(* The inductive invariant: each call has left the kernels it still needs.   *)
LEMMA GoesRightAlways == GemmSpec => []GoesRight
<1>1. GemmInit => GoesRight
  BY DEF GemmInit, GoesRight
<1>2. GoesRight /\ [GemmNext]_gemmVars => GoesRight'
  <2> SUFFICES ASSUME GoesRight, [GemmNext]_gemmVars
               PROVE  GoesRight'
    OBVIOUS
  <2>1. CASE UNCHANGED gemmVars
    BY <2>1 DEF gemmVars, GoesRight
  <2>2. ASSUME NEW v \in Values, SetEnv(v)
        PROVE  GoesRight'
    BY <2>2 DEF SetEnv, GoesRight
  <2>3. ASSUME NEW j \in Jobs, Call(j)
        PROVE  GoesRight'
    <3>1. Called(j)
      BY <2>3 DEF Call, Called, HasMacaDataType
    <3>2. j # NoJob
      BY <3>1, CalledFields DEF NoJob, Matmuls, Linears, Outers
    <3>3. job' = j /\ queue' = Kernels(j) /\ memory' = Memory(j)
      BY <2>3 DEF Call
    <3>4. Goes(j, Kernels(j), Memory(j))
      BY <3>1, CallBegins
    <3>5. Goes(job', queue', memory')
      BY ONLY <3>3, <3>4
    <3> QED
      BY ONLY <3>1, <3>2, <3>3, <3>5 DEF GoesRight
  <2>4. ASSUME NEW j \in Jobs, CallRefused(j)
        PROVE  GoesRight'
    BY <2>4 DEF CallRefused, GoesRight
  <2>5. CASE Step
    <3>1. queue # <<>> /\ CarryOut(Head(queue)) /\ queue' = Tail(queue) /\ job' = job
      BY <2>5 DEF Step
    <3>2. job # NoJob /\ Called(job) /\ Goes(job, queue, memory)
      BY <3>1 DEF GoesRight
    <3>3. Goes(job, queue', memory')
      BY ONLY <3>1, <3>2, CallGoesOn
    <3> QED
      BY ONLY <3>1, <3>2, <3>3 DEF GoesRight
  <2>6. CASE Release
    BY <2>6 DEF Release, GoesRight
  <2> QED
    BY <2>1, <2>2, <2>3, <2>4, <2>5, <2>6 DEF GemmNext
<1> QED
  BY <1>1, <1>2, PTL DEF GemmSpec

(* Once the stream has carried out a call, whatever its sizes, strides and    *)
(* path: the gradients are the products that the operation stands for, from  *)
(* operands of any types; those of a forward operation are, when its         *)
(* operands are of one type; and no operand was written.                     *)
THEOREM ResultsAreProducts == GemmSpec => []ResultIsProduct
<1>1. GemmTypeOK /\ GoesRight => ResultIsProduct
  <2> SUFFICES ASSUME GemmTypeOK, GoesRight, job # NoJob, queue = <<>>
               PROVE  Result(job, memory)
    BY DEF ResultIsProduct, Result
  <2>1. Called(job) /\ Goes(job, <<>>, memory)
    BY DEF GoesRight
  <2> QED
    BY <2>1, CallEnds
<1> QED
  BY <1>1, GemmTypes, GoesRightAlways, PTL

(* The FP32 products that a process asks of Gemm are accumulated alike,      *)
(* however its environment changes, and so are those of mcblasSgemv.         *)
THEOREM PrecisionIsKept == GemmSpec => []PrecisionKept
<1>1. GemmInit => ReadOnce
  BY DEF GemmInit, ReadOnce
<1>2. ReadOnce /\ [GemmNext]_gemmVars => ReadOnce'
  <2> SUFFICES ASSUME ReadOnce, [GemmNext]_gemmVars
               PROVE  ReadOnce'
    OBVIOUS
  <2>1. ASSUME NEW j \in Jobs, Call(j)
        PROVE  ReadOnce'
    <3> DEFINE on == Fp64AccumEnabled
    <3>1. /\ enabled' = IF ~UsesGemm(j) THEN enabled ELSE IF on THEN "yes" ELSE "no"
          /\ modes' = modes \cup Accumulated(j)
      BY <2>1 DEF Call
    <3>2. on \in BOOLEAN /\ (enabled # "unread" => on = (enabled = "yes"))
      BY Zenon DEF Fp64AccumEnabled
    <3>3. \A a \in Accumulated(j) : IF a.by = "Gemm" THEN UsesGemm(j) /\ a.fp64 = on ELSE a.fp64 = FALSE
      BY DEF Accumulated
    <3> HIDE DEF on
    <3>4. UsesGemm(j) => enabled' # "unread" /\ on = (enabled' = "yes")
      BY <3>1, <3>2
    <3>5. ~UsesGemm(j) => enabled' = enabled
      BY <3>1
    <3>6. enabled # "unread" => enabled' # "unread" /\ (enabled' = "yes") = (enabled = "yes")
      BY <3>2, <3>4, <3>5
    <3>7. ASSUME NEW a \in modes'
          PROVE  IF a.by = "Gemm" THEN enabled' # "unread" /\ a.fp64 = (enabled' = "yes") ELSE a.fp64 = FALSE
      <4>1. CASE a \in modes
        BY <3>6, <4>1 DEF ReadOnce
      <4>2. CASE a \in Accumulated(j)
        BY <3>3, <3>4, <4>2
      <4> QED
        BY <3>1, <4>1, <4>2
    <3> QED
      BY <3>7 DEF ReadOnce
  <2>2. CASE UNCHANGED <<enabled, modes>>
    BY <2>2, Zenon DEF ReadOnce
  <2> QED
    BY <2>1, <2>2 DEF GemmNext, SetEnv, CallRefused, Step, Release, gemmVars
<1>3. ReadOnce => PrecisionKept
  BY Zenon DEF ReadOnce, PrecisionKept
<1> QED
  BY <1>1, <1>2, <1>3, PTL DEF GemmSpec
=============================================================================
