-------------------------- MODULE McclAllReduceProofs --------------------------
(***************************************************************************)
(* Proofs about McclAllReduce, for any ranks, program, segment length and  *)
(* bounds.                                                                 *)
(*                                                                         *)
(* The calls a rank still has waiting lead, one after the other, from a    *)
(* position p in the program to where the rank is, every one as long as    *)
(* its position says (Cut).  p is the same for all ranks, and what comes   *)
(* before it is what has been reduced: so the calls that MCCL brings       *)
(* together are the same, and no element is in two of them.                *)
(***************************************************************************)
EXTENDS McclAllReduce, SequenceTheorems, TLAPS

Positions == [nr : Nat, offset : Nat]
At(r) == [nr |-> nr[r], offset |-> offset[r]]

Limit(p) == Larger(1, ParsedBytes \div Program[p.nr].element_size)
Cut(p) ==
    IF Program[p.nr].count <= Limit(p) THEN Program[p.nr].count
    ELSE Smaller(Limit(p), Program[p.nr].count - p.offset)
Following(p) ==
    IF Program[p.nr].count <= Limit(p) \/ p.offset + Cut(p) >= Program[p.nr].count
    THEN [nr |-> p.nr + 1, offset |-> 0]
    ELSE [nr |-> p.nr, offset |-> p.offset + Cut(p)]

(* A position inside a reduction is in one that is cut.                      *)
Legal(p) ==
    /\ p \in Positions
    /\ p.nr \in 1 .. Len(Program) + 1
    /\ p.offset > 0 =>
          p.nr \in Reductions /\ p.offset < Program[p.nr].count /\ Program[p.nr].count > Limit(p)

CallAt(p) == [nr |-> p.nr, offset |-> p.offset, elements |-> Cut(p)]

(* Where the k-th waiting call of a rank starts, and after the last of them  *)
(* where the rank is.                                                        *)
PositionOf(r, k) ==
    IF k <= Len(stream[r]) THEN [nr |-> stream[r][k].nr, offset |-> stream[r][k].offset] ELSE At(r)

Chain(r, p) ==
    /\ PositionOf(r, 1) = p
    /\ \A k \in 1 .. Len(stream[r]) :
          LET q == PositionOf(r, k)
          IN  /\ Legal(q) /\ q.nr \in Reductions
              /\ stream[r][k] = CallAt(q)
              /\ PositionOf(r, k + 1) = Following(q)

Passed(e, p) == e[1] < p.nr \/ (e[1] = p.nr /\ e[2] < p.offset)

(* The rank knows the length of the segments before it makes a call.         *)
Informed(r) ==
    IF segment_bytes[r] = Unset
    THEN nr[r] = 1 /\ offset[r] = 0 /\ stream[r] = <<>>
    ELSE WellFormed /\ segment_bytes[r] = ParsedBytes

Aligned(p) ==
    /\ Legal(p)
    /\ \A r \in Ranks : Chain(r, p)
    /\ \A r \in Ranks, e \in Elements : outcome[r][e] = IF Passed(e, p) THEN "reduced" ELSE "own"

Types ==
    /\ SegmentMB \in SegmentMBs
    /\ segment_bytes \in [Ranks -> Nat \cup {Unset}]
    /\ nr \in [Ranks -> Nat]
    /\ offset \in [Ranks -> Nat]
    /\ stream \in [Ranks -> Seq(CollectiveCalls)]
    /\ outcome \in [Ranks -> [Elements -> {"own", "reduced", "spoiled"}]]
    /\ status \in [Ranks -> {"running", "aborted"}]

IInv ==
    /\ Types
    /\ \A r \in Ranks : Informed(r) /\ Legal(At(r))
    /\ \E p \in Positions : Aligned(p)

-----------------------------------------------------------------------------
(* The program and its elements.                                             *)

LEMMA ProgramFacts ==
    /\ Len(Program) \in Nat
    /\ Reductions \subseteq Nat
    /\ \A k \in Reductions : Program[k].count \in Nat /\ Program[k].element_size \in Nat \ {0}
<1> DEFINE Reduction == [count : Nat, element_size : Nat \ {0}]
<1>1. Program \in Seq(Reduction)
  BY ProgramAssumption
<1>2. \A k \in 1 .. Len(Program) : Program[k] \in Reduction
  BY <1>1, ElementOfSeq
<1>3. Len(Program) \in Nat
  BY <1>1, LenProperties
<1> QED  BY <1>2, <1>3 DEF Reductions

LEMMA ElementFacts ==
    ASSUME NEW e \in Elements
    PROVE  e[1] \in Reductions /\ e[2] \in Nat /\ e[2] < Program[e[1]].count
<1>1. PICK k \in Reductions : e \in {k} \X (0 .. Program[k].count - 1)
  BY DEF Elements
<1>2. e[1] = k /\ e[2] \in 0 .. Program[k].count - 1
  BY <1>1
<1> QED  BY <1>2, ProgramFacts

LEMMA ParsedFacts ==
    ASSUME SegmentMB \in SegmentMBs, WellFormed
    PROVE  ParsedBytes \in Nat
<1>1. CASE SegmentMB = Unset
  BY <1>1, SegmentAssumption DEF ParsedBytes
<1>2. CASE SegmentMB # Unset
  <2>1. SegmentMB \in Nat
    BY <1>2, SegmentAssumption DEF WellFormed
  <2> QED  BY <1>2, <2>1, SegmentAssumption DEF ParsedBytes
<1> QED  BY <1>1, <1>2

LEMMA Quotients ==
    ASSUME NEW b \in Nat, NEW s \in Nat \ {0}
    PROVE  b \div s \in Nat /\ s * (b \div s) <= b
OBVIOUS

LEMMA Products ==
    ASSUME NEW c \in Nat, NEW q \in Nat, NEW s \in Nat, c <= q
    PROVE  c * s <= s * q
OBVIOUS

(* A call from a legal position stays inside of its reduction and of the     *)
(* segment length, and leads to a legal position.                            *)
LEMMA CutFacts ==
    ASSUME SegmentMB \in SegmentMBs, WellFormed,
           NEW p, Legal(p), p.nr \in Reductions
    PROVE  /\ Limit(p) \in Nat \ {0}
           /\ Cut(p) \in Nat
           /\ p.offset + Cut(p) <= Program[p.nr].count
           /\ Cut(p) > 1 => Cut(p) * Program[p.nr].element_size <= ParsedBytes
<1> DEFINE size == Program[p.nr].element_size
           count == Program[p.nr].count
           quotient == ParsedBytes \div size
<1>1. ParsedBytes \in Nat /\ size \in Nat \ {0} /\ count \in Nat /\ p.offset \in Nat /\ p.nr \in Nat
  BY ParsedFacts, ProgramFacts DEF Legal, Positions
<1>2. quotient \in Nat /\ size * quotient <= ParsedBytes
  BY <1>1, Quotients
<1>3. Limit(p) = Larger(1, quotient)
  BY DEF Limit
<1>4. Limit(p) \in Nat \ {0} /\ (Limit(p) > 1 => Limit(p) = quotient)
  BY <1>2, <1>3 DEF Larger
<1>5. p.offset > 0 => p.offset < count /\ count > Limit(p)
  BY DEF Legal
<1>6. Cut(p) = IF count <= Limit(p) THEN count ELSE Smaller(Limit(p), count - p.offset)
  BY DEF Cut
<1> HIDE DEF size, count, quotient
<1>7. Cut(p) \in Nat /\ p.offset + Cut(p) <= count /\ Cut(p) <= Limit(p)
  BY <1>1, <1>4, <1>5, <1>6 DEF Smaller
<1>8. ASSUME Cut(p) > 1 PROVE Cut(p) * size <= ParsedBytes
  <2>1. Cut(p) <= quotient
    BY <1>2, <1>4, <1>7, <1>8
  <2>2. Cut(p) * size <= size * quotient
    BY <1>1, <1>2, <1>7, <2>1, Products
  <2>3. Cut(p) * size \in Nat /\ size * quotient \in Nat
    BY <1>1, <1>2, <1>7
  <2> QED  BY <1>1, <1>2, <2>2, <2>3
<1> QED  BY <1>4, <1>7, <1>8 DEF size, count

LEMMA FollowingFacts ==
    ASSUME SegmentMB \in SegmentMBs, WellFormed,
           NEW p, Legal(p), p.nr \in Reductions
    PROVE  /\ Legal(Following(p))
           /\ CallAt(p) \in CollectiveCalls
<1>1. p.nr \in 1 .. Len(Program) /\ p.offset \in Nat /\ Program[p.nr].count \in Nat /\ Len(Program) \in Nat
  BY ProgramFacts DEF Legal, Positions, Reductions
<1>2. Cut(p) \in Nat /\ p.offset + Cut(p) <= Program[p.nr].count /\ Limit(p) \in Nat
  BY CutFacts
<1>3. CallAt(p) \in CollectiveCalls
  BY <1>1, <1>2 DEF CallAt, CollectiveCalls
<1>4. CASE Program[p.nr].count <= Limit(p) \/ p.offset + Cut(p) >= Program[p.nr].count
  <2>1. Following(p) = [nr |-> p.nr + 1, offset |-> 0]
    BY <1>4 DEF Following
  <2>2. Following(p).nr \in 1 .. Len(Program) + 1 /\ Following(p).offset = 0 /\ Following(p) \in Positions
    BY <1>1, <2>1 DEF Positions
  <2> QED  BY <1>3, <2>2 DEF Legal
<1>5. CASE ~(Program[p.nr].count <= Limit(p) \/ p.offset + Cut(p) >= Program[p.nr].count)
  <2> DEFINE q == [nr |-> p.nr, offset |-> p.offset + Cut(p)]
  <2>1. Following(p) = q
    BY <1>5 DEF Following
  <2>2. q.nr = p.nr /\ q.offset = p.offset + Cut(p) /\ q \in Positions
    BY <1>1, <1>2 DEF Positions
  <2>3. Limit(q) = Limit(p)
    BY <2>2 DEF Limit
  <2> HIDE DEF q
  <2>4. q.offset < Program[q.nr].count /\ Program[q.nr].count > Limit(q) /\ q.nr \in 1 .. Len(Program) + 1
    BY <1>1, <1>2, <1>5, <2>2, <2>3
  <2> QED  BY <1>3, <2>1, <2>2, <2>4 DEF Legal
<1> QED  BY <1>4, <1>5

(* What lies before the position after a call lay before the call or is in   *)
(* it, and not both.                                                         *)
LEMMA PassingFacts ==
    ASSUME SegmentMB \in SegmentMBs, WellFormed,
           NEW p, Legal(p), p.nr \in Reductions, NEW e \in Elements
    PROVE  /\ Passed(e, Following(p)) <=> Passed(e, p) \/ Covers(CallAt(p), e)
           /\ ~(Passed(e, p) /\ Covers(CallAt(p), e))
<1>1. e[1] \in Nat /\ e[2] \in Nat /\ e[2] < Program[e[1]].count /\ Program[p.nr].count \in Nat
  BY ElementFacts, ProgramFacts
<1>2. Cut(p) \in Nat /\ p.offset + Cut(p) <= Program[p.nr].count /\ Limit(p) \in Nat
  BY CutFacts
<1>3. p.nr \in Nat /\ p.offset \in Nat
  BY DEF Legal, Positions
<1>4. Covers(CallAt(p), e) <=> e[1] = p.nr /\ p.offset <= e[2] /\ e[2] < p.offset + Cut(p)
  BY <1>1, <1>2, <1>3 DEF Covers, CallAt
<1>5. CASE Program[p.nr].count <= Limit(p) \/ p.offset + Cut(p) >= Program[p.nr].count
  <2>1. Following(p) = [nr |-> p.nr + 1, offset |-> 0]
    BY <1>5 DEF Following
  <2>2. Passed(e, Following(p)) <=> e[1] <= p.nr
    BY <1>1, <1>3, <2>1 DEF Passed
  <2>3. p.offset + Cut(p) = Program[p.nr].count
    <3>1. CASE Program[p.nr].count <= Limit(p)
      <4>1. Cut(p) = Program[p.nr].count
        BY <3>1 DEF Cut
      <4> QED  BY <1>1, <1>2, <1>3, <4>1
    <3>2. CASE p.offset + Cut(p) >= Program[p.nr].count
      BY <1>1, <1>2, <1>3, <3>2
    <3> QED  BY <1>5, <3>1, <3>2
  <2> QED  BY <1>1, <1>2, <1>3, <1>4, <2>2, <2>3 DEF Passed
<1>6. CASE ~(Program[p.nr].count <= Limit(p) \/ p.offset + Cut(p) >= Program[p.nr].count)
  <2>1. Following(p) = [nr |-> p.nr, offset |-> p.offset + Cut(p)]
    BY <1>6 DEF Following
  <2>2. Passed(e, Following(p)) <=> e[1] < p.nr \/ (e[1] = p.nr /\ e[2] < p.offset + Cut(p))
    BY <2>1 DEF Passed
  <2> QED  BY <1>1, <1>2, <1>3, <1>4, <2>2 DEF Passed
<1> QED  BY <1>5, <1>6

-----------------------------------------------------------------------------
(* What a rank does.  Both ways of making a call leave the rank at the       *)
(* position after it.                                                        *)

Submitted(r) ==
    /\ stream' = [stream EXCEPT ![r] = Append(@, CallAt(At(r)))]
    /\ nr' = [nr EXCEPT ![r] = Following(At(r)).nr]
    /\ offset' = [offset EXCEPT ![r] = Following(At(r)).offset]

LEMMA RankFacts ==
    ASSUME Types, NEW r \in Ranks
    PROVE  /\ At(r) \in Positions /\ At(r).nr = nr[r] /\ At(r).offset = offset[r]
           /\ stream[r] \in Seq(CollectiveCalls) /\ Len(stream[r]) \in Nat
BY LenProperties DEF Types, At, Positions

LEMMA SubmitFacts ==
    ASSUME Types, NEW r \in Ranks, Informed(r), Legal(At(r)),
           AllReduceWhole(r) \/ AllReduceSegment(r)
    PROVE  /\ segment_bytes[r] # Unset /\ WellFormed
           /\ At(r).nr \in Reductions
           /\ Submitted(r)
           /\ UNCHANGED <<SegmentMB, segment_bytes, outcome, status>>
<1> DEFINE p == At(r)
<1>1. /\ segment_bytes[r] # Unset /\ nr[r] \in Reductions
      /\ UNCHANGED <<SegmentMB, segment_bytes, outcome, status>>
  BY DEF AllReduceWhole, AllReduceSegment, Ready, Active
<1>2. WellFormed /\ segment_bytes[r] = ParsedBytes
  BY <1>1 DEF Informed
<1>3. p.nr = nr[r] /\ p.offset = offset[r]
  BY RankFacts
<1>4. SegmentElements(r) = Limit(p)
  BY <1>2, <1>3 DEF SegmentElements, Limit
<1>5. SegmentMB \in SegmentMBs
  BY DEF Types
<1>6. /\ Limit(p) \in Nat \ {0} /\ Cut(p) \in Nat
      /\ Program[p.nr].count \in Nat
      /\ p.offset \in Nat /\ p.nr \in Nat
  BY <1>1, <1>2, <1>3, <1>5, CutFacts, ProgramFacts DEF Legal, Positions
<1>7. nr \in [Ranks -> Nat] /\ offset \in [Ranks -> Nat]
  BY DEF Types
<1>8. CASE AllReduceWhole(r)
  <2>1. Program[p.nr].count <= Limit(p)
    BY <1>3, <1>4, <1>8 DEF AllReduceWhole
  <2>2. Following(p) = [nr |-> p.nr + 1, offset |-> 0] /\ Cut(p) = Program[p.nr].count
    BY <2>1 DEF Following, Cut
  <2>3. CallAt(p) = [nr |-> nr[r], offset |-> offset[r], elements |-> Program[nr[r]].count]
    BY <1>3, <2>2 DEF CallAt
  <2>4. stream' = [stream EXCEPT ![r] = Append(@, CallAt(p))]
    BY <1>8, <2>3 DEF AllReduceWhole, Submit
  <2>5. nr' = [nr EXCEPT ![r] = p.nr + 1] /\ offset' = [offset EXCEPT ![r] = 0]
    BY <1>3, <1>8 DEF AllReduceWhole, Return
  <2> QED  BY <1>1, <1>2, <1>3, <2>2, <2>4, <2>5 DEF Submitted
<1>9. CASE AllReduceSegment(r)
  <2>1. Program[p.nr].count > Limit(p)
    BY <1>3, <1>4, <1>9 DEF AllReduceSegment
  <2>2. ~(Program[p.nr].count <= Limit(p))
    BY <1>6, <2>1
  <2>3. Cut(p) = ElementsLeft(r)
    BY <1>3, <1>4, <2>2 DEF Cut, ElementsLeft
  <2>4. CallAt(p) = [nr |-> nr[r], offset |-> offset[r], elements |-> ElementsLeft(r)]
    BY <1>3, <2>3 DEF CallAt
  <2>5. stream' = [stream EXCEPT ![r] = Append(@, CallAt(p))]
    BY <1>9, <2>4 DEF AllReduceSegment, Submit
  <2>6. Advanced(r, ElementsLeft(r)) = p.offset + Cut(p)
    BY <1>3, <2>3 DEF Advanced
  <2>7. CASE p.offset + Cut(p) < Program[p.nr].count
    <3>1. offset' = [offset EXCEPT ![r] = p.offset + Cut(p)] /\ nr' = nr
      BY <1>3, <1>9, <2>6, <2>7 DEF AllReduceSegment
    <3>2. Following(p) = [nr |-> p.nr, offset |-> p.offset + Cut(p)]
      BY <1>6, <2>2, <2>7 DEF Following
    <3>3. nr = [nr EXCEPT ![r] = p.nr]
      BY <1>3, <1>7
    <3> QED  BY <1>1, <1>2, <1>3, <2>5, <3>1, <3>2, <3>3 DEF Submitted
  <2>8. CASE ~(p.offset + Cut(p) < Program[p.nr].count)
    <3>1. nr' = [nr EXCEPT ![r] = p.nr + 1] /\ offset' = [offset EXCEPT ![r] = 0]
      BY <1>3, <1>9, <2>6, <2>8 DEF AllReduceSegment, Return
    <3>2. Following(p) = [nr |-> p.nr + 1, offset |-> 0]
      BY <1>6, <2>8 DEF Following
    <3> QED  BY <1>1, <1>2, <1>3, <2>5, <3>1, <3>2 DEF Submitted
  <2> QED  BY <2>7, <2>8
<1> QED  BY <1>8, <1>9

(* A call added to the end of a chain makes a chain.                         *)
LEMMA ChainGrows ==
    ASSUME Types, SegmentMB' = SegmentMB,
           NEW r \in Ranks, NEW p, Chain(r, p),
           Legal(At(r)), At(r).nr \in Reductions,
           CallAt(At(r)) \in CollectiveCalls, Following(At(r)) \in Positions,
           Submitted(r)
    PROVE  Chain(r, p)' /\ At(r)' = Following(At(r))
<1>1. SUFFICES ASSUME NEW s, s = stream[r], NEW n, n = Len(s), NEW here, here = At(r),
                      NEW c, c = CallAt(here), NEW next, next = Following(here)
               PROVE  Chain(r, p)' /\ At(r)' = next
  OBVIOUS
<1>2. s \in Seq(CollectiveCalls) /\ n \in Nat
  BY <1>1, RankFacts
<1>3. stream[r]' = Append(s, c)
  BY <1>1 DEF Types, Submitted
<1>4. At(r)' = next
  <2>1. nr[r]' = next.nr /\ offset[r]' = next.offset
    BY <1>1 DEF Types, Submitted
  <2> QED  BY <1>1, <2>1 DEF At, Positions
<1>5. /\ Len(Append(s, c)) = n + 1
      /\ \A k \in 1 .. n : Append(s, c)[k] = s[k]
      /\ Append(s, c)[n + 1] = c
  BY <1>1, <1>2, AppendProperties
<1>6. c.nr = here.nr /\ c.offset = here.offset /\ here = [nr |-> here.nr, offset |-> here.offset]
  BY <1>1 DEF CallAt, At
<1>7. \A k \in 1 .. n : PositionOf(r, k)' = PositionOf(r, k)
  <2> SUFFICES ASSUME NEW k \in 1 .. n PROVE PositionOf(r, k)' = PositionOf(r, k)
    OBVIOUS
  <2>1. k <= n /\ k <= n + 1 /\ Append(s, c)[k] = s[k]
    BY <1>2, <1>5
  <2> QED  BY <1>1, <1>3, <1>5, <2>1 DEF PositionOf
<1>8. PositionOf(r, n + 1)' = here
  <2>1. n + 1 <= Len(stream[r]') /\ stream[r]'[n + 1] = c
    BY <1>2, <1>3, <1>5
  <2> QED  BY <1>6, <2>1 DEF PositionOf
<1>9. PositionOf(r, n + 2)' = next
  <2>1. ~(n + 2 <= Len(stream[r]'))
    BY <1>2, <1>3, <1>5
  <2> QED  BY <1>4, <2>1 DEF PositionOf
<1>10. PositionOf(r, n + 1) = here
  BY <1>1, <1>2 DEF PositionOf
<1>11. \A q : Legal(q)' = Legal(q) /\ CallAt(q)' = CallAt(q) /\ Following(q)' = Following(q)
  BY DEF Legal, CallAt, Following, Cut, Limit, ParsedBytes
<1>12. PositionOf(r, 1)' = p
  <2>1. PositionOf(r, 1) = p
    BY DEF Chain
  <2>2. CASE n = 0
    BY <1>8, <1>10, <2>1, <2>2
  <2>3. CASE n # 0
    BY <1>2, <1>7, <2>1, <2>3
  <2> QED  BY <2>2, <2>3
<1>13. ASSUME NEW k \in 1 .. n + 1, NEW q, q = PositionOf(r, k)'
       PROVE  /\ Legal(q) /\ q.nr \in Reductions
              /\ Append(s, c)[k] = CallAt(q)
              /\ PositionOf(r, k + 1)' = Following(q)
  <2>1. CASE k = n + 1
    <3>1. q = here
      BY <1>8, <1>13, <2>1
    <3>2. k + 1 = n + 2
      BY <1>2, <2>1
    <3> QED  BY <1>1, <1>5, <1>9, <2>1, <3>1, <3>2
  <2>2. CASE k \in 1 .. n
    <3>1. q = PositionOf(r, k)
      BY <1>7, <1>13, <2>2
    <3>2. Legal(q) /\ q.nr \in Reductions /\ s[k] = CallAt(q) /\ PositionOf(r, k + 1) = Following(q)
      BY <1>1, <2>2, <3>1 DEF Chain
    <3>3. PositionOf(r, k + 1)' = PositionOf(r, k + 1)
      <4>1. CASE k = n
        BY <1>8, <1>10, <4>1
      <4>2. CASE k # n
        <5>1. k + 1 \in 1 .. n
          BY <1>2, <2>2, <4>2
        <5> QED  BY <1>7, <5>1
      <4> QED  BY <4>1, <4>2
    <3> QED  BY <1>5, <2>2, <3>2, <3>3
  <2>3. k = n + 1 \/ k \in 1 .. n
    BY <1>2
  <2> QED  BY <2>1, <2>2, <2>3
<1>14. \A k \in 1 .. Len(stream[r]') :
          /\ Legal(PositionOf(r, k))' /\ PositionOf(r, k)'.nr \in Reductions
          /\ stream[r]'[k] = CallAt(PositionOf(r, k))'
          /\ PositionOf(r, k + 1)' = Following(PositionOf(r, k))'
  <2> SUFFICES ASSUME NEW k \in 1 .. Len(stream[r]'), NEW q, q = PositionOf(r, k)'
               PROVE  /\ Legal(q)' /\ q.nr \in Reductions
                      /\ stream[r]'[k] = CallAt(q)'
                      /\ PositionOf(r, k + 1)' = Following(q)'
    BY DEF Legal, CallAt, Following, Cut, Limit, ParsedBytes
  <2>1. k \in 1 .. n + 1
    BY <1>3, <1>5
  <2> QED  BY <1>3, <1>11, <1>13, <2>1
<1> QED  BY <1>4, <1>12, <1>14 DEF Chain, Reductions

(* Without its first call a chain starts from the position after that.       *)
LEMMA ChainShrinks ==
    ASSUME Types, SegmentMB' = SegmentMB, nr' = nr, offset' = offset,
           NEW r \in Ranks, NEW p, Chain(r, p), stream[r] # <<>>,
           stream[r]' = Tail(stream[r]), NEW q, q = Following(p)
    PROVE  Chain(r, q)' /\ p.nr \in Reductions /\ Call(r) = CallAt(p)
<1>1. SUFFICES ASSUME NEW s, s = stream[r], NEW n, n = Len(s)
               PROVE  Chain(r, q)' /\ p.nr \in Reductions /\ Head(s) = CallAt(p)
  BY DEF Call
<1>2. s \in Seq(CollectiveCalls) /\ n \in Nat
  BY <1>1, RankFacts
<1>3. n >= 1 /\ Head(s) = s[1]
  BY <1>1, <1>2, EmptySeq
<1>4. Len(Tail(s)) = n - 1 /\ \A k \in 1 .. n - 1 : Tail(s)[k] = s[k + 1]
  BY <1>1, <1>2, HeadTailProperties
<1>5. \A k \in 1 .. n : PositionOf(r, k)' = PositionOf(r, k + 1)
  <2> SUFFICES ASSUME NEW k \in 1 .. n PROVE PositionOf(r, k)' = PositionOf(r, k + 1)
    OBVIOUS
  <2>1. CASE k = n
    <3>1. ~(k <= Len(stream[r]')) /\ ~(k + 1 <= Len(stream[r]))
      BY <1>1, <1>2, <1>4, <2>1
    <3> QED  BY <3>1 DEF PositionOf, At
  <2>2. CASE k # n
    <3>1. k <= Len(stream[r]') /\ k + 1 <= Len(stream[r]) /\ stream[r]'[k] = stream[r][k + 1]
      BY <1>1, <1>2, <1>4, <2>2
    <3> QED  BY <3>1 DEF PositionOf
  <2> QED  BY <2>1, <2>2
<1>6. \A k \in 1 .. n : /\ Legal(PositionOf(r, k)) /\ PositionOf(r, k).nr \in Reductions
                        /\ s[k] = CallAt(PositionOf(r, k))
                        /\ PositionOf(r, k + 1) = Following(PositionOf(r, k))
  BY <1>1 DEF Chain
<1>7. PositionOf(r, 1) = p /\ 1 \in 1 .. n
  BY <1>2, <1>3 DEF Chain
<1>8. p.nr \in Reductions /\ Head(s) = CallAt(p) /\ PositionOf(r, 1 + 1) = q
  BY <1>3, <1>6, <1>7
<1>9. PositionOf(r, 1)' = q
  BY <1>5, <1>7, <1>8
<1>10. \A x : Legal(x)' = Legal(x) /\ CallAt(x)' = CallAt(x) /\ Following(x)' = Following(x)
  BY DEF Legal, CallAt, Following, Cut, Limit, ParsedBytes
<1>11. ASSUME NEW k \in 1 .. Len(stream[r]'), NEW x, x = PositionOf(r, k)'
       PROVE  /\ Legal(x)' /\ x.nr \in Reductions
              /\ stream[r]'[k] = CallAt(x)'
              /\ PositionOf(r, k + 1)' = Following(x)'
  <2>1. k \in 1 .. n - 1 /\ k \in 1 .. n /\ k + 1 \in 1 .. n
    BY <1>1, <1>2, <1>4
  <2>2. x = PositionOf(r, k + 1) /\ PositionOf(r, k + 1)' = PositionOf(r, (k + 1) + 1)
    BY <1>5, <1>11, <2>1
  <2>3. stream[r]'[k] = s[k + 1]
    BY <1>1, <1>4, <2>1
  <2> QED  BY <1>6, <1>10, <2>1, <2>2, <2>3
<1>12. \A k \in 1 .. Len(stream[r]') :
          /\ Legal(PositionOf(r, k))' /\ PositionOf(r, k)'.nr \in Reductions
          /\ stream[r]'[k] = CallAt(PositionOf(r, k))'
          /\ PositionOf(r, k + 1)' = Following(PositionOf(r, k))'
  BY <1>11 DEF Legal, CallAt, Following, Cut, Limit, ParsedBytes
<1> QED  BY <1>8, <1>9, <1>12 DEF Chain, Reductions

-----------------------------------------------------------------------------
(* The invariant.                                                            *)

LEMMA InitTypes == Init => Types
<1> SUFFICES ASSUME Init PROVE Types
  OBVIOUS
<1>1. /\ segment_bytes \in [Ranks -> Nat \cup {Unset}]
      /\ nr \in [Ranks -> Nat] /\ offset \in [Ranks -> Nat]
      /\ outcome \in [Ranks -> [Elements -> {"own", "reduced", "spoiled"}]]
      /\ status \in [Ranks -> {"running", "aborted"}]
      /\ SegmentMB \in SegmentMBs
  BY DEF Init
<1>2. stream \in [Ranks -> Seq(CollectiveCalls)]
  BY EmptySeq DEF Init
<1> QED  BY <1>1, <1>2 DEF Types

LEMMA InitInvariant == Init => IInv
<1> SUFFICES ASSUME Init PROVE IInv
  OBVIOUS
<1> DEFINE p == [nr |-> 1, offset |-> 0]
<1>1. Types
  BY InitTypes
<1>2. p \in Positions /\ p.nr = 1 /\ p.offset = 0
  BY DEF Positions
<1>3. Legal(p)
  BY <1>2, ProgramFacts DEF Legal
<1>4. ASSUME NEW r \in Ranks
      PROVE  /\ Informed(r)
             /\ At(r) = p
             /\ Chain(r, p)
  <2>1. segment_bytes[r] = Unset /\ nr[r] = 1 /\ offset[r] = 0 /\ stream[r] = <<>>
    BY DEF Init
  <2>2. At(r) = p
    BY <2>1 DEF At
  <2>3. Len(stream[r]) = 0
    BY <2>1, EmptySeq
  <2> QED  BY <2>1, <2>2, <2>3 DEF Informed, Chain, PositionOf
<1>5. ASSUME NEW r \in Ranks, NEW e \in Elements
      PROVE  outcome[r][e] = "own" /\ ~Passed(e, p)
  BY <1>2, ElementFacts, ProgramFacts DEF Init, Passed, Reductions
<1>6. Aligned(p)
  BY <1>3, <1>4, <1>5 DEF Aligned
<1> QED  BY <1>1, <1>2, <1>3, <1>4, <1>6 DEF IInv

(* The types and what a rank knows, after a call by rank r.                  *)
LEMMA StepRead ==
    ASSUME IInv, NEW r \in Ranks, ReadSegment(r)
    PROVE  IInv'
<1>1. /\ Types /\ segment_bytes[r] = Unset
      /\ UNCHANGED <<SegmentMB, nr, offset, stream, outcome>>
  BY DEF IInv, ReadSegment
<1>2. PICK p \in Positions : Aligned(p)
  BY DEF IInv
<1>3. ASSUME WellFormed PROVE ParsedBytes \in Nat
  BY <1>1, <1>3, ParsedFacts DEF Types
<1>4. Types'
  BY <1>1, <1>3 DEF ReadSegment, Types
<1>5. \A q : /\ Legal(q)' = Legal(q) /\ CallAt(q)' = CallAt(q) /\ Following(q)' = Following(q)
             /\ \A u \in Ranks : Chain(u, q)' = Chain(u, q)
  BY <1>1 DEF Legal, CallAt, Following, Cut, Limit, ParsedBytes, Chain, PositionOf, At
<1>6. ASSUME NEW u \in Ranks PROVE Informed(u)' /\ Legal(At(u))'
  <2>1. Informed(u) /\ Legal(At(u))
    BY DEF IInv
  <2>2. Legal(At(u))'
    BY <1>1, <2>1 DEF Legal, Limit, ParsedBytes, At
  <2>3. CASE WellFormed /\ u = r
    <3>1. segment_bytes[u]' = ParsedBytes
      BY <1>1, <2>3 DEF ReadSegment, Types
    <3>2. ParsedBytes # Unset
      BY <1>3, <2>3, SegmentAssumption
    <3> QED  BY <1>1, <2>2, <2>3, <3>1, <3>2 DEF Informed, WellFormed, ParsedBytes
  <2>4. CASE ~(WellFormed /\ u = r)
    <3>1. segment_bytes[u]' = segment_bytes[u]
      BY <1>1, <2>4 DEF ReadSegment, Types
    <3> QED  BY <1>1, <2>1, <2>2, <3>1 DEF Informed, WellFormed, ParsedBytes
  <2> QED  BY <2>3, <2>4
<1>7. Aligned(p)'
  BY <1>1, <1>2, <1>5 DEF Aligned
<1> QED  BY <1>4, <1>6, <1>7 DEF IInv

LEMMA StepSubmit ==
    ASSUME IInv, NEW r \in Ranks, AllReduceWhole(r) \/ AllReduceSegment(r)
    PROVE  IInv'
<1>1. Types /\ Informed(r) /\ Legal(At(r)) /\ SegmentMB \in SegmentMBs
  BY DEF IInv, Types
<1>2. PICK p \in Positions : Aligned(p)
  BY DEF IInv
<1>3. /\ segment_bytes[r] # Unset /\ WellFormed
      /\ At(r).nr \in Reductions
      /\ Submitted(r)
      /\ UNCHANGED <<SegmentMB, segment_bytes, outcome, status>>
  BY <1>1, SubmitFacts
<1>4. Legal(Following(At(r))) /\ CallAt(At(r)) \in CollectiveCalls
  BY <1>1, <1>3, FollowingFacts
<1>5. Following(At(r)) \in Positions
  BY <1>4 DEF Legal
<1>6. Types'
  <2>1. Following(At(r)).nr \in Nat /\ Following(At(r)).offset \in Nat
    BY <1>5 DEF Positions
  <2>2. Append(stream[r], CallAt(At(r))) \in Seq(CollectiveCalls)
    BY <1>1, <1>4, RankFacts, AppendProperties
  <2> QED  BY <1>1, <1>3, <2>1, <2>2 DEF Types, Submitted
<1>7. \A q : Legal(q)' = Legal(q) /\ CallAt(q)' = CallAt(q) /\ Following(q)' = Following(q)
  BY <1>3 DEF Legal, CallAt, Following, Cut, Limit, ParsedBytes
<1>8. ASSUME NEW u \in Ranks PROVE Chain(u, p)' /\ Informed(u)' /\ Legal(At(u))'
  <2>1. Chain(u, p) /\ Informed(u) /\ Legal(At(u))
    BY <1>2 DEF Aligned, IInv
  <2>2. CASE u = r
    <3>1. Chain(r, p)' /\ At(r)' = Following(At(r))
      BY <1>1, <1>3, <1>4, <1>5, <2>1, <2>2, ChainGrows
    <3>2. ASSUME NEW x, x = Following(At(r)) PROVE Legal(x)'
      BY <1>4, <1>7, <3>2
    <3>3. Legal(At(r))'
      BY <3>1, <3>2 DEF Legal, Limit, ParsedBytes
    <3>4. Informed(r)'
      BY <1>1, <1>3 DEF Informed, WellFormed, ParsedBytes
    <3> QED  BY <2>2, <3>1, <3>3, <3>4
  <2>3. CASE u # r
    <3>1. stream[u]' = stream[u] /\ nr[u]' = nr[u] /\ offset[u]' = offset[u]
      BY <1>1, <1>3, <2>3 DEF Submitted, Types
    <3>2. Chain(u, p)'
      <4>1. \A k : PositionOf(u, k)' = PositionOf(u, k)
        BY <3>1 DEF PositionOf, At
      <4> QED  BY <1>7, <2>1, <3>1, <4>1 DEF Chain
    <3>3. Legal(At(u))'
      BY <1>3, <2>1, <3>1 DEF At, Legal, Limit, ParsedBytes
    <3>4. Informed(u)'
      BY <1>3, <2>1, <3>1 DEF Informed, WellFormed, ParsedBytes
    <3> QED  BY <3>2, <3>3, <3>4
  <2> QED  BY <2>2, <2>3
<1>9. Aligned(p)'
  <2>1. Legal(p)'
    BY <1>2, <1>7 DEF Aligned
  <2> QED  BY <1>2, <1>3, <1>8, <2>1 DEF Aligned
<1> QED  BY <1>6, <1>8, <1>9 DEF IInv

(* The calls that meet are the same, of elements that nothing has reduced.   *)
LEMMA SameCalls ==
    ASSUME IInv, Collective, NEW p, Aligned(p), NEW r \in Ranks
    PROVE  /\ WellFormed /\ p.nr \in Reductions
           /\ \A u \in Ranks : Call(u) = CallAt(p) /\ Chain(u, Following(p))'
           /\ \A u \in Ranks, e \in Elements :
                 outcome'[u][e] = IF Covers(CallAt(p), e) THEN "reduced" ELSE outcome[u][e]
<1>1. /\ \A u \in Ranks : stream[u] # <<>> /\ stream'[u] = Tail(stream[u])
      /\ UNCHANGED <<SegmentMB, segment_bytes, nr, offset, status>>
  BY DEF Collective
<1>2. Types /\ Informed(r)
  BY DEF IInv
<1>3. WellFormed
  BY <1>1, <1>2 DEF Informed
<1>4. \A u \in Ranks : Chain(u, p)
  BY DEF Aligned
<1>5. SUFFICES ASSUME NEW q, q = Following(p)
               PROVE  /\ p.nr \in Reductions
                      /\ \A u \in Ranks : Call(u) = CallAt(p) /\ Chain(u, q)'
                      /\ \A u \in Ranks, e \in Elements :
                            outcome'[u][e] = IF Covers(CallAt(p), e) THEN "reduced" ELSE outcome[u][e]
  <2>1. Following(p)' = Following(p)
    BY <1>1 DEF Following, Cut, Limit, ParsedBytes
  <2>2. \A q : q = Following(p) => \A u \in Ranks : Chain(u, q)' = Chain(u, Following(p))'
    BY <2>1 DEF Chain
  <2> QED  BY <1>3, <1>5, <2>2
<1>6. \A u \in Ranks : Call(u) = CallAt(p) /\ Chain(u, q)' /\ p.nr \in Reductions
  <2> SUFFICES ASSUME NEW u \in Ranks PROVE Call(u) = CallAt(p) /\ Chain(u, q)' /\ p.nr \in Reductions
    OBVIOUS
  <2>1. stream[u]' = Tail(stream[u])
    BY <1>1
  <2> QED  BY <1>1, <1>2, <1>4, <1>5, <2>1, ChainShrinks
<1>7. ASSUME NEW u \in Ranks, NEW e \in Elements
      PROVE  outcome'[u][e] = IF Covers(CallAt(p), e) THEN "reduced" ELSE outcome[u][e]
  <2>1. outcome'[u][e] = IF Covers(Call(u), e) THEN Meets(u, e) ELSE outcome[u][e]
    BY DEF Collective
  <2>2. ASSUME Covers(CallAt(p), e) PROVE Meets(u, e) = "reduced"
    <3>1. ~Passed(e, p)
      BY <1>2, <1>3, <1>6, <2>2, PassingFacts DEF Types, Aligned
    <3>2. outcome[u][e] = "own"
      BY <3>1 DEF Aligned
    <3>3. \A v \in Ranks : Call(v) = Call(u)
      BY <1>6
    <3> QED  BY <3>2, <3>3 DEF Meets
  <2> QED  BY <1>6, <2>1, <2>2
<1> QED  BY <1>6, <1>7

LEMMA StepCollective ==
    ASSUME IInv, Collective
    PROVE  IInv'
<1>1. PICK p \in Positions : Aligned(p)
  BY DEF IInv
<1>2. /\ Types /\ SegmentMB \in SegmentMBs
      /\ \A u \in Ranks : stream[u] # <<>> /\ stream[u] \in Seq(CollectiveCalls)
      /\ stream' = [u \in Ranks |-> Tail(stream[u])]
      /\ UNCHANGED <<SegmentMB, segment_bytes, nr, offset, status>>
  BY DEF Collective, IInv, Types
<1>3. outcome' \in [Ranks -> [Elements -> {"own", "reduced", "spoiled"}]]
  <2>1. ASSUME NEW u \in Ranks, NEW e \in Elements
        PROVE  (IF Covers(Call(u), e) THEN Meets(u, e) ELSE outcome[u][e]) \in {"own", "reduced", "spoiled"}
    BY <1>2 DEF Meets, Types
  <2> QED  BY <2>1 DEF Collective
<1>4. Types'
  <2>1. \A u \in Ranks : Tail(stream[u]) \in Seq(CollectiveCalls)
    BY <1>2, HeadTailProperties
  <2> QED  BY <1>2, <1>3, <2>1 DEF Types
<1>5. ASSUME NEW u \in Ranks PROVE Informed(u)' /\ Legal(At(u))'
  <2>1. Informed(u) /\ Legal(At(u))
    BY DEF IInv
  <2>2. segment_bytes[u] # Unset
    BY <1>2, <2>1 DEF Informed
  <2>3. Informed(u)'
    BY <1>2, <2>1, <2>2 DEF Informed, WellFormed, ParsedBytes
  <2> QED  BY <1>2, <2>1, <2>3 DEF Legal, At, Limit, ParsedBytes
<1>6. CASE Ranks = {}
  <2>1. Legal(p)'
    BY <1>1, <1>2 DEF Aligned, Legal, Limit, ParsedBytes
  <2>2. Aligned(p)'
    BY <1>6, <2>1 DEF Aligned
  <2> QED  BY <1>4, <1>5, <2>2 DEF IInv
<1>7. CASE Ranks # {}
  <2>1. PICK r \in Ranks : TRUE
    BY <1>7
  <2>2. SUFFICES ASSUME NEW q, q = Following(p) PROVE IInv'
    OBVIOUS
  <2>3. /\ WellFormed /\ p.nr \in Reductions
        /\ \A u \in Ranks : Chain(u, Following(p))'
        /\ \A u \in Ranks, e \in Elements :
              outcome'[u][e] = IF Covers(CallAt(p), e) THEN "reduced" ELSE outcome[u][e]
    BY <1>1, <2>1, SameCalls
  <2>4. Following(p)' = q
    BY <1>2, <2>2 DEF Following, Cut, Limit, ParsedBytes
  <2>5. \A u \in Ranks : Chain(u, q)'
    BY <2>3, <2>4 DEF Chain
  <2>6. Legal(p)
    BY <1>1 DEF Aligned
  <2>7. Legal(q) /\ q \in Positions
    BY <1>2, <2>2, <2>3, <2>6, FollowingFacts DEF Legal
  <2>8. Legal(q)'
    BY <1>2, <2>7 DEF Legal, Limit, ParsedBytes
  <2>9. ASSUME NEW u \in Ranks, NEW e \in Elements
        PROVE  outcome'[u][e] = IF Passed(e, q) THEN "reduced" ELSE "own"
    <3>1. outcome'[u][e] = IF Covers(CallAt(p), e) THEN "reduced" ELSE outcome[u][e]
      BY <2>3
    <3>2. outcome[u][e] = IF Passed(e, p) THEN "reduced" ELSE "own"
      BY <1>1 DEF Aligned
    <3>3. Passed(e, q) <=> Passed(e, p) \/ Covers(CallAt(p), e)
      BY <1>2, <2>2, <2>3, <2>6, PassingFacts
    <3> QED  BY <3>1, <3>2, <3>3
  <2>10. Aligned(q)'
    BY <2>5, <2>8, <2>9 DEF Aligned
  <2> QED  BY <1>4, <1>5, <2>7, <2>10 DEF IInv
<1> QED  BY <1>6, <1>7

LEMMA StepStutter ==
    ASSUME IInv, UNCHANGED vars
    PROVE  IInv'
<1>1. UNCHANGED <<SegmentMB, segment_bytes, nr, offset, stream, outcome, status>>
  BY DEF vars
<1>2. PICK p \in Positions : Aligned(p)
  BY DEF IInv
<1>3. Types'
  BY <1>1 DEF IInv, Types
<1>4. \A q : /\ Legal(q)' = Legal(q) /\ CallAt(q)' = CallAt(q) /\ Following(q)' = Following(q)
             /\ \A u \in Ranks : Chain(u, q)' = Chain(u, q)
  BY <1>1 DEF Legal, CallAt, Following, Cut, Limit, ParsedBytes, Chain, PositionOf, At
<1>5. \A u \in Ranks : Informed(u)' /\ Legal(At(u))'
  BY <1>1 DEF IInv, Informed, WellFormed, ParsedBytes, Legal, At, Limit
<1>6. Aligned(p)'
  BY <1>1, <1>2, <1>4 DEF Aligned
<1> QED  BY <1>3, <1>5, <1>6 DEF IInv

(* The calls that wait are aligned on all ranks, whatever the ranks have     *)
(* submitted and MCCL has carried out.                                       *)
THEOREM Invariance == Spec => []IInv
<1>1. IInv /\ [Next]_vars => IInv'
  BY StepRead, StepSubmit, StepCollective, StepStutter DEF Next, Rank
<1> QED  BY InitInvariant, <1>1, PTL DEF Spec

-----------------------------------------------------------------------------
(* What follows from it.                                                     *)

LEMMA TypesFollow == IInv => TypeOK
<1> SUFFICES ASSUME IInv PROVE TypeOK
  OBVIOUS
<1>1. Types
  BY DEF IInv
<1>2. ASSUME NEW r \in Ranks
      PROVE  /\ nr[r] \in 1 .. Len(Program) + 1
             /\ offset[r] \in Nat
             /\ offset[r] > 0 => nr[r] \in Reductions /\ offset[r] < Program[nr[r]].count
  <2>1. Legal(At(r)) /\ At(r).nr = nr[r] /\ At(r).offset = offset[r]
    BY <1>1, RankFacts DEF IInv
  <2> QED  BY <1>1, <2>1 DEF Legal, Types
<1> QED  BY <1>1, <1>2 DEF TypeOK, Types

(* No element is reduced twice, out of order, or with another element.       *)
THEOREM NothingIsSpoiled == Spec => []NothingSpoiled
<1>1. IInv => NothingSpoiled
  <2> SUFFICES ASSUME IInv PROVE NothingSpoiled
    OBVIOUS
  <2>1. PICK p \in Positions : Aligned(p)
    BY DEF IInv
  <2>2. \A r \in Ranks, e \in Elements : outcome[r][e] # "spoiled"
    BY <2>1 DEF Aligned
  <2> QED  BY <2>2, TypesFollow DEF NothingSpoiled
<1> QED  BY Invariance, <1>1, PTL

(* No call reaches past its buffer or the segment length.                    *)
THEOREM CallsAreWithinBounds == Spec => []CallsWithinBounds
<1>1. IInv => CallsWithinBounds
  <2> SUFFICES ASSUME IInv, NEW r \in Ranks, NEW k \in DOMAIN stream[r], NEW c, c = stream[r][k]
               PROVE  /\ c.offset + c.elements <= Program[c.nr].count
                      /\ c.elements > 1 => c.elements * Program[c.nr].element_size <= ParsedBytes
    BY DEF CallsWithinBounds
  <2>1. PICK p \in Positions : Aligned(p)
    BY DEF IInv
  <2>2. stream[r] \in Seq(CollectiveCalls) /\ k \in 1 .. Len(stream[r]) /\ SegmentMB \in SegmentMBs
    BY LenProperties DEF IInv, Types
  <2>3. WellFormed
    <3>1. stream[r] # <<>>
      BY <2>2, EmptySeq
    <3> QED  BY <3>1 DEF IInv, Informed
  <2>4. PICK q : Legal(q) /\ q.nr \in Reductions /\ c = CallAt(q)
    BY <2>1, <2>2 DEF Aligned, Chain
  <2>5. c.nr = q.nr /\ c.offset = q.offset /\ c.elements = Cut(q)
    BY <2>4 DEF CallAt
  <2> QED  BY <2>2, <2>3, <2>4, <2>5, CutFacts
<1> QED  BY Invariance, <1>1, PTL

(* The segments keep the promise of one all-reduce: what MCCL carries out of *)
(* them together is a step of it, after all of the reductions before, and    *)
(* every other step is none.                                                 *)
THEOREM SegmentsAreOneAllReduce == Spec => PromiseSpec
<1>1. Init => Promise!Init
  BY DEF Init, Promise!Init
<1>2. IInv /\ [Next]_vars => [Promise!Next]_outcome
  <2> SUFFICES ASSUME IInv, [Next]_vars PROVE Promise!Next \/ outcome' = outcome
    OBVIOUS
  <2>1. CASE Collective
    <3>1. PICK p \in Positions : Aligned(p)
      BY DEF IInv
    <3>2. CASE Ranks = {}
      <4>1. outcome' = [u \in Ranks |-> outcome[u]] /\ outcome = [u \in Ranks |-> outcome[u]]
        BY <2>1, <3>2 DEF Collective, IInv, Types
      <4> QED  BY <4>1
    <3>3. CASE Ranks # {}
      <4>1. PICK r \in Ranks : TRUE
        BY <3>3
      <4> DEFINE S == {e \in Elements : Covers(CallAt(p), e)}
      <4>2. /\ WellFormed /\ p.nr \in Reductions
            /\ \A u \in Ranks, e \in Elements :
                  outcome'[u][e] = IF Covers(CallAt(p), e) THEN "reduced" ELSE outcome[u][e]
        BY <2>1, <3>1, <4>1, SameCalls
      <4>3. ASSUME NEW u \in Ranks, NEW e \in S PROVE outcome[u][e] = "own"
        <5>1. ~Passed(e, p)
          BY <3>1, <4>2, PassingFacts DEF IInv, Types, Aligned
        <5> QED  BY <3>1, <5>1 DEF Aligned
      <4>4. outcome' = [u \in Ranks |-> [e \in Elements |-> IF e \in S THEN "reduced" ELSE outcome[u][e]]]
        <5>1. outcome' = [u \in Ranks |-> [e \in Elements |->
                            IF Covers(Call(u), e) THEN Meets(u, e) ELSE outcome[u][e]]]
          BY <2>1 DEF Collective
        <5>2. \A u \in Ranks, e \in Elements :
                 (IF Covers(Call(u), e) THEN Meets(u, e) ELSE outcome[u][e])
                   = IF e \in S THEN "reduced" ELSE outcome[u][e]
          BY <4>2, <5>1
        <5> QED  BY <5>1, <5>2
      <4>5. ASSUME NEW u \in Ranks, NEW e \in S, NEW f \in Elements, f[1] < e[1]
            PROVE  outcome[u][f] = "reduced"
        <5>1. e[1] = p.nr
          BY DEF Covers, CallAt
        <5>2. Passed(f, p)
          BY <4>5, <5>1 DEF Passed
        <5> QED  BY <3>1, <5>2 DEF Aligned
      <4>6. Promise!Reduce(S)
        BY <4>3, <4>4, <4>5 DEF Promise!Reduce
      <4> QED  BY <4>6 DEF Promise!Next
    <3> QED  BY <3>2, <3>3
  <2>2. CASE ~Collective
    BY <2>2 DEF Next, Rank, ReadSegment, AllReduceWhole, AllReduceSegment, vars
  <2> QED  BY <2>1, <2>2
<1> QED  BY Invariance, <1>1, <1>2, PTL DEF Spec, PromiseSpec
================================================================================
