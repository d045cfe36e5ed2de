----------------------------- MODULE McclAllReduce -----------------------------
(***************************************************************************)
(* McclImpl::AllReduce (ccl/mccl_impl.cc): a large all-reduce is cut into  *)
(* segments, each a collective call of its own on the rank's stream.       *)
(*                                                                         *)
(* Every rank makes the same reductions (program) in the same order, as    *)
(* the collectives of MCCL ask for.  MCCL is external: the k-th calls of   *)
(* all ranks on a communicator meet when each has reached the head of its  *)
(* rank's stream; they are carried out if they are of the same length, and *)
(* element i of the one call meets element i of the others.                *)
(***************************************************************************)
EXTENDS Integers, Sequences, FiniteSets

CONSTANTS
    Ranks,              \* ranks of the communicator
    Program,            \* the reductions every rank makes: [count, element_size]
    SegmentMBs,         \* values of INFINI_MCCL_ALLREDUCE_SEGMENT_MB to consider
    BytesPerMB,         \* kBytesPerMB
    DefaultMB,          \* 160
    MaxMB,              \* 4096
    MaxBytes,           \* std::numeric_limits<size_t>::max()
    MaxQueue,           \* bound on the calls waiting in a stream
    Unset, Malformed

ASSUME ProgramAssumption ==
    Program \in Seq([count : Nat, element_size : Nat \ {0}])
ASSUME SegmentAssumption ==
    /\ BytesPerMB \in Nat \ {0} /\ DefaultMB \in Nat \ {0} /\ MaxMB \in Nat
    /\ MaxBytes \in Nat \ {0} /\ MaxQueue \in Nat \ {0}
    /\ Unset \notin Nat /\ Malformed \notin Nat /\ Unset # Malformed
    /\ SegmentMBs \subseteq Nat \cup {Unset, Malformed}

VARIABLES
    SegmentMB,      \* the environment variable, the same in every process
    segment_bytes,  \* rank -> what its process has parsed, or Unset before
    nr,             \* rank -> which reduction of the program it is making
    offset,         \* rank -> elements of it already submitted
    stream,         \* rank -> collective calls waiting in its stream
    outcome,        \* rank -> element -> "own", "reduced" or "spoiled"
    status          \* rank -> "running" or "aborted"

vars == <<SegmentMB, segment_bytes, nr, offset, stream, outcome, status>>

Reductions == 1 .. Len(Program)

Elements == UNION {{k} \X (0 .. Program[k].count - 1) : k \in Reductions}

Promise == INSTANCE AllReduce

Smaller(a, b) == IF a <= b THEN a ELSE b
Larger(a, b) == IF a >= b THEN a ELSE b

-----------------------------------------------------------------------------
(* The segment length.                                                       *)

WellFormed == SegmentMB # Malformed /\ (SegmentMB \in Nat => SegmentMB <= MaxMB)

ParsedBytesPlain ==
    IF SegmentMB = Unset THEN DefaultMB * BytesPerMB ELSE SegmentMB * BytesPerMB
ParsedBytes ==
    IF SegmentMB = Unset THEN DefaultMB * BytesPerMB
    ELSE IF SegmentMB = 0 THEN MaxBytes ELSE SegmentMB * BytesPerMB

SegmentElementsMaybeNone(r) == segment_bytes[r] \div Program[nr[r]].element_size
SegmentElements(r) ==
    Larger(1, segment_bytes[r] \div Program[nr[r]].element_size)

-----------------------------------------------------------------------------
Init ==
    /\ SegmentMB \in SegmentMBs
    /\ segment_bytes = [r \in Ranks |-> Unset]
    /\ nr = [r \in Ranks |-> 1]
    /\ offset = [r \in Ranks |-> 0]
    /\ stream = [r \in Ranks |-> <<>>]
    /\ outcome = [r \in Ranks |-> [e \in Elements |-> "own"]]
    /\ status = [r \in Ranks |-> "running"]

(* The rank has a reduction to make, and its process has read the length.    *)
Active(r) == status[r] = "running" /\ nr[r] \in Reductions

Ready(r) == Active(r) /\ segment_bytes[r] # Unset

(* The first AllReduce of a process reads the environment, or aborts.        *)
ReadSegment(r) ==
    /\ Active(r)
    /\ segment_bytes[r] = Unset
    /\ IF WellFormed
       THEN /\ segment_bytes' = [segment_bytes EXCEPT ![r] = ParsedBytes]
            /\ UNCHANGED status
       ELSE /\ status' = [status EXCEPT ![r] = "aborted"]
            /\ UNCHANGED segment_bytes
    /\ UNCHANGED <<SegmentMB, nr, offset, stream, outcome>>

Submit(r, elements) ==
    /\ Len(stream[r]) < MaxQueue
    /\ stream' = [stream EXCEPT ![r] =
          Append(@, [nr |-> nr[r], offset |-> offset[r], elements |-> elements])]

Return(r) == nr' = [nr EXCEPT ![r] = @ + 1] /\ offset' = [offset EXCEPT ![r] = 0]

(* A reduction no longer than a segment is one call.                         *)
AllReduceWhole(r) ==
    /\ Ready(r)
    /\ Program[nr[r]].count <= SegmentElements(r)
    /\ Submit(r, Program[nr[r]].count)
    /\ Return(r)
    /\ UNCHANGED <<SegmentMB, segment_bytes, outcome, status>>

(* One round of the loop.                                                    *)
ElementsLeftWhole(r) == SegmentElements(r)
ElementsLeft(r) == Smaller(SegmentElements(r), Program[nr[r]].count - offset[r])

AdvancedShort(r, elements) == offset[r] + Larger(1, elements - 1)
AdvancedDroppingTail(r, elements) ==
    IF offset[r] + elements + SegmentElements(r) <= Program[nr[r]].count
    THEN offset[r] + elements ELSE Program[nr[r]].count
Advanced(r, elements) == offset[r] + elements

AllReduceSegment(r) ==
    /\ Ready(r)
    /\ Program[nr[r]].count > SegmentElements(r)
    /\ Submit(r, ElementsLeft(r))
    /\ IF Advanced(r, ElementsLeft(r)) < Program[nr[r]].count
       THEN /\ offset' = [offset EXCEPT ![r] = Advanced(r, ElementsLeft(r))]
            /\ UNCHANGED nr
       ELSE Return(r)
    /\ UNCHANGED <<SegmentMB, segment_bytes, outcome, status>>

-----------------------------------------------------------------------------
(* MCCL.                                                                     *)

Call(r) == Head(stream[r])

Covers(c, e) ==
    /\ e[1] = c.nr
    /\ e[2] \in c.offset .. c.offset + c.elements - 1

(* An element comes out reduced when it meets the same element of the other  *)
(* ranks and has not been reduced before, which an in-place call would       *)
(* reduce again.                                                             *)
Meets(r, e) ==
    IF /\ outcome[r][e] = "own"
       /\ \A q \in Ranks : Call(q).nr = Call(r).nr /\ Call(q).offset = Call(r).offset
    THEN "reduced" ELSE "spoiled"

Collective ==
    /\ \A r \in Ranks : stream[r] # <<>>
    /\ \A r, q \in Ranks : Call(r).elements = Call(q).elements
    /\ outcome' = [r \in Ranks |-> [e \in Elements |->
                     IF Covers(Call(r), e) THEN Meets(r, e) ELSE outcome[r][e]]]
    /\ stream' = [r \in Ranks |-> Tail(stream[r])]
    /\ UNCHANGED <<SegmentMB, segment_bytes, nr, offset, status>>

-----------------------------------------------------------------------------
Rank(r) == ReadSegment(r) \/ AllReduceWhole(r) \/ AllReduceSegment(r)

Next == Collective \/ \E r \in Ranks : Rank(r)

Spec == Init /\ [][Next]_vars

(* A thread that has a call to make makes it, and MCCL carries out calls     *)
(* that have met.                                                            *)
FairSpec == Spec /\ WF_vars(Collective) /\ \A r \in Ranks : WF_vars(Rank(r))

-----------------------------------------------------------------------------
(* Properties.                                                               *)

CollectiveCalls == [nr : Reductions, offset : Nat, elements : Nat]

(* Every variable has its type, and a rank inside a reduction has not        *)
(* submitted all of it.                                                      *)
TypeOK ==
    /\ SegmentMB \in SegmentMBs
    /\ segment_bytes \in [Ranks -> Nat \cup {Unset}]
    /\ nr \in [Ranks -> Nat]
    /\ \A r \in Ranks :
         /\ nr[r] \in 1 .. Len(Program) + 1
         /\ offset[r] \in Nat
         /\ offset[r] > 0 => nr[r] \in Reductions /\ offset[r] < Program[nr[r]].count
    /\ stream \in [Ranks -> Seq(CollectiveCalls)]
    /\ outcome \in [Ranks -> [Elements -> {"own", "reduced", "spoiled"}]]
    /\ status \in [Ranks -> {"running", "aborted"}]

(* No element is reduced twice, left out of the order, or reduced with       *)
(* another element.                                                          *)
NothingSpoiled ==
    /\ TypeOK
    /\ \A r \in Ranks, e \in Elements : outcome[r][e] # "spoiled"

(* A call reaches past neither the buffer nor the segment length, from where *)
(* the bandwidth drops (one element is the least a call can have).           *)
CallsWithinBounds ==
    \A r \in Ranks : \A k \in DOMAIN stream[r] :
        LET c == stream[r][k]
            red == Program[c.nr]
        IN  /\ c.offset + c.elements <= red.count
            /\ c.elements > 1 => c.elements * red.element_size <= ParsedBytes

(* The segments keep the promise of one all-reduce: also, no element is left *)
(* out when a later reduction, which may read what this one writes, begins.  *)
PromiseSpec == Promise!Init /\ [][Promise!Next]_outcome

(* Every reduction comes to its end on every rank, unless the segment length *)
(* cannot be read.                                                           *)
EventuallyReduced ==
    <>(\/ \E r \in Ranks : status[r] = "aborted"
       \/ \A r \in Ranks, e \in Elements : outcome[r][e] = "reduced")
=============================================================================
