-------------------------- MODULE MacaAllocatorProofs --------------------------
(***************************************************************************)
(* Theorems about MacaAllocator, for any threads, addresses, sizes and     *)
(* number of devices, and for both modes of the runtime: types, who owns a *)
(* block (records describe live blocks, the work in the streams finds its  *)
(* blocks), and the counters of the tracker (they are the sums of what is  *)
(* recorded, never underflow, and the tracker implements the ledger).      *)
(***************************************************************************)
EXTENDS MacaAllocator, FiniteSetTheorems, SequenceTheorems, TLAPS

(* What the locals of a call mean: the call has an address from the step     *)
(* that finds one until it returns, and a size while it allocates.           *)
Locals ==
    \A t \in Threads :
        /\ ptr[t] = NoPtr <=> todo[t] \in { <<>>, <<"mcMalloc", "track">>,
                                            <<"mcMallocAsync">> }
        /\ todo[t] \in { <<"mcMalloc", "track">>, <<"track">>,
                         <<"mcMallocAsync">> } => size[t] \in Sizes

TypeInv == TypeOK /\ Locals

(* A call owns its address alone: nobody else holds it, frees it or is about *)
(* to record it; and what a caller holds is still there.                     *)
CallOwns ==
    \A t \in Threads : ptr[t] # NoPtr =>
        /\ block[ptr[t]] # NoBlock
        /\ ptr[t] \notin held
        /\ ~QueuedFree(ptr[t])
        /\ \A u \in Threads \ {t} : ptr[u] # ptr[t]

HolderOwns == \A p \in held : block[p] # NoBlock /\ ~QueuedFree(p)

(* A free is the last work on its block.                                     *)
FreeIsLast ==
    \A d \in Devices : \A i, j \in 1 .. Len(queue[d]) :
        (i < j /\ queue[d][i].kind = "free") => queue[d][j].ptr # queue[d][i].ptr

(* A block that is about to be recorded is new, and one that is about to be  *)
(* released is recorded no more.                                             *)
NewBlock ==
    \A t \in Threads : todo[t] = <<"track">> =>
        /\ block[ptr[t]] = [kind |-> "sync", dev |-> device[t], size |-> size[t]]
        /\ ~Recorded(ptr[t])

OldBlock ==
    /\ \A t \in Threads : todo[t] \in { <<"mcFree">>, <<"mcFreeAsync">> } =>
                              ~Recorded(ptr[t])
    /\ \A p \in Ptrs : QueuedFree(p) => ~Recorded(p)

(* The stream has left a block that mcFree is about to release; while the    *)
(* call still waits, the work on the block is among the work it awaits.      *)
Drained ==
    \A t \in Threads :
        /\ todo[t] \in { <<"mcFree">>, <<"untrack", "mcFree">> } => ~Pending(ptr[t])
        /\ todo[t] = <<"streamSynchronize", "untrack", "mcFree">> =>
              \A i \in 1 .. Len(queue[block[ptr[t]].dev]) :
                  queue[block[ptr[t]].dev][i].ptr = ptr[t] => i <= wait[t]

BlockInv == /\ CallOwns /\ HolderOwns
            /\ PendingWorkIsLive /\ FreeIsLast /\ Drained
            /\ RecordsDescribeBlocks /\ NewBlock /\ OldBlock

-----------------------------------------------------------------------------
(* The steps of a call: which they are at a given step, and what is left.    *)

LEMMA BodyTails ==
    ASSUME NEW t \in Threads, NEW s, todo[t] \in Bodies, At(t, s)
    PROVE  /\ Tail(todo[t]) \in Bodies
           /\ s = "mcMalloc" => /\ todo[t] = <<"mcMalloc", "track">>
                                /\ Tail(todo[t]) = <<"track">>
           /\ s = "track" => todo[t] = <<"track">> /\ Tail(todo[t]) = <<>>
           /\ s = "mcMallocAsync" => /\ todo[t] = <<"mcMallocAsync">>
                                     /\ Tail(todo[t]) = <<>>
           /\ s = "streamSynchronize" =>
                /\ todo[t] = <<"streamSynchronize", "untrack", "mcFree">>
                /\ Tail(todo[t]) = <<"untrack", "mcFree">>
           /\ s = "untrack" =>
                \/ /\ todo[t] = <<"untrack", "mcFree">>
                   /\ Tail(todo[t]) = <<"mcFree">>
                \/ /\ todo[t] = <<"untrack", "mcFreeAsync">>
                   /\ Tail(todo[t]) = <<"mcFreeAsync">>
           /\ s = "mcFree" => todo[t] = <<"mcFree">> /\ Tail(todo[t]) = <<>>
           /\ s = "mcFreeAsync" => /\ todo[t] = <<"mcFreeAsync">>
                                   /\ Tail(todo[t]) = <<>>
<1> DEFINE A == <<"mcMalloc", "track">>
           B == <<"streamSynchronize", "untrack", "mcFree">>
           C == <<"untrack", "mcFree">>
           D == <<"untrack", "mcFreeAsync">>
<1>1. CASE todo[t] = A
  BY <1>1 DEF At, Bodies
<1>2. CASE todo[t] = B
  BY <1>2 DEF At, Bodies
<1>3. CASE todo[t] = C
  BY <1>3 DEF At, Bodies
<1>4. CASE todo[t] = D
  BY <1>4 DEF At, Bodies
<1>5. CASE todo[t] = <<"track">>
  BY <1>5 DEF At, Bodies
<1>6. CASE todo[t] = <<"mcMallocAsync">>
  BY <1>6 DEF At, Bodies
<1>7. CASE todo[t] = <<"mcFree">>
  BY <1>7 DEF At, Bodies
<1>8. CASE todo[t] = <<"mcFreeAsync">>
  BY <1>8 DEF At, Bodies
<1>9. todo[t] # <<>>
  BY DEF At
<1> HIDE DEF A, B, C, D
<1> QED
  BY <1>1, <1>2, <1>3, <1>4, <1>5, <1>6, <1>7, <1>8, <1>9 DEF Bodies, A, B, C, D

LEMMA BodiesBegin ==
    /\ MallocBody = <<"mcMalloc", "track">>
    /\ MallocAsyncBody \in { <<"mcMalloc", "track">>, <<"mcMallocAsync">> }
    /\ FreeBody = <<"untrack", "mcFree">>
    /\ FreeAsyncBody = IF MultithreadWorkarounds
                       THEN <<"streamSynchronize", "untrack", "mcFree">>
                       ELSE <<"untrack", "mcFreeAsync">>
BY ModeAssumption DEF MallocBody, MallocAsyncBody, FreeBody, FreeAsyncBody

(* A call that has found its address is none of those that have not.         *)
LEMMA BodiesDiffer ==
    \A b \in { <<"track">>, <<"streamSynchronize", "untrack", "mcFree">>,
               <<"untrack", "mcFree">>, <<"mcFree">>,
               <<"untrack", "mcFreeAsync">>, <<"mcFreeAsync">> } :
        b \notin { <<>>, <<"mcMalloc", "track">>, <<"mcMallocAsync">> }
<1> SUFFICES ASSUME NEW b,
                    \/ b = <<"track">>
                    \/ b = <<"streamSynchronize", "untrack", "mcFree">>
                    \/ b = <<"untrack", "mcFree">>
                    \/ b = <<"mcFree">>
                    \/ b = <<"untrack", "mcFreeAsync">>
                    \/ b = <<"mcFreeAsync">>
             PROVE  b # <<>> /\ b # <<"mcMalloc", "track">> /\ b # <<"mcMallocAsync">>
  OBVIOUS
<1>1. b # <<>>
  OBVIOUS
<1>2. b # <<"mcMallocAsync">>
  OBVIOUS
<1>3. b # <<"mcMalloc", "track">>
  OBVIOUS
<1> QED
  BY <1>1, <1>2, <1>3

LEMMA GrownType ==
    ASSUME NEW stats \in AllocationStats, NEW n \in Nat
    PROVE  Grown(stats, n) \in AllocationStats
BY DEF Grown, AllocationStats

LEMMA ShrunkType ==
    ASSUME NEW stats \in AllocationStats, NEW n \in Nat
    PROVE  Shrunk(stats, n) \in AllocationStats
BY DEF Shrunk, AllocationStats

-----------------------------------------------------------------------------
(* Type correctness.                                                         *)

(* Every step of a call goes on to the rest of the call's body, and keeps    *)
(* its address and size exactly as long as the call lasts.                   *)
LEMMA AdvanceType ==
    ASSUME TypeInv, NEW t \in Threads, NEW s, At(t, s),
           NEW p \in Ptrs, Advance(t, p)
    PROVE  /\ todo' \in [Threads -> Bodies]
           /\ ptr' \in [Threads -> Ptrs \cup {NoPtr}]
           /\ size' \in [Threads -> Sizes \cup {0}]
           /\ Locals'
<1>1. Tail(todo[t]) \in Bodies /\ todo[t] \in Bodies
  BY BodyTails DEF TypeInv, TypeOK
<1>2. todo' = [todo EXCEPT ![t] = Tail(todo[t])]
  BY DEF Advance
<1>3. todo' \in [Threads -> Bodies]
  BY <1>1, <1>2 DEF TypeInv, TypeOK
<1>4. /\ ptr' = [ptr EXCEPT ![t] = IF Tail(todo[t]) = <<>> THEN NoPtr ELSE p]
      /\ size' = [size EXCEPT ![t] = IF Tail(todo[t]) = <<>> THEN 0 ELSE @]
  BY DEF Advance
<1>5. /\ ptr' \in [Threads -> Ptrs \cup {NoPtr}]
      /\ size' \in [Threads -> Sizes \cup {0}]
  BY <1>4 DEF TypeInv, TypeOK
<1>6. Locals'
  <2> SUFFICES ASSUME NEW u \in Threads
               PROVE  /\ ptr'[u] = NoPtr <=> todo'[u] \in { <<>>, <<"mcMalloc", "track">>,
                                                            <<"mcMallocAsync">> }
                      /\ todo'[u] \in { <<"mcMalloc", "track">>, <<"track">>,
                                        <<"mcMallocAsync">> } => size'[u] \in Sizes
    BY DEF Locals
  <2>1. CASE u # t
    BY <2>1, <1>2, <1>4 DEF TypeInv, TypeOK, Locals
  <2>2. CASE u = t
    <3>1. /\ todo'[t] = Tail(todo[t])
          /\ ptr'[t] = IF Tail(todo[t]) = <<>> THEN NoPtr ELSE p
          /\ size'[t] = IF Tail(todo[t]) = <<>> THEN 0 ELSE size[t]
      BY <1>2, <1>4 DEF TypeInv, TypeOK
    <3>2. Tail(todo[t]) \in { <<>>, <<"track">>, <<"untrack", "mcFree">>,
                              <<"mcFree">>, <<"mcFreeAsync">> }
      BY <1>1, BodyTails DEF Bodies, At
    <3>3. Tail(todo[t]) = <<"track">> => todo[t] = <<"mcMalloc", "track">>
      BY <1>1, BodyTails DEF Bodies, At
    <3>4. Tail(todo[t]) = <<"track">> => size[t] \in Sizes
      BY <3>3 DEF TypeInv, Locals
    <3>5. NoPtr # p
      BY PtrsAssumption
    <3> QED
      BY <2>2, <3>1, <3>2, <3>4, <3>5
  <2> QED
    BY <2>1, <2>2
<1> QED
  BY <1>3, <1>5, <1>6

LEMMA TypeInvInit == Init => TypeInv
BY CountAssumption DEF Init, TypeInv, TypeOK, Locals, Devices, AllocationStats,
                       Statuses, Bodies

LEMMA TypeInvStep == TypeInv /\ [Next]_vars => TypeInv'
<1> SUFFICES ASSUME TypeInv, [Next]_vars
             PROVE  TypeInv'
  OBVIOUS
<1> USE DEF TypeInv
<1>1. ASSUME NEW t \in Threads, NEW body, BeginMalloc(t, body),
             body \in { <<"mcMalloc", "track">>, <<"mcMallocAsync">> }
      PROVE  TypeInv'
  <2>1. TypeOK'
    BY <1>1 DEF BeginMalloc, TypeOK, Bodies
  <2>2. Locals'
    BY <1>1 DEF BeginMalloc, Idle, TypeOK, Locals
  <2> QED
    BY <2>1, <2>2
<1>2. ASSUME NEW t \in Threads, NEW p \in Ptrs, NEW body, BeginFree(t, p, body),
             body \in { <<"untrack", "mcFree">>, <<"untrack", "mcFreeAsync">>,
                       <<"streamSynchronize", "untrack", "mcFree">> },
             wait' \in [Threads -> Nat]
      PROVE  TypeInv'
  <2>1. TypeOK'
    BY <1>2 DEF BeginFree, TypeOK, Bodies
  <2>2. Locals'
    <3>1. /\ todo' = [todo EXCEPT ![t] = body]
          /\ ptr' = [ptr EXCEPT ![t] = p]
          /\ size' = size /\ p # NoPtr
      BY <1>2, PtrsAssumption DEF BeginFree
    <3>2. body \notin { <<>>, <<"mcMalloc", "track">>, <<"mcMallocAsync">> }
      BY <1>2, BodiesDiffer
    <3>3. body # <<"track">>
      BY <1>2
    <3> QED
      BY <3>1, <3>2, <3>3 DEF TypeOK, Locals
  <2> QED
    BY <2>1, <2>2
<1>3. ASSUME NEW t \in Threads, Malloc(t) PROVE TypeInv'
  BY <1>3, <1>1, BodiesBegin DEF Malloc
<1>4. ASSUME NEW t \in Threads, MallocAsync(t) PROVE TypeInv'
  BY <1>4, <1>1, BodiesBegin DEF MallocAsync
<1>5. ASSUME NEW t \in Threads, Free(t) PROVE TypeInv'
  BY <1>5, <1>2, BodiesBegin DEF Free, TypeOK
<1>6. ASSUME NEW t \in Threads, FreeAsync(t) PROVE TypeInv'
  <2>1. PICK p \in Ptrs : /\ BeginFree(t, p, FreeAsyncBody)
                          /\ wait' = [wait EXCEPT ![t] = WorkToAwait(p)]
    BY <1>6 DEF FreeAsync
  <2>2. block[p].dev \in Devices
    BY CountAssumption DEF TypeOK, Blocks, NoBlock, Devices
  <2>3. WorkToAwait(p) \in Nat
    BY <2>2 DEF WorkToAwait, TypeOK
  <2>4. wait' \in [Threads -> Nat]
    BY <2>1, <2>3 DEF TypeOK
  <2>5. FreeAsyncBody \in { <<"untrack", "mcFreeAsync">>,
                            <<"streamSynchronize", "untrack", "mcFree">> }
    BY BodiesBegin
  <2> QED
    BY <2>1, <2>4, <2>5, <1>2
<1>7. ASSUME NEW t \in Threads, SetDevice(t) PROVE TypeInv'
  BY <1>7 DEF SetDevice, TypeOK, Locals
<1>8. ASSUME NEW t \in Threads, ResetHigh(t) PROVE TypeInv'
  BY <1>8 DEF ResetHigh, TypeOK, AllocationStats, Locals
<1>9. ASSUME NEW t \in Threads, Launch(t) PROVE TypeInv'
  <2>1. PICK p \in held :
          queue' = [queue EXCEPT ![block[p].dev] =
                       Append(@, [kind |-> "kernel", ptr |-> p])]
    BY <1>9 DEF Launch
  <2>2. block[p].dev \in Devices /\ p \in Ptrs
    BY CountAssumption DEF TypeOK, Blocks, NoBlock, Devices
  <2>3. [kind |-> "kernel", ptr |-> p] \in Work
    BY <2>2 DEF Work
  <2>4. queue' \in [Devices -> Seq(Work)]
    BY <2>1, <2>2, <2>3 DEF TypeOK
  <2> QED
    BY <1>9, <2>4 DEF Launch, TypeOK, Locals
<1>10. ASSUME NEW t \in Threads, McMalloc(t) PROVE TypeInv'
  <2>1. PICK p \in Ptrs : Place(t, p, "sync") /\ Advance(t, p)
    BY <1>10 DEF McMalloc
  <2>2. size[t] \in Sizes
    BY <1>10, BodyTails DEF McMalloc, TypeOK, Locals
  <2>3. block' \in [Ptrs -> Blocks \cup {NoBlock}]
    BY <2>1, <2>2 DEF Place, TypeOK, Blocks
  <2> QED
    BY <1>10, <2>1, <2>3, AdvanceType DEF McMalloc, TypeOK
<1>11. ASSUME NEW t \in Threads, McMallocAsync(t) PROVE TypeInv'
  <2>1. PICK p \in Ptrs : /\ Place(t, p, "pool")
                          /\ held' = held \cup {p}
                          /\ Advance(t, p)
    BY <1>11 DEF McMallocAsync
  <2>2. size[t] \in Sizes
    BY <1>11, BodyTails DEF McMallocAsync, TypeOK, Locals
  <2>3. block' \in [Ptrs -> Blocks \cup {NoBlock}] /\ held' \subseteq Ptrs
    BY <2>1, <2>2 DEF Place, TypeOK, Blocks
  <2> QED
    BY <1>11, <2>1, <2>3, AdvanceType DEF McMallocAsync, TypeOK
<1>12. ASSUME NEW t \in Threads, OutOfMemory(t) PROVE TypeInv'
  BY <1>12 DEF OutOfMemory, TypeOK, Statuses, Locals
<1>13. ASSUME NEW t \in Threads, TrackAllocation(t) PROVE TypeInv'
  <2>1. ptr[t] \in Ptrs /\ size[t] \in Sizes /\ device[t] \in Devices
    <3>1. At(t, "track") /\ todo[t] \in Bodies
      BY <1>13 DEF TrackAllocation, TypeOK
    <3>2. todo[t] = <<"track">>
      BY <3>1, BodyTails
    <3>3. todo[t] \notin { <<>>, <<"mcMalloc", "track">>, <<"mcMallocAsync">> }
      BY <3>2, BodiesDiffer
    <3> QED
      BY <3>2, <3>3 DEF TypeOK, Locals
  <2>2. NewRecord(device[t], size[t]) \in AllocationRecords
    BY <2>1 DEF NewRecord, AllocationRecords
  <2>3. Grown(g_allocation_stats[device[t]], size[t]) \in AllocationStats
    BY <2>1, SizesAssumption, GrownType DEF TypeOK
  <2>4. /\ g_allocations' \in [Ptrs -> AllocationRecords \cup {NoRecord}]
        /\ g_allocation_stats' \in [Devices -> AllocationStats]
        /\ held' \subseteq Ptrs
        /\ Advance(t, ptr[t]) /\ At(t, "track")
        /\ UNCHANGED <<block, queue, device, wait, status>>
    BY <1>13, <2>1, <2>2, <2>3 DEF TrackAllocation, TypeOK
  <2> QED
    BY <2>1, <2>4, AdvanceType DEF TypeOK
<1>14. ASSUME NEW t \in Threads, NEW s, At(t, s),
              s \in {"untrack", "mcFree", "mcFreeAsync", "streamSynchronize"}
       PROVE  ptr[t] \in Ptrs
  <2>1. todo[t] \in { <<"streamSynchronize", "untrack", "mcFree">>,
                      <<"untrack", "mcFree">>, <<"mcFree">>,
                      <<"untrack", "mcFreeAsync">>, <<"mcFreeAsync">> }
    BY <1>14, BodyTails DEF TypeOK
  <2>2. todo[t] \notin { <<>>, <<"mcMalloc", "track">>, <<"mcMallocAsync">> }
    BY <2>1, BodiesDiffer
  <2> QED
    BY <2>2 DEF TypeOK, Locals
<1>15. ASSUME NEW t \in Threads, UntrackUnknown(t) PROVE TypeInv'
  <2>1. At(t, "untrack") /\ Advance(t, ptr[t]) /\ ptr[t] \in Ptrs
    BY <1>15, <1>14 DEF UntrackUnknown
  <2> QED
    BY <1>15, <2>1, AdvanceType DEF UntrackUnknown, TypeOK
<1>16. ASSUME NEW t \in Threads, UntrackAllocation(t) PROVE TypeInv'
  <2>1. /\ At(t, "untrack") /\ Advance(t, ptr[t]) /\ ptr[t] \in Ptrs
        /\ Recorded(ptr[t])
    BY <1>16, <1>14 DEF UntrackAllocation
  <2> DEFINE d == ChargedTo(t)
             n == g_allocations[ptr[t]].size
  <2>2. d \in Devices /\ n \in Nat
    BY <2>1, SizesAssumption DEF Recorded, TypeOK, AllocationRecords, ChargedTo
  <2>3. Shrunk(g_allocation_stats[d], n) \in AllocationStats
    BY <2>2, ShrunkType DEF TypeOK
  <2>4. /\ g_allocations' \in [Ptrs -> AllocationRecords \cup {NoRecord}]
        /\ g_allocation_stats' \in [Devices -> AllocationStats]
        /\ status' \in Statuses
        /\ UNCHANGED <<block, queue, held, device, wait>>
    BY <1>16, <2>2, <2>3 DEF UntrackAllocation, Erased, TypeOK, Statuses
  <2> QED
    BY <2>1, <2>4, AdvanceType DEF TypeOK
<1>17. ASSUME NEW t \in Threads, McFree(t) PROVE TypeInv'
  <2>1. At(t, "mcFree") /\ Advance(t, ptr[t]) /\ ptr[t] \in Ptrs
    BY <1>17, <1>14 DEF McFree
  <2> QED
    BY <1>17, <2>1, AdvanceType DEF McFree, Released, TypeOK
<1>18. ASSUME NEW t \in Threads, McFreeAsync(t) PROVE TypeInv'
  <2>1. At(t, "mcFreeAsync") /\ Advance(t, ptr[t]) /\ ptr[t] \in Ptrs
    BY <1>18, <1>14 DEF McFreeAsync
  <2>2. block[ptr[t]].dev \in Devices
    BY <2>1, CountAssumption DEF TypeOK, Blocks, NoBlock, Devices
  <2>3. [kind |-> "free", ptr |-> ptr[t]] \in Work
    BY <2>1 DEF Work
  <2>4. queue' \in [Devices -> Seq(Work)]
    BY <1>18, <2>2, <2>3 DEF McFreeAsync, TypeOK
  <2> QED
    BY <1>18, <2>1, <2>4, AdvanceType DEF McFreeAsync, TypeOK
<1>19. ASSUME NEW t \in Threads, StreamSynchronize(t) PROVE TypeInv'
  <2>1. At(t, "streamSynchronize") /\ Advance(t, ptr[t]) /\ ptr[t] \in Ptrs
    BY <1>19, <1>14 DEF StreamSynchronize
  <2> QED
    BY <1>19, <2>1, AdvanceType DEF StreamSynchronize, TypeOK
<1>20. ASSUME NEW d \in Devices, StreamRun(d) PROVE TypeInv'
  <2>1. Head(queue[d]) \in Work /\ Tail(queue[d]) \in Seq(Work)
    BY <1>20 DEF StreamRun, TypeOK
  <2>2. /\ block' \in [Ptrs -> Blocks \cup {NoBlock}]
        /\ queue' \in [Devices -> Seq(Work)]
    BY <1>20, <2>1 DEF StreamRun, TypeOK, Work
  <2>3. wait' \in [Threads -> Nat]
    BY <1>20 DEF StreamRun, TypeOK
  <2> QED
    BY <1>20, <2>2, <2>3 DEF StreamRun, TypeOK, Locals
<1>21. CASE UNCHANGED vars
  BY <1>21 DEF vars, TypeOK, Locals
<1> QED
  BY <1>3, <1>4, <1>5, <1>6, <1>7, <1>8, <1>9, <1>10, <1>11, <1>12, <1>13, <1>15,
     <1>16, <1>17, <1>18, <1>19, <1>20, <1>21 DEF Next, Call, Step

(* Every variable keeps its type in every behaviour, whatever the threads,   *)
(* addresses, sizes and devices, in both modes.                              *)
THEOREM TypeCorrect == Spec => []TypeOK
<1>1. Spec => []TypeInv
  BY TypeInvInit, TypeInvStep, PTL DEF Spec
<1>2. TypeInv => TypeOK
  BY DEF TypeInv
<1> QED
  BY <1>1, <1>2, PTL

-----------------------------------------------------------------------------
(* Who owns a block.                                                         *)

Inv == TypeInv /\ BlockInv

(* The part of the type invariant that the steps below use.                  *)
Types == /\ g_allocations \in [Ptrs -> AllocationRecords \cup {NoRecord}]
         /\ block \in [Ptrs -> Blocks \cup {NoBlock}]
         /\ queue \in [Devices -> Seq(Work)]
         /\ held \subseteq Ptrs
         /\ device \in [Threads -> Devices]
         /\ todo \in [Threads -> Bodies]
         /\ ptr \in [Threads -> Ptrs \cup {NoPtr}]
         /\ size \in [Threads -> Sizes \cup {0}]
         /\ wait \in [Threads -> Nat]

LEMMA InvTypes == Inv => Types
BY DEF Inv, TypeInv, TypeOK, Types

(* A call at one of these steps has an address.                              *)
LEMMA HasPtr ==
    ASSUME Inv, NEW t \in Threads,
           \/ todo[t] = <<"track">>
           \/ todo[t] = <<"streamSynchronize", "untrack", "mcFree">>
           \/ todo[t] = <<"untrack", "mcFree">>
           \/ todo[t] = <<"mcFree">>
           \/ todo[t] = <<"untrack", "mcFreeAsync">>
           \/ todo[t] = <<"mcFreeAsync">>
    PROVE  ptr[t] \in Ptrs /\ ptr[t] # NoPtr
<1>1. todo[t] \notin { <<>>, <<"mcMalloc", "track">>, <<"mcMallocAsync">> }
  BY BodiesDiffer
<1> QED
  BY <1>1, InvTypes DEF Inv, TypeInv, Locals, Types

LEMMA BlockKinds ==
    /\ \A b \in Blocks : b # NoBlock
    /\ \A r \in AllocationRecords : r # NoRecord
    /\ NoBlock.dev \in Devices
<1>1. \A b \in Blocks : b # NoBlock
  BY DEF Blocks, NoBlock
<1>2. \A r \in AllocationRecords : r # NoRecord
  <2> SUFFICES ASSUME NEW r \in AllocationRecords PROVE r.device_index # NoRecord.device_index
    OBVIOUS
  <2> QED
    BY DEF AllocationRecords, NoRecord, Devices
<1>3. NoBlock.dev \in Devices
  BY CountAssumption DEF NoBlock, Devices
<1> QED
  BY <1>1, <1>2, <1>3

-----------------------------------------------------------------------------
(* Work enters a stream at its end and leaves it at its head.                *)

LEMMA Appended ==
    ASSUME Types, NEW d \in Devices, NEW w \in Work,
           queue' = [queue EXCEPT ![d] = Append(@, w)]
    PROVE  /\ \A e \in Devices \ {d} : queue'[e] = queue[e]
           /\ Len(queue'[d]) = Len(queue[d]) + 1 /\ Len(queue[d]) \in Nat
           /\ \A i \in 1 .. Len(queue[d]) : queue'[d][i] = queue[d][i]
           /\ queue'[d][Len(queue[d]) + 1] = w
<1>1. queue'[d] = Append(queue[d], w) /\ queue[d] \in Seq(Work)
  BY DEF Types
<1>2. \A e \in Devices \ {d} : queue'[e] = queue[e]
  BY DEF Types
<1>3. Len(queue[d]) \in Nat
  BY <1>1, LenProperties
<1> QED
  BY <1>1, <1>2, <1>3, AppendProperties

LEMMA AppendedPlaces ==
    ASSUME Types, NEW d \in Devices, NEW w \in Work,
           queue' = [queue EXCEPT ![d] = Append(@, w)],
           NEW e \in Devices, NEW i \in 1 .. Len(queue'[e])
    PROVE  \/ i \in 1 .. Len(queue[e]) /\ queue'[e][i] = queue[e][i]
           \/ e = d /\ i = Len(queue[d]) + 1 /\ queue'[e][i] = w
<1>1. CASE e = d
  BY <1>1, Appended
<1>2. CASE e # d
  BY <1>2, Appended
<1> QED
  BY <1>1, <1>2

LEMMA AppendedFree ==
    ASSUME Types, NEW d \in Devices, NEW w \in Work,
           queue' = [queue EXCEPT ![d] = Append(@, w)],
           NEW p, QueuedFree(p)'
    PROVE  QueuedFree(p) \/ w = [kind |-> "free", ptr |-> p]
<1>1. PICK e \in Devices : \E i \in 1 .. Len(queue'[e]) :
         queue'[e][i] = [kind |-> "free", ptr |-> p]
  BY DEF QueuedFree
<1>2. PICK i \in 1 .. Len(queue'[e]) : queue'[e][i] = [kind |-> "free", ptr |-> p]
  BY <1>1
<1> QED
  BY <1>2, AppendedPlaces DEF QueuedFree

LEMMA AppendedPending ==
    ASSUME Types, NEW d \in Devices, NEW w \in Work,
           queue' = [queue EXCEPT ![d] = Append(@, w)],
           NEW p, Pending(p)'
    PROVE  Pending(p) \/ w.ptr = p
<1>1. PICK e \in Devices : \E i \in 1 .. Len(queue'[e]) : queue'[e][i].ptr = p
  BY DEF Pending
<1>2. PICK i \in 1 .. Len(queue'[e]) : queue'[e][i].ptr = p
  BY <1>1
<1> QED
  BY <1>2, AppendedPlaces DEF Pending

LEMMA Shifted ==
    ASSUME Types, NEW d \in Devices, queue[d] # <<>>,
           queue' = [queue EXCEPT ![d] = Tail(@)]
    PROVE  /\ \A e \in Devices \ {d} : queue'[e] = queue[e]
           /\ Len(queue'[d]) = Len(queue[d]) - 1
           /\ Len(queue[d]) \in Nat \ {0}
           /\ \A i \in 1 .. Len(queue'[d]) : queue'[d][i] = queue[d][i + 1]
           /\ Head(queue[d]) = queue[d][1]
<1>1. queue'[d] = Tail(queue[d]) /\ queue[d] \in Seq(Work)
  BY DEF Types
<1>2. \A e \in Devices \ {d} : queue'[e] = queue[e]
  BY DEF Types
<1>3. Len(queue[d]) \in Nat \ {0}
  BY <1>1, EmptySeq
<1>4. Head(queue[d]) = queue[d][1]
  BY <1>1
<1>5. /\ Len(Tail(queue[d])) = Len(queue[d]) - 1
      /\ \A i \in 1 .. Len(Tail(queue[d])) : Tail(queue[d])[i] = queue[d][i + 1]
  <2> DEFINE q == queue[d]
  <2>1. q \in Seq(Work) /\ q # <<>>
    BY <1>1
  <2> HIDE DEF q
  <2>2. /\ Len(Tail(q)) = Len(q) - 1
        /\ \A i \in 1 .. Len(Tail(q)) : Tail(q)[i] = q[i + 1]
    BY <2>1, HeadTailProperties
  <2> QED
    BY <2>2 DEF q
<1>6. /\ Len(queue'[d]) = Len(queue[d]) - 1
      /\ \A i \in 1 .. Len(queue'[d]) : queue'[d][i] = queue[d][i + 1]
  BY <1>1, <1>5
<1> QED
  BY <1>2, <1>3, <1>4, <1>6

LEMMA ShiftedPlaces ==
    ASSUME Types, NEW d \in Devices, queue[d] # <<>>,
           queue' = [queue EXCEPT ![d] = Tail(@)],
           NEW e \in Devices, NEW i \in 1 .. Len(queue'[e])
    PROVE  \/ e = d /\ i + 1 \in 2 .. Len(queue[e]) /\ queue'[e][i] = queue[e][i + 1]
           \/ e # d /\ i \in 1 .. Len(queue[e]) /\ queue'[e][i] = queue[e][i]
<1>0. /\ \A f \in Devices \ {d} : queue'[f] = queue[f]
      /\ Len(queue'[d]) = Len(queue[d]) - 1
      /\ Len(queue[d]) \in Nat \ {0}
      /\ \A k \in 1 .. Len(queue'[d]) : queue'[d][k] = queue[d][k + 1]
  BY Shifted
<1>1. CASE e = d
  <2>1. queue'[d][i] = queue[d][i + 1]
    BY <1>0, <1>1
  <2>2. i + 1 \in 2 .. Len(queue[d])
    BY <1>0, <1>1
  <2> QED
    BY <1>1, <2>1, <2>2
<1>2. CASE e # d
  BY <1>0, <1>2
<1> QED
  BY <1>1, <1>2

(* What leaves a stream was in it.                                           *)
LEMMA ShiftedFree ==
    ASSUME Types, NEW d \in Devices, queue[d] # <<>>,
           queue' = [queue EXCEPT ![d] = Tail(@)]
    PROVE  /\ \A p : QueuedFree(p)' => QueuedFree(p)
           /\ \A p : Pending(p)' => Pending(p)
<1>1. ASSUME NEW p, QueuedFree(p)' PROVE QueuedFree(p)
  <2>1. PICK e \in Devices : \E i \in 1 .. Len(queue'[e]) :
           queue'[e][i] = [kind |-> "free", ptr |-> p]
    BY <1>1 DEF QueuedFree
  <2>2. PICK i \in 1 .. Len(queue'[e]) : queue'[e][i] = [kind |-> "free", ptr |-> p]
    BY <2>1
  <2>3. \E j \in 1 .. Len(queue[e]) : queue[e][j] = queue'[e][i]
    BY ShiftedPlaces
  <2> QED
    BY <2>2, <2>3 DEF QueuedFree
<1>2. ASSUME NEW p, Pending(p)' PROVE Pending(p)
  <2>1. PICK e \in Devices : \E i \in 1 .. Len(queue'[e]) : queue'[e][i].ptr = p
    BY <1>2 DEF Pending
  <2>2. PICK i \in 1 .. Len(queue'[e]) : queue'[e][i].ptr = p
    BY <2>1
  <2>3. \E j \in 1 .. Len(queue[e]) : queue[e][j] = queue'[e][i]
    BY ShiftedPlaces
  <2> QED
    BY <2>2, <2>3 DEF Pending
<1> QED
  BY <1>1, <1>2

-----------------------------------------------------------------------------
(* Facts about one address.                                                  *)

(* An address at which no block lives is nobody's.                           *)
LEMMA FreshAddress ==
    ASSUME Inv, NEW p \in Ptrs, block[p] = NoBlock
    PROVE  /\ p \notin held /\ ~Pending(p) /\ ~QueuedFree(p) /\ ~Recorded(p)
           /\ \A t \in Threads : ptr[t] # p
<1>1. p \notin held /\ \A t \in Threads : ptr[t] # p
  BY PtrsAssumption DEF Inv, BlockInv, HolderOwns, CallOwns
<1>2. ~Pending(p)
  BY DEF Inv, BlockInv, PendingWorkIsLive, Pending
<1>3. ~QueuedFree(p)
  BY <1>2 DEF Pending, QueuedFree
<1>4. ~Recorded(p)
  <2>1. ASSUME Recorded(p) PROVE block[p].kind = "sync"
    <3>1. RecordsDescribeBlocks
      BY DEF Inv, BlockInv
    <3>2. block[p] = [kind |-> "sync", dev |-> g_allocations[p].device_index,
                      size |-> g_allocations[p].size]
      BY <2>1, <3>1 DEF RecordsDescribeBlocks
    <3> QED
      BY <3>2
  <2>2. block[p].kind # "sync"
    BY DEF NoBlock
  <2> QED
    BY <2>1, <2>2
<1> QED
  BY <1>1, <1>2, <1>3, <1>4

(* What is known of the address of a call.                                   *)
LEMMA OwnAddress ==
    ASSUME Inv, NEW t \in Threads, ptr[t] # NoPtr
    PROVE  /\ ptr[t] \in Ptrs /\ block[ptr[t]] \in Blocks
           /\ ptr[t] \notin held /\ ~QueuedFree(ptr[t])
           /\ block[ptr[t]].dev \in Devices
           /\ \A u \in Threads \ {t} : ptr[u] # ptr[t]
<1>1. ptr[t] \in Ptrs /\ block \in [Ptrs -> Blocks \cup {NoBlock}]
  BY InvTypes DEF Types
<1>2. block[ptr[t]] \in Blocks
  BY <1>1 DEF Inv, BlockInv, CallOwns
<1> QED
  BY <1>1, <1>2 DEF Inv, BlockInv, CallOwns, Blocks

(* A step of thread t changes its own locals only.                           *)
LEMMA Advanced ==
    ASSUME Inv, NEW t \in Threads, NEW p, Advance(t, p)
    PROVE  /\ \A u \in Threads \ {t} : /\ todo'[u] = todo[u] /\ ptr'[u] = ptr[u]
                                       /\ size'[u] = size[u]
           /\ todo'[t] = Tail(todo[t])
           /\ Tail(todo[t]) = <<>> => ptr'[t] = NoPtr
           /\ Tail(todo[t]) # <<>> => ptr'[t] = p /\ size'[t] = size[t]
BY InvTypes DEF Types, Advance

-----------------------------------------------------------------------------
(* Each action keeps the invariant.                                          *)

(* Actions that are about neither blocks nor addresses.                      *)
LEMMA OthersKeep ==
    ASSUME Inv, UNCHANGED <<g_allocations, block, queue, held, ptr, todo, wait>>,
           \A t \in Threads : todo[t] # <<>> => device'[t] = device[t] /\ size'[t] = size[t]
    PROVE  BlockInv'
<1>1. CallOwns' /\ HolderOwns'
  BY DEF Inv, BlockInv, CallOwns, HolderOwns, QueuedFree
<1>2. PendingWorkIsLive' /\ FreeIsLast' /\ Drained'
  BY DEF Inv, BlockInv, PendingWorkIsLive, FreeIsLast, Drained, Pending
<1>3. RecordsDescribeBlocks' /\ OldBlock'
  BY DEF Inv, BlockInv, RecordsDescribeBlocks, OldBlock, Recorded, QueuedFree
<1>4. NewBlock'
  <2>1. <<"track">> # <<>>
    OBVIOUS
  <2> QED
    BY <2>1 DEF Inv, BlockInv, NewBlock, Recorded
<1> QED
  BY <1>1, <1>2, <1>3, <1>4 DEF BlockInv

LEMMA BeginMallocKeeps ==
    ASSUME Inv, NEW t \in Threads, NEW body, BeginMalloc(t, body),
           body \in { <<"mcMalloc", "track">>, <<"mcMallocAsync">> }
    PROVE  BlockInv'
<1>1. /\ UNCHANGED <<g_allocations, block, queue, held, device, ptr, wait>>
      /\ todo'[t] = body
      /\ \A u \in Threads \ {t} : todo'[u] = todo[u] /\ size'[u] = size[u]
  BY InvTypes DEF BeginMalloc, Types
<1>2. body \notin { <<"track">>, <<"streamSynchronize", "untrack", "mcFree">>,
                    <<"untrack", "mcFree">>, <<"mcFree">>, <<"mcFreeAsync">> }
  BY BodiesDiffer
<1>3. CallOwns' /\ HolderOwns'
  BY <1>1 DEF Inv, BlockInv, CallOwns, HolderOwns, QueuedFree
<1>4. PendingWorkIsLive' /\ FreeIsLast'
  BY <1>1 DEF Inv, BlockInv, PendingWorkIsLive, FreeIsLast
<1>5. Drained'
  BY <1>1, <1>2 DEF Inv, BlockInv, Drained, Pending
<1>6. RecordsDescribeBlocks' /\ OldBlock'
  BY <1>1, <1>2 DEF Inv, BlockInv, RecordsDescribeBlocks, OldBlock, Recorded, QueuedFree
<1>7. NewBlock'
  BY <1>1, <1>2 DEF Inv, BlockInv, NewBlock, Recorded
<1> QED
  BY <1>3, <1>4, <1>5, <1>6, <1>7 DEF BlockInv

LEMMA BeginFreeKeeps ==
    ASSUME Inv, NEW t \in Threads, NEW p \in Ptrs, NEW body, BeginFree(t, p, body),
           \/ /\ body = <<"untrack", "mcFree">>
              /\ ~Pending(p) /\ wait' = wait
           \/ /\ body = <<"streamSynchronize", "untrack", "mcFree">>
              /\ wait' = [wait EXCEPT ![t] = Len(queue[block[p].dev])]
           \/ /\ body = <<"untrack", "mcFreeAsync">>
              /\ wait' = [wait EXCEPT ![t] = 0]
    PROVE  BlockInv'
<1>1. /\ UNCHANGED <<g_allocations, block, queue, device, size>>
      /\ p \in held /\ held' = held \ {p}
      /\ todo'[t] = body /\ ptr'[t] = p
      /\ \A u \in Threads \ {t} : todo'[u] = todo[u] /\ ptr'[u] = ptr[u] /\ wait'[u] = wait[u]
  BY InvTypes DEF BeginFree, Types
<1>2. body # <<"track">> /\ body # <<"mcFree">> /\ body # <<"mcFreeAsync">>
  OBVIOUS
<1>3. CallOwns' /\ HolderOwns'
  <2>1. \A q : QueuedFree(q)' <=> QueuedFree(q)
    BY <1>1 DEF QueuedFree
  <2>2. /\ block[p] # NoBlock /\ ~QueuedFree(p) /\ p # NoPtr
        /\ \A u \in Threads : ptr[u] # p
    BY <1>1, PtrsAssumption DEF Inv, BlockInv, HolderOwns, CallOwns
  <2>3. HolderOwns'
    BY <1>1, <2>1 DEF Inv, BlockInv, HolderOwns
  <2>4. CallOwns'
    <3> SUFFICES ASSUME NEW u \in Threads, ptr'[u] # NoPtr
                 PROVE  /\ block[ptr'[u]] # NoBlock
                        /\ ptr'[u] \notin held'
                        /\ ~QueuedFree(ptr'[u])
                        /\ \A v \in Threads \ {u} : ptr'[v] # ptr'[u]
      BY <1>1 DEF CallOwns, QueuedFree
    <3>1. CASE u = t
      BY <1>1, <2>2, <3>1
    <3>2. CASE u # t
      BY <1>1, <2>2, <3>2 DEF Inv, BlockInv, CallOwns
    <3> QED
      BY <3>1, <3>2
  <2> QED
    BY <2>3, <2>4
<1>4. PendingWorkIsLive' /\ FreeIsLast'
  BY <1>1 DEF Inv, BlockInv, PendingWorkIsLive, FreeIsLast
<1>5. Drained'
  <2> SUFFICES ASSUME NEW u \in Threads
               PROVE  /\ todo'[u] \in { <<"mcFree">>, <<"untrack", "mcFree">> } =>
                            ~Pending(ptr'[u])
                      /\ todo'[u] = <<"streamSynchronize", "untrack", "mcFree">> =>
                            \A i \in 1 .. Len(queue[block[ptr'[u]].dev]) :
                               queue[block[ptr'[u]].dev][i].ptr = ptr'[u] => i <= wait'[u]
    BY <1>1 DEF Drained, Pending
  <2>1. CASE u # t
    BY <1>1, <2>1 DEF Inv, BlockInv, Drained
  <2>2. CASE u = t /\ body = <<"untrack", "mcFree">>
    BY <1>1, <2>2
  <2>3. CASE u = t /\ body = <<"streamSynchronize", "untrack", "mcFree">>
    <3>1. wait'[t] = Len(queue[block[p].dev])
      BY <2>3, InvTypes DEF Types
    <3> QED
      BY <1>1, <2>3, <3>1
  <2>4. CASE u = t /\ body = <<"untrack", "mcFreeAsync">>
    BY <1>1, <2>4
  <2> QED
    BY <2>1, <2>2, <2>3, <2>4
<1>6. RecordsDescribeBlocks' /\ OldBlock'
  BY <1>1, <1>2 DEF Inv, BlockInv, RecordsDescribeBlocks, OldBlock, Recorded, QueuedFree
<1>7. NewBlock'
  BY <1>1, <1>2 DEF Inv, BlockInv, NewBlock, Recorded
<1> QED
  BY <1>3, <1>4, <1>5, <1>6, <1>7 DEF BlockInv

LEMMA LaunchKeeps ==
    ASSUME Inv, NEW t \in Threads, Launch(t)
    PROVE  BlockInv'
<1>1. PICK p \in held : queue' = [queue EXCEPT ![block[p].dev] =
                                     Append(@, [kind |-> "kernel", ptr |-> p])]
  BY DEF Launch
<1> DEFINE d == block[p].dev
           w == [kind |-> "kernel", ptr |-> p]
<1>2. UNCHANGED <<g_allocations, block, held, device, todo, ptr, size, wait>>
  BY DEF Launch
<1>3. /\ p \in Ptrs /\ d \in Devices /\ w \in Work /\ Types
      /\ block[p] # NoBlock /\ ~QueuedFree(p)
      /\ w.ptr = p /\ w.kind # "free"
      /\ \A u \in Threads : ptr[u] # NoPtr => ptr[u] # p
  BY InvTypes, BlockKinds
     DEF Types, Work, Blocks, Inv, BlockInv, HolderOwns, CallOwns
<1> HIDE DEF d, w
<1>4. queue' = [queue EXCEPT ![d] = Append(@, w)]
  BY <1>1 DEF d, w
<1>5. \A e \in Devices : \A i \in 1 .. Len(queue'[e]) :
         \/ i \in 1 .. Len(queue[e]) /\ queue'[e][i] = queue[e][i]
         \/ e = d /\ i = Len(queue[d]) + 1 /\ queue'[e][i] = w
  BY <1>3, <1>4, AppendedPlaces
<1>6. /\ \A q : QueuedFree(q)' => QueuedFree(q)
      /\ \A q : Pending(q)' => Pending(q) \/ q = p
  <2>1. ASSUME NEW q, QueuedFree(q)' PROVE QueuedFree(q)
    <3>1. w # [kind |-> "free", ptr |-> q]
      BY <1>3
    <3> QED
      BY <1>3, <1>4, <2>1, <3>1, AppendedFree
  <2>2. ASSUME NEW q, Pending(q)' PROVE Pending(q) \/ q = p
    BY <1>3, <1>4, <2>2, AppendedPending
  <2> QED
    BY <2>1, <2>2
<1>7. CallOwns' /\ HolderOwns'
  BY <1>2, <1>6 DEF Inv, BlockInv, CallOwns, HolderOwns
<1>8. PendingWorkIsLive'
  BY <1>2, <1>3, <1>5 DEF Inv, BlockInv, PendingWorkIsLive, d
<1>9. FreeIsLast'
  <2> SUFFICES ASSUME NEW e \in Devices, NEW i \in 1 .. Len(queue'[e]),
                      NEW j \in 1 .. Len(queue'[e]), i < j, queue'[e][i].kind = "free"
               PROVE  queue'[e][j].ptr # queue'[e][i].ptr
    BY DEF FreeIsLast
  <2>1. i \in 1 .. Len(queue[e]) /\ queue'[e][i] = queue[e][i]
    BY <1>3, <1>5
  <2>2. CASE j \in 1 .. Len(queue[e]) /\ queue'[e][j] = queue[e][j]
    BY <2>1, <2>2 DEF Inv, BlockInv, FreeIsLast
  <2>3. CASE queue'[e][j] = w
    <3>1. queue[e][i] \in Work
      BY <1>3, <2>1 DEF Types
    <3>2. queue[e][i] = [kind |-> "free", ptr |-> queue[e][i].ptr]
      BY <2>1, <3>1 DEF Work
    <3>3. QueuedFree(queue[e][i].ptr)
      BY <2>1, <3>2 DEF QueuedFree
    <3> QED
      BY <1>3, <2>1, <2>3, <3>3
  <2> QED
    BY <1>5, <2>2, <2>3
<1>10. Drained'
  <2> SUFFICES ASSUME NEW u \in Threads
               PROVE  /\ todo[u] \in { <<"mcFree">>, <<"untrack", "mcFree">> } =>
                            ~Pending(ptr[u])'
                      /\ todo[u] = <<"streamSynchronize", "untrack", "mcFree">> =>
                            \A i \in 1 .. Len(queue'[block[ptr[u]].dev]) :
                               queue'[block[ptr[u]].dev][i].ptr = ptr[u] => i <= wait[u]
    BY <1>2 DEF Drained, Pending
  <2>1. ASSUME todo[u] \in { <<"mcFree">>, <<"untrack", "mcFree">> }
        PROVE  ~Pending(ptr[u])'
    <3>1. ptr[u] # NoPtr
      BY <2>1, HasPtr
    <3> QED
      BY <1>2, <1>3, <1>6, <2>1, <3>1 DEF Inv, BlockInv, Drained
  <2>2. ASSUME todo[u] = <<"streamSynchronize", "untrack", "mcFree">>,
               NEW i \in 1 .. Len(queue'[block[ptr[u]].dev]),
               queue'[block[ptr[u]].dev][i].ptr = ptr[u]
        PROVE  i <= wait[u]
    <3>1. ptr[u] # NoPtr /\ block[ptr[u]].dev \in Devices
      BY <2>2, HasPtr, OwnAddress
    <3>2. i \in 1 .. Len(queue[block[ptr[u]].dev])
          /\ queue[block[ptr[u]].dev][i].ptr = ptr[u]
      BY <1>3, <1>5, <2>2, <3>1
    <3> QED
      BY <2>2, <3>2 DEF Inv, BlockInv, Drained
  <2> QED
    BY <2>1, <2>2
<1>11. RecordsDescribeBlocks' /\ OldBlock' /\ NewBlock'
  BY <1>2, <1>6 DEF Inv, BlockInv, RecordsDescribeBlocks, OldBlock, NewBlock, Recorded
<1> QED
  BY <1>7, <1>8, <1>9, <1>10, <1>11 DEF BlockInv

(* Both ways of getting a block: at a fresh address.                         *)
LEMMA PlaceKeeps ==
    ASSUME Inv, NEW t \in Threads, NEW p \in Ptrs, NEW kind, Place(t, p, kind),
           Advance(t, p), UNCHANGED <<g_allocations, queue, device, wait>>,
           \/ /\ kind = "sync" /\ Tail(todo[t]) = <<"track">> /\ held' = held
           \/ /\ kind = "pool" /\ Tail(todo[t]) = <<>> /\ held' = held \cup {p}
    PROVE  BlockInv'
<1> DEFINE new == [kind |-> kind, dev |-> device[t], size |-> size[t]]
<1>1. /\ block' = [block EXCEPT ![p] = new] /\ block[p] = NoBlock
      /\ new # NoBlock
  <2>1. kind # "none"
    OBVIOUS
  <2>2. new.kind = kind /\ NoBlock.kind = "none"
    BY DEF NoBlock
  <2>3. new # NoBlock
    BY <2>1, <2>2
  <2> QED
    BY <2>3 DEF Place
<1>2. /\ p \notin held /\ ~Pending(p) /\ ~QueuedFree(p) /\ ~Recorded(p)
      /\ \A u \in Threads : ptr[u] # p
  BY <1>1, FreshAddress
<1>3. /\ \A u \in Threads \ {t} : /\ todo'[u] = todo[u] /\ ptr'[u] = ptr[u]
                                  /\ size'[u] = size[u]
      /\ todo'[t] = Tail(todo[t])
      /\ Tail(todo[t]) = <<>> => ptr'[t] = NoPtr
      /\ Tail(todo[t]) # <<>> => ptr'[t] = p /\ size'[t] = size[t]
  BY Advanced
<1>4. /\ block'[p] = new
      /\ \A q : q # p => block'[q] = block[q]
  BY <1>1, InvTypes DEF Types
<1>5. /\ \A q : QueuedFree(q)' <=> QueuedFree(q)
      /\ \A q : Pending(q)' <=> Pending(q)
      /\ \A q : Recorded(q)' <=> Recorded(q)
  BY DEF QueuedFree, Pending, Recorded
<1>6. p # NoPtr /\ held' \subseteq held \cup {p}
  BY PtrsAssumption
<1>7. /\ ptr'[t] \in {p, NoPtr}
      /\ todo'[t] \in { <<"track">>, <<>> }
      /\ todo'[t] \notin { <<"mcFree">>, <<"mcFreeAsync">>, <<"untrack", "mcFree">>,
                           <<"streamSynchronize", "untrack", "mcFree">> }
      /\ todo'[t] = <<"track">> => kind = "sync" /\ ptr'[t] = p /\ size'[t] = size[t]
      /\ ptr'[t] = p => p \notin held'
  <2>1. <<"track">> # <<>>
    OBVIOUS
  <2>2. /\ <<"mcFree">> # <<>> /\ <<"mcFreeAsync">> # <<>>
        /\ <<"untrack", "mcFree">> # <<>>
        /\ <<"streamSynchronize", "untrack", "mcFree">> # <<>>
    OBVIOUS
  <2>3. /\ <<"mcFree">> # <<"track">> /\ <<"mcFreeAsync">> # <<"track">>
        /\ <<"untrack", "mcFree">> # <<"track">>
        /\ <<"streamSynchronize", "untrack", "mcFree">> # <<"track">>
    OBVIOUS
  <2> QED
    BY <1>2, <1>3, <1>6, <2>1, <2>2, <2>3
<1> HIDE DEF new
<1>8. HolderOwns'
  BY <1>1, <1>2, <1>4, <1>5, <1>6 DEF Inv, BlockInv, HolderOwns
<1>9. CallOwns'
  <2> SUFFICES ASSUME NEW u \in Threads, ptr'[u] # NoPtr
               PROVE  /\ block'[ptr'[u]] # NoBlock
                      /\ ptr'[u] \notin held'
                      /\ ~QueuedFree(ptr'[u])
                      /\ \A v \in Threads \ {u} : ptr'[v] # ptr'[u]
    BY DEF CallOwns, QueuedFree
  <2>1. CASE u = t
    BY <1>1, <1>2, <1>3, <1>4, <1>7, <2>1
  <2>2. CASE u # t
    BY <1>2, <1>3, <1>4, <1>6, <1>7, <2>2 DEF Inv, BlockInv, CallOwns
  <2> QED
    BY <2>1, <2>2
<1>10. PendingWorkIsLive' /\ FreeIsLast'
  BY <1>2, <1>4 DEF Inv, BlockInv, PendingWorkIsLive, FreeIsLast, Pending
<1>11. Drained'
  <2> SUFFICES ASSUME NEW u \in Threads
               PROVE  /\ todo'[u] \in { <<"mcFree">>, <<"untrack", "mcFree">> } =>
                            ~Pending(ptr'[u])
                      /\ todo'[u] = <<"streamSynchronize", "untrack", "mcFree">> =>
                            \A i \in 1 .. Len(queue[block'[ptr'[u]].dev]) :
                               queue[block'[ptr'[u]].dev][i].ptr = ptr'[u] => i <= wait[u]
    BY DEF Drained, Pending
  <2>1. CASE u = t
    BY <1>7, <2>1
  <2>2. CASE u # t
    BY <1>2, <1>3, <1>4, <2>2 DEF Inv, BlockInv, Drained
  <2> QED
    BY <2>1, <2>2
<1>12. RecordsDescribeBlocks'
  BY <1>2, <1>4, <1>5 DEF Inv, BlockInv, RecordsDescribeBlocks
<1>13. NewBlock'
  <2> SUFFICES ASSUME NEW u \in Threads, todo'[u] = <<"track">>
               PROVE  /\ block'[ptr'[u]] =
                            [kind |-> "sync", dev |-> device[u], size |-> size'[u]]
                      /\ ~Recorded(ptr'[u])
    BY <1>5 DEF NewBlock, Recorded
  <2>1. CASE u = t
    BY <1>2, <1>4, <1>7, <2>1 DEF new
  <2>2. CASE u # t
    BY <1>2, <1>3, <1>4, <2>2 DEF Inv, BlockInv, NewBlock
  <2> QED
    BY <2>1, <2>2
<1>14. OldBlock'
  BY <1>3, <1>5, <1>7 DEF Inv, BlockInv, OldBlock, Recorded
<1> QED
  BY <1>8, <1>9, <1>10, <1>11, <1>12, <1>13, <1>14 DEF BlockInv

LEMMA TrackKeeps ==
    ASSUME Inv, NEW t \in Threads, TrackAllocation(t)
    PROVE  BlockInv'
<1> DEFINE p == ptr[t]
<1>1. todo[t] = <<"track">> /\ Tail(todo[t]) = <<>>
  BY BodyTails, InvTypes DEF TrackAllocation, Types
<1>2. p \in Ptrs /\ p # NoPtr
  BY <1>1, HasPtr
<1>3. /\ block[p] \in Blocks /\ p \notin held /\ ~QueuedFree(p)
      /\ \A u \in Threads \ {t} : ptr[u] # p
  BY <1>2, OwnAddress
<1>4. /\ block[p] = [kind |-> "sync", dev |-> device[t], size |-> size[t]]
      /\ ~Recorded(p)
  BY <1>1 DEF Inv, BlockInv, NewBlock
<1>5. /\ UNCHANGED <<block, queue, device, wait>> /\ held' = held \cup {p}
      /\ \A u \in Threads \ {t} : /\ todo'[u] = todo[u] /\ ptr'[u] = ptr[u]
                                  /\ size'[u] = size[u]
      /\ todo'[t] = <<>> /\ ptr'[t] = NoPtr
  BY <1>1, Advanced DEF TrackAllocation
<1>6. /\ g_allocations'[p] = [device_index |-> device[t], size |-> size[t]]
      /\ \A q \in Ptrs : q # p => g_allocations'[q] = g_allocations[q]
  BY <1>2, InvTypes DEF TrackAllocation, NewRecord, Types
<1>7. /\ \A q : QueuedFree(q)' <=> QueuedFree(q)
      /\ \A q : Pending(q)' <=> Pending(q)
  BY <1>5 DEF QueuedFree, Pending
<1>8. \A q \in Ptrs : q # p => (Recorded(q)' <=> Recorded(q))
  BY <1>6 DEF Recorded
<1>9. block[p] # NoBlock
  BY <1>3, BlockKinds
<1>10. /\ todo'[t] # <<"track">> /\ todo'[t] # <<"mcFree">>
       /\ todo'[t] # <<"mcFreeAsync">> /\ todo'[t] # <<"untrack", "mcFree">>
       /\ todo'[t] # <<"streamSynchronize", "untrack", "mcFree">>
  BY <1>5
<1> HIDE DEF p
<1>11. HolderOwns'
  BY <1>3, <1>5, <1>7, <1>9 DEF Inv, BlockInv, HolderOwns
<1>12. CallOwns'
  BY <1>3, <1>5, <1>7 DEF Inv, BlockInv, CallOwns, p
<1>13. PendingWorkIsLive' /\ FreeIsLast'
  BY <1>5 DEF Inv, BlockInv, PendingWorkIsLive, FreeIsLast
<1>14. Drained'
  BY <1>5, <1>10 DEF Inv, BlockInv, Drained, Pending
<1>15. RecordsDescribeBlocks'
  <2> SUFFICES ASSUME NEW q \in Ptrs, Recorded(q)'
               PROVE  block[q] = [kind |-> "sync",
                                  dev |-> g_allocations'[q].device_index,
                                  size |-> g_allocations'[q].size]
    BY <1>5 DEF RecordsDescribeBlocks
  <2>1. CASE q = p
    BY <1>4, <1>6, <2>1
  <2>2. CASE q # p
    <3>1. Recorded(q) /\ g_allocations'[q] = g_allocations[q]
      BY <1>6, <1>8, <2>2
    <3> QED
      BY <3>1 DEF Inv, BlockInv, RecordsDescribeBlocks
  <2> QED
    BY <2>1, <2>2
<1>16. \A u \in Threads :
          todo'[u] \in { <<"track">>, <<"mcFree">>, <<"mcFreeAsync">> } =>
             /\ u # t /\ todo[u] = todo'[u] /\ ptr'[u] = ptr[u] /\ ptr[u] # p
             /\ ptr[u] \in Ptrs /\ size'[u] = size[u]
  BY <1>3, <1>5, <1>10, HasPtr
<1>17. NewBlock'
  <2> SUFFICES ASSUME NEW u \in Threads, todo'[u] = <<"track">>
               PROVE  /\ block[ptr'[u]] =
                            [kind |-> "sync", dev |-> device[u], size |-> size'[u]]
                      /\ ~Recorded(ptr[u])'
    BY <1>5, <1>16 DEF NewBlock, Recorded
  <2> QED
    BY <1>8, <1>16 DEF Inv, BlockInv, NewBlock
<1>18. OldBlock'
  <2>1. ASSUME NEW u \in Threads, todo'[u] \in { <<"mcFree">>, <<"mcFreeAsync">> }
        PROVE  ~Recorded(ptr[u])'
    BY <1>8, <1>16, <2>1 DEF Inv, BlockInv, OldBlock
  <2>2. ASSUME NEW q \in Ptrs, QueuedFree(q)' PROVE ~Recorded(q)'
    BY <1>3, <1>7, <1>8, <2>2 DEF Inv, BlockInv, OldBlock
  <2> QED
    BY <1>16, <2>1, <2>2 DEF OldBlock, Recorded
<1> QED
  BY <1>11, <1>12, <1>13, <1>14, <1>15, <1>17, <1>18 DEF BlockInv

(* Both outcomes of UntrackAllocation: the record, if any, is gone.          *)
LEMMA UntrackKeeps ==
    ASSUME Inv, NEW t \in Threads, At(t, "untrack"), Advance(t, ptr[t]),
           UNCHANGED <<block, queue, held, device, wait>>,
           \/ g_allocations' = g_allocations /\ ~Recorded(ptr[t])
           \/ g_allocations' = [g_allocations EXCEPT ![ptr[t]] = NoRecord]
    PROVE  BlockInv'
<1>1. \/ todo[t] = <<"untrack", "mcFree">> /\ Tail(todo[t]) = <<"mcFree">>
      \/ todo[t] = <<"untrack", "mcFreeAsync">> /\ Tail(todo[t]) = <<"mcFreeAsync">>
  BY BodyTails, InvTypes DEF Types
<1>2. ptr[t] \in Ptrs /\ ptr[t] # NoPtr /\ Tail(todo[t]) # <<>>
  <2>1. <<"mcFree">> # <<>> /\ <<"mcFreeAsync">> # <<>>
    OBVIOUS
  <2> QED
    BY <1>1, <2>1, HasPtr
<1>3. /\ \A u \in Threads \ {t} : /\ todo'[u] = todo[u] /\ ptr'[u] = ptr[u]
                                  /\ size'[u] = size[u]
      /\ todo'[t] = Tail(todo[t]) /\ ptr'[t] = ptr[t]
  BY <1>2, Advanced
<1>4. \A u \in Threads : ptr'[u] = ptr[u]
  BY <1>3
<1>5. \A q \in Ptrs : Recorded(q)' => /\ q # ptr[t] /\ Recorded(q)
                                      /\ g_allocations'[q] = g_allocations[q]
  <2> SUFFICES ASSUME NEW q \in Ptrs, g_allocations'[q] # NoRecord
               PROVE  /\ q # ptr[t] /\ g_allocations[q] # NoRecord
                      /\ g_allocations'[q] = g_allocations[q]
    BY DEF Recorded
  <2>1. g_allocations'[ptr[t]] = NoRecord
    BY <1>2, InvTypes DEF Recorded, Types
  <2>2. \A r \in Ptrs : r # ptr[t] => g_allocations'[r] = g_allocations[r]
    BY InvTypes DEF Types
  <2> QED
    BY <2>1, <2>2
<1>6. /\ \A q : QueuedFree(q)' <=> QueuedFree(q)
      /\ \A q : Pending(q)' <=> Pending(q)
  BY DEF QueuedFree, Pending
<1>7. CallOwns' /\ HolderOwns'
  BY <1>4, <1>6 DEF Inv, BlockInv, CallOwns, HolderOwns
<1>8. PendingWorkIsLive' /\ FreeIsLast'
  BY DEF Inv, BlockInv, PendingWorkIsLive, FreeIsLast
<1>9. /\ todo'[t] \in { <<"mcFree">>, <<"mcFreeAsync">> }
      /\ todo'[t] # <<"track">>
      /\ todo'[t] # <<"untrack", "mcFree">>
      /\ todo'[t] # <<"streamSynchronize", "untrack", "mcFree">>
      /\ todo'[t] = <<"mcFree">> => todo[t] = <<"untrack", "mcFree">>
  <2>1. /\ <<"mcFree">> # <<"track">> /\ <<"mcFreeAsync">> # <<"track">>
        /\ <<"mcFree">> # <<"mcFreeAsync">>
    OBVIOUS
  <2>2. /\ <<"untrack", "mcFree">> \notin { <<"mcFree">>, <<"mcFreeAsync">> }
        /\ <<"streamSynchronize", "untrack", "mcFree">> \notin
              { <<"mcFree">>, <<"mcFreeAsync">> }
    OBVIOUS
  <2>3. todo'[t] = <<"mcFree">> \/ todo'[t] = <<"mcFreeAsync">>
    BY <1>1, <1>3
  <2>4. todo'[t] = <<"mcFree">> => todo[t] = <<"untrack", "mcFree">>
    BY <1>1, <1>3, <2>1
  <2> QED
    BY <2>1, <2>2, <2>3, <2>4
<1>10. Drained'
  <2> SUFFICES ASSUME NEW u \in Threads
               PROVE  /\ todo'[u] \in { <<"mcFree">>, <<"untrack", "mcFree">> } =>
                            ~Pending(ptr[u])
                      /\ todo'[u] = <<"streamSynchronize", "untrack", "mcFree">> =>
                            \A i \in 1 .. Len(queue[block[ptr[u]].dev]) :
                               queue[block[ptr[u]].dev][i].ptr = ptr[u] => i <= wait[u]
    BY <1>4 DEF Drained, Pending
  <2>1. CASE u = t
    BY <1>9, <2>1 DEF Inv, BlockInv, Drained
  <2>2. CASE u # t
    BY <1>3, <2>2 DEF Inv, BlockInv, Drained
  <2> QED
    BY <2>1, <2>2
<1>11. RecordsDescribeBlocks'
  <2> SUFFICES ASSUME NEW q \in Ptrs, Recorded(q)'
               PROVE  block[q] = [kind |-> "sync",
                                  dev |-> g_allocations'[q].device_index,
                                  size |-> g_allocations'[q].size]
    BY DEF RecordsDescribeBlocks
  <2> QED
    BY <1>5 DEF Inv, BlockInv, RecordsDescribeBlocks
<1>12. NewBlock'
  <2> SUFFICES ASSUME NEW u \in Threads, todo'[u] = <<"track">>
               PROVE  /\ block[ptr[u]] =
                            [kind |-> "sync", dev |-> device[u], size |-> size'[u]]
                      /\ ~Recorded(ptr[u])'
    BY <1>4 DEF NewBlock, Recorded
  <2>1. u # t /\ todo[u] = <<"track">> /\ size'[u] = size[u]
    BY <1>3, <1>9
  <2>2. ptr[u] \in Ptrs
    BY <2>1, HasPtr
  <2> QED
    BY <1>4, <1>5, <2>1, <2>2 DEF Inv, BlockInv, NewBlock
<1>13. OldBlock'
  <2>1. ASSUME NEW u \in Threads, todo'[u] \in { <<"mcFree">>, <<"mcFreeAsync">> }
        PROVE  ~Recorded(ptr[u])'
    <3>1. CASE u = t
      BY <1>2, <1>4, <1>5, <3>1
    <3>2. CASE u # t
      <4>1. todo[u] \in { <<"mcFree">>, <<"mcFreeAsync">> }
        BY <1>3, <2>1, <3>2
      <4>2. ptr[u] \in Ptrs
        BY <4>1, HasPtr
      <4> QED
        BY <1>4, <1>5, <4>1, <4>2 DEF Inv, BlockInv, OldBlock
    <3> QED
      BY <3>1, <3>2
  <2>2. ASSUME NEW q \in Ptrs, QueuedFree(q)' PROVE ~Recorded(q)'
    BY <1>5, <1>6, <2>2 DEF Inv, BlockInv, OldBlock
  <2> QED
    BY <1>4, <2>1, <2>2 DEF OldBlock, Recorded
<1> QED
  BY <1>7, <1>8, <1>10, <1>11, <1>12, <1>13 DEF BlockInv

LEMMA McFreeKeeps ==
    ASSUME Inv, NEW t \in Threads, McFree(t)
    PROVE  BlockInv'
<1> DEFINE p == ptr[t]
<1>1. todo[t] = <<"mcFree">> /\ Tail(todo[t]) = <<>>
  BY BodyTails, InvTypes DEF McFree, Types
<1>2. p \in Ptrs /\ p # NoPtr
  BY <1>1, HasPtr
<1>3. /\ p \notin held /\ ~QueuedFree(p) /\ ~Pending(p) /\ ~Recorded(p)
      /\ \A u \in Threads \ {t} : ptr[u] # p
  BY <1>1, <1>2, OwnAddress DEF Inv, BlockInv, Drained, OldBlock
<1>4. /\ UNCHANGED <<g_allocations, queue, held, device, wait>>
      /\ \A u \in Threads \ {t} : /\ todo'[u] = todo[u] /\ ptr'[u] = ptr[u]
                                  /\ size'[u] = size[u]
      /\ todo'[t] = <<>> /\ ptr'[t] = NoPtr
  BY <1>1, Advanced DEF McFree
<1>5. \A q : q # p => block'[q] = block[q]
  BY <1>2, InvTypes DEF McFree, Released, Types
<1>6. /\ \A q : QueuedFree(q)' <=> QueuedFree(q)
      /\ \A q : Recorded(q)' <=> Recorded(q)
  BY <1>4 DEF QueuedFree, Recorded
<1>7. /\ todo'[t] # <<"track">> /\ todo'[t] # <<"mcFree">>
      /\ todo'[t] # <<"mcFreeAsync">> /\ todo'[t] # <<"untrack", "mcFree">>
      /\ todo'[t] # <<"streamSynchronize", "untrack", "mcFree">>
  BY <1>4
<1> HIDE DEF p
<1>8. HolderOwns'
  BY <1>3, <1>4, <1>5, <1>6 DEF Inv, BlockInv, HolderOwns
<1>9. CallOwns'
  BY <1>3, <1>4, <1>5, <1>6 DEF Inv, BlockInv, CallOwns
<1>10. PendingWorkIsLive' /\ FreeIsLast'
  BY <1>3, <1>4, <1>5 DEF Inv, BlockInv, PendingWorkIsLive, FreeIsLast, Pending
<1>11. Drained'
  <2> SUFFICES ASSUME NEW u \in Threads
               PROVE  /\ todo'[u] \in { <<"mcFree">>, <<"untrack", "mcFree">> } =>
                            ~Pending(ptr'[u])
                      /\ todo'[u] = <<"streamSynchronize", "untrack", "mcFree">> =>
                            \A i \in 1 .. Len(queue[block'[ptr'[u]].dev]) :
                               queue[block'[ptr'[u]].dev][i].ptr = ptr'[u] => i <= wait[u]
    BY <1>4 DEF Drained, Pending
  <2>1. CASE u = t
    BY <1>7, <2>1
  <2>2. CASE u # t
    BY <1>3, <1>4, <1>5, <2>2 DEF Inv, BlockInv, Drained
  <2> QED
    BY <2>1, <2>2
<1>12. RecordsDescribeBlocks'
  BY <1>3, <1>4, <1>5, <1>6 DEF Inv, BlockInv, RecordsDescribeBlocks
<1>13. NewBlock'
  <2> SUFFICES ASSUME NEW u \in Threads, todo'[u] = <<"track">>
               PROVE  /\ block'[ptr'[u]] =
                            [kind |-> "sync", dev |-> device[u], size |-> size'[u]]
                      /\ ~Recorded(ptr'[u])
    BY <1>4 DEF NewBlock, Recorded
  <2>1. u # t /\ todo[u] = <<"track">> /\ size'[u] = size[u] /\ ptr'[u] = ptr[u]
    BY <1>4, <1>7
  <2>2. block'[ptr[u]] = block[ptr[u]]
    BY <1>3, <1>5, <2>1
  <2> QED
    BY <2>1, <2>2 DEF Inv, BlockInv, NewBlock
<1>14. OldBlock'
  BY <1>4, <1>6, <1>7 DEF Inv, BlockInv, OldBlock, Recorded
<1> QED
  BY <1>8, <1>9, <1>10, <1>11, <1>12, <1>13, <1>14 DEF BlockInv

LEMMA McFreeAsyncKeeps ==
    ASSUME Inv, NEW t \in Threads, McFreeAsync(t)
    PROVE  BlockInv'
<1> DEFINE p == ptr[t]
           d == block[p].dev
           w == [kind |-> "free", ptr |-> p]
<1>1. todo[t] = <<"mcFreeAsync">> /\ Tail(todo[t]) = <<>>
  BY BodyTails, InvTypes DEF McFreeAsync, Types
<1>2. p \in Ptrs /\ p # NoPtr
  BY <1>1, HasPtr
<1>3. /\ p \notin held /\ ~QueuedFree(p) /\ ~Recorded(p) /\ block[p] # NoBlock
      /\ \A u \in Threads \ {t} : ptr[u] # p
      /\ d \in Devices /\ w \in Work /\ w.ptr = p /\ w.kind = "free" /\ Types
  BY <1>1, <1>2, OwnAddress, InvTypes
     DEF Inv, BlockInv, CallOwns, OldBlock, Work
<1>4. /\ UNCHANGED <<g_allocations, block, held, device, wait>>
      /\ \A u \in Threads \ {t} : /\ todo'[u] = todo[u] /\ ptr'[u] = ptr[u]
                                  /\ size'[u] = size[u]
      /\ todo'[t] = <<>> /\ ptr'[t] = NoPtr
  BY <1>1, Advanced DEF McFreeAsync
<1>5. queue' = [queue EXCEPT ![d] = Append(@, w)]
  BY DEF McFreeAsync
<1>6. /\ todo'[t] # <<"track">> /\ todo'[t] # <<"mcFree">>
      /\ todo'[t] # <<"mcFreeAsync">> /\ todo'[t] # <<"untrack", "mcFree">>
      /\ todo'[t] # <<"streamSynchronize", "untrack", "mcFree">>
  BY <1>4
<1> HIDE DEF p, d, w
<1>7. \A e \in Devices : \A i \in 1 .. Len(queue'[e]) :
         \/ i \in 1 .. Len(queue[e]) /\ queue'[e][i] = queue[e][i]
         \/ e = d /\ i = Len(queue[d]) + 1 /\ queue'[e][i] = w
  BY <1>3, <1>5, AppendedPlaces
<1>8. /\ \A q : QueuedFree(q)' => QueuedFree(q) \/ q = p
      /\ \A q : Pending(q)' => Pending(q) \/ q = p
  <2>1. ASSUME NEW q, QueuedFree(q)' PROVE QueuedFree(q) \/ q = p
    <3>1. QueuedFree(q) \/ w = [kind |-> "free", ptr |-> q]
      BY <1>3, <1>5, <2>1, AppendedFree
    <3>2. w = [kind |-> "free", ptr |-> q] => q = p
      BY <1>3
    <3> QED
      BY <3>1, <3>2
  <2>2. ASSUME NEW q, Pending(q)' PROVE Pending(q) \/ q = p
    BY <1>3, <1>5, <2>2, AppendedPending
  <2> QED
    BY <2>1, <2>2
<1>9. HolderOwns'
  BY <1>3, <1>4, <1>8 DEF Inv, BlockInv, HolderOwns
<1>10. CallOwns'
  <2> SUFFICES ASSUME NEW u \in Threads, ptr'[u] # NoPtr
               PROVE  /\ block[ptr[u]] # NoBlock
                      /\ ptr[u] \notin held
                      /\ ~QueuedFree(ptr[u])'
                      /\ \A v \in Threads \ {u} : ptr'[v] # ptr[u]
                      /\ ptr'[u] = ptr[u]
    BY <1>4 DEF CallOwns
  <2>1. u # t /\ ptr'[u] = ptr[u] /\ ptr[u] # p
    BY <1>3, <1>4
  <2>2. ~QueuedFree(ptr[u])'
    BY <1>8, <2>1 DEF Inv, BlockInv, CallOwns
  <2> QED
    BY <1>4, <2>1, <2>2 DEF Inv, BlockInv, CallOwns
<1>11. PendingWorkIsLive'
  BY <1>3, <1>4, <1>7 DEF Inv, BlockInv, PendingWorkIsLive, d
<1>12. FreeIsLast'
  <2> SUFFICES ASSUME NEW e \in Devices, NEW i \in 1 .. Len(queue'[e]),
                      NEW j \in 1 .. Len(queue'[e]), i < j, queue'[e][i].kind = "free"
               PROVE  queue'[e][j].ptr # queue'[e][i].ptr
    BY DEF FreeIsLast
  <2>0. Len(queue[d]) \in Nat /\ \A k \in 1 .. Len(queue'[d]) : k <= Len(queue[d]) + 1
    BY <1>3, <1>5, Appended
  <2>1. i \in 1 .. Len(queue[e]) /\ queue'[e][i] = queue[e][i]
    BY <1>7, <2>0
  <2>2. CASE j \in 1 .. Len(queue[e]) /\ queue'[e][j] = queue[e][j]
    BY <2>1, <2>2 DEF Inv, BlockInv, FreeIsLast
  <2>3. CASE queue'[e][j] = w
    <3>1. queue[e][i] \in Work
      BY <1>3, <2>1 DEF Types
    <3>2. queue[e][i] = [kind |-> "free", ptr |-> queue[e][i].ptr]
      BY <2>1, <3>1 DEF Work
    <3>3. QueuedFree(queue[e][i].ptr)
      BY <2>1, <3>2 DEF QueuedFree
    <3> QED
      BY <1>3, <2>1, <2>3, <3>3
  <2> QED
    BY <1>7, <2>2, <2>3
<1>13. Drained'
  <2> SUFFICES ASSUME NEW u \in Threads
               PROVE  /\ todo'[u] \in { <<"mcFree">>, <<"untrack", "mcFree">> } =>
                            ~Pending(ptr[u])' /\ ptr'[u] = ptr[u]
                      /\ todo'[u] = <<"streamSynchronize", "untrack", "mcFree">> =>
                            /\ ptr'[u] = ptr[u]
                            /\ \A i \in 1 .. Len(queue'[block[ptr[u]].dev]) :
                                  queue'[block[ptr[u]].dev][i].ptr = ptr[u] => i <= wait[u]
    BY <1>4 DEF Drained, Pending
  <2>1. ASSUME todo'[u] \in { <<"mcFree">>, <<"untrack", "mcFree">> }
        PROVE  ~Pending(ptr[u])' /\ ptr'[u] = ptr[u]
    <3>1. u # t /\ todo[u] = todo'[u] /\ ptr'[u] = ptr[u]
      BY <1>4, <1>6, <2>1
    <3>2. ptr[u] # p /\ ~Pending(ptr[u])
      BY <1>3, <2>1, <3>1 DEF Inv, BlockInv, Drained
    <3> QED
      BY <1>8, <3>1, <3>2
  <2>2. ASSUME todo'[u] = <<"streamSynchronize", "untrack", "mcFree">>
        PROVE  /\ ptr'[u] = ptr[u]
               /\ \A i \in 1 .. Len(queue'[block[ptr[u]].dev]) :
                     queue'[block[ptr[u]].dev][i].ptr = ptr[u] => i <= wait[u]
    <3>1. u # t /\ todo[u] = todo'[u] /\ ptr'[u] = ptr[u]
      BY <1>4, <1>6, <2>2
    <3>2. ptr[u] # p /\ block[ptr[u]].dev \in Devices
      BY <1>3, <2>2, <3>1, HasPtr, OwnAddress
    <3>3. ASSUME NEW i \in 1 .. Len(queue'[block[ptr[u]].dev]),
                 queue'[block[ptr[u]].dev][i].ptr = ptr[u]
          PROVE  i <= wait[u]
      <4>1. i \in 1 .. Len(queue[block[ptr[u]].dev])
            /\ queue[block[ptr[u]].dev][i].ptr = ptr[u]
        BY <1>3, <1>7, <3>2, <3>3
      <4> QED
        BY <2>2, <3>1, <4>1 DEF Inv, BlockInv, Drained
    <3> QED
      BY <3>1, <3>3
  <2> QED
    BY <2>1, <2>2
<1>14. RecordsDescribeBlocks'
  BY <1>4 DEF Inv, BlockInv, RecordsDescribeBlocks, Recorded
<1>15. NewBlock'
  BY <1>4, <1>6 DEF Inv, BlockInv, NewBlock, Recorded
<1>16. OldBlock'
  BY <1>3, <1>4, <1>6, <1>8 DEF Inv, BlockInv, OldBlock, Recorded
<1> QED
  BY <1>9, <1>10, <1>11, <1>12, <1>13, <1>14, <1>15, <1>16 DEF BlockInv

LEMMA StreamSynchronizeKeeps ==
    ASSUME Inv, NEW t \in Threads, StreamSynchronize(t)
    PROVE  BlockInv'
<1> DEFINE p == ptr[t]
<1>1. /\ todo[t] = <<"streamSynchronize", "untrack", "mcFree">>
      /\ Tail(todo[t]) = <<"untrack", "mcFree">>
  BY BodyTails, InvTypes DEF StreamSynchronize, Types
<1>2. p \in Ptrs /\ p # NoPtr /\ Tail(todo[t]) # <<>>
  <2>1. <<"untrack", "mcFree">> # <<>>
    OBVIOUS
  <2> QED
    BY <1>1, <2>1, HasPtr
<1>3. /\ UNCHANGED <<g_allocations, block, queue, held, device, wait>>
      /\ \A u \in Threads \ {t} : /\ todo'[u] = todo[u] /\ ptr'[u] = ptr[u]
                                  /\ size'[u] = size[u]
      /\ todo'[t] = <<"untrack", "mcFree">> /\ ptr'[t] = p
  BY <1>1, <1>2, Advanced DEF StreamSynchronize
<1>4. /\ \A u \in Threads : ptr'[u] = ptr[u]
      /\ \A q : QueuedFree(q)' <=> QueuedFree(q)
      /\ \A q : Recorded(q)' <=> Recorded(q)
  BY <1>3 DEF QueuedFree, Recorded
<1>5. ~Pending(p)
  <2> SUFFICES ASSUME NEW e \in Devices, NEW i \in 1 .. Len(queue[e]),
                      queue[e][i].ptr = p
               PROVE  FALSE
    BY DEF Pending
  <2>1. block[p].dev = e
    BY DEF Inv, BlockInv, PendingWorkIsLive
  <2>2. i <= wait[t]
    BY <1>1, <2>1 DEF Inv, BlockInv, Drained
  <2>3. wait[t] = 0
    BY DEF StreamSynchronize
  <2> QED
    BY <2>2, <2>3
<1>6. /\ todo'[t] # <<"track">> /\ todo'[t] # <<"mcFree">> /\ todo'[t] # <<"mcFreeAsync">>
      /\ todo'[t] # <<"streamSynchronize", "untrack", "mcFree">>
  BY <1>3
<1>7. CallOwns' /\ HolderOwns'
  BY <1>3, <1>4 DEF Inv, BlockInv, CallOwns, HolderOwns
<1>8. PendingWorkIsLive' /\ FreeIsLast'
  BY <1>3 DEF Inv, BlockInv, PendingWorkIsLive, FreeIsLast
<1>9. Drained'
  <2> SUFFICES ASSUME NEW u \in Threads
               PROVE  /\ todo'[u] \in { <<"mcFree">>, <<"untrack", "mcFree">> } =>
                            ~Pending(ptr[u])
                      /\ todo'[u] = <<"streamSynchronize", "untrack", "mcFree">> =>
                            \A i \in 1 .. Len(queue[block[ptr[u]].dev]) :
                               queue[block[ptr[u]].dev][i].ptr = ptr[u] => i <= wait[u]
    BY <1>3, <1>4 DEF Drained, Pending
  <2>1. CASE u = t
    BY <1>5, <1>6, <2>1
  <2>2. CASE u # t
    BY <1>3, <2>2 DEF Inv, BlockInv, Drained
  <2> QED
    BY <2>1, <2>2
<1>10. RecordsDescribeBlocks'
  BY <1>3, <1>4 DEF Inv, BlockInv, RecordsDescribeBlocks
<1>11. NewBlock'
  BY <1>3, <1>6 DEF Inv, BlockInv, NewBlock, Recorded
<1>12. OldBlock'
  BY <1>3, <1>4, <1>6 DEF Inv, BlockInv, OldBlock, Recorded
<1> QED
  BY <1>7, <1>8, <1>9, <1>10, <1>11, <1>12 DEF BlockInv

LEMMA StreamRunKeeps ==
    ASSUME Inv, NEW d \in Devices, StreamRun(d)
    PROVE  BlockInv'
<1> DEFINE work == queue[d][1]
<1>1. /\ queue[d] # <<>> /\ queue' = [queue EXCEPT ![d] = Tail(@)] /\ Types
      /\ UNCHANGED <<g_allocations, held, device, todo, ptr, size>>
  BY InvTypes DEF StreamRun
<1>2. /\ 1 \in 1 .. Len(queue[d]) /\ work \in Work /\ Head(queue[d]) = work
      /\ Len(queue[d]) \in Nat \ {0}
  <2>1. Len(queue[d]) \in Nat \ {0} /\ Head(queue[d]) = queue[d][1]
    BY <1>1, Shifted
  <2>2. queue[d][1] \in Work
    BY <1>1, <2>1 DEF Types
  <2> QED
    BY <2>1, <2>2
<1>3. /\ work.ptr \in Ptrs
      /\ work.kind = "free" => QueuedFree(work.ptr)
  <2>1. work.ptr \in Ptrs /\ (work.kind = "free" => work = [kind |-> "free", ptr |-> work.ptr])
    BY <1>2 DEF Work
  <2> QED
    BY <1>2, <2>1 DEF QueuedFree
<1>4. \A q : QueuedFree(q)' => QueuedFree(q)
  BY <1>1, ShiftedFree
<1>5. \A q : Pending(q)' => Pending(q)
  BY <1>1, ShiftedFree
<1>6. \A q : block'[q] # block[q] => work.kind = "free" /\ q = work.ptr
  BY <1>2, <1>3, InvTypes DEF StreamRun, Types
<1>7. \A q : block'[q] # block[q] => /\ QueuedFree(q) /\ q \notin held /\ ~Recorded(q)
                                    /\ \A t \in Threads : ptr[t] # q
  <2> SUFFICES ASSUME NEW q, block'[q] # block[q]
               PROVE  /\ QueuedFree(q) /\ q \notin held /\ ~Recorded(q)
                      /\ \A t \in Threads : ptr[t] # q
    OBVIOUS
  <2>1. QueuedFree(q) /\ q \in Ptrs /\ q # NoPtr
    BY <1>3, <1>6, PtrsAssumption
  <2> QED
    BY <2>1 DEF Inv, BlockInv, HolderOwns, OldBlock, CallOwns
<1>8. \A e \in Devices : \A i \in 1 .. Len(queue'[e]) :
         \/ e = d /\ i + 1 \in 2 .. Len(queue[e]) /\ queue'[e][i] = queue[e][i + 1]
         \/ e # d /\ i \in 1 .. Len(queue[e]) /\ queue'[e][i] = queue[e][i]
  BY <1>1, ShiftedPlaces
<1>9. \A q : Recorded(q)' <=> Recorded(q)
  BY <1>1 DEF Recorded
<1>10. HolderOwns'
  BY <1>1, <1>4, <1>7 DEF Inv, BlockInv, HolderOwns
<1>11. CallOwns'
  BY <1>1, <1>4, <1>7 DEF Inv, BlockInv, CallOwns
<1>12. PendingWorkIsLive'
  <2> SUFFICES ASSUME NEW e \in Devices, NEW i \in 1 .. Len(queue'[e])
               PROVE  /\ block'[queue'[e][i].ptr] # NoBlock
                      /\ block'[queue'[e][i].ptr].dev = e
    BY DEF PendingWorkIsLive
  <2>1. PICK k \in 1 .. Len(queue[e]) : /\ queue'[e][i] = queue[e][k]
                                        /\ e = d => 1 < k
    BY <1>2, <1>8
  <2>2. block[queue[e][k].ptr] # NoBlock /\ block[queue[e][k].ptr].dev = e
    BY <2>1 DEF Inv, BlockInv, PendingWorkIsLive
  <2>3. block'[queue[e][k].ptr] = block[queue[e][k].ptr]
    <3> SUFFICES ASSUME work.kind = "free", queue[e][k].ptr = work.ptr
                 PROVE  FALSE
      BY <1>6
    <3>1. block[work.ptr].dev = d
      BY <1>2 DEF Inv, BlockInv, PendingWorkIsLive
    <3>2. e = d
      BY <2>2, <3>1
    <3>3. queue[d][k].ptr # queue[d][1].ptr
      BY <1>2, <2>1, <3>2 DEF Inv, BlockInv, FreeIsLast
    <3> QED
      BY <3>2, <3>3
  <2> QED
    BY <2>1, <2>2, <2>3
<1>13. FreeIsLast'
  <2> SUFFICES ASSUME NEW e \in Devices, NEW i \in 1 .. Len(queue'[e]),
                      NEW j \in 1 .. Len(queue'[e]), i < j, queue'[e][i].kind = "free"
               PROVE  queue'[e][j].ptr # queue'[e][i].ptr
    BY DEF FreeIsLast
  <2>1. CASE e = d
    <3>1. /\ i + 1 \in 1 .. Len(queue[d]) /\ queue'[d][i] = queue[d][i + 1]
          /\ j + 1 \in 1 .. Len(queue[d]) /\ queue'[d][j] = queue[d][j + 1]
          /\ i + 1 < j + 1
      BY <1>2, <1>8, <2>1
    <3> QED
      BY <2>1, <3>1 DEF Inv, BlockInv, FreeIsLast
  <2>2. CASE e # d
    BY <1>8, <2>2 DEF Inv, BlockInv, FreeIsLast
  <2> QED
    BY <2>1, <2>2
<1>14. Drained'
  <2> SUFFICES ASSUME NEW u \in Threads
               PROVE  /\ todo[u] \in { <<"mcFree">>, <<"untrack", "mcFree">> } =>
                            ~Pending(ptr[u])'
                      /\ todo[u] = <<"streamSynchronize", "untrack", "mcFree">> =>
                            \A i \in 1 .. Len(queue'[block'[ptr[u]].dev]) :
                               queue'[block'[ptr[u]].dev][i].ptr = ptr[u] => i <= wait'[u]
    BY <1>1 DEF Drained, Pending
  <2>1. ASSUME todo[u] \in { <<"mcFree">>, <<"untrack", "mcFree">> }
        PROVE  ~Pending(ptr[u])'
    BY <1>1, <1>5, <2>1 DEF Inv, BlockInv, Drained
  <2>2. ASSUME todo[u] = <<"streamSynchronize", "untrack", "mcFree">>,
               NEW i \in 1 .. Len(queue'[block'[ptr[u]].dev]),
               queue'[block'[ptr[u]].dev][i].ptr = ptr[u]
        PROVE  i <= wait'[u]
    <3> DEFINE e == block[ptr[u]].dev
    <3>1. block'[ptr[u]] = block[ptr[u]] /\ e \in Devices
      BY <1>7, <2>2, HasPtr, OwnAddress
    <3>2. wait[u] \in Nat /\ i \in Nat
      BY <1>1, <1>8, <2>2, <3>1 DEF Types
    <3>3. CASE e = d
      <4>1. i + 1 \in 1 .. Len(queue[d]) /\ queue[d][i + 1].ptr = ptr[u]
        BY <1>2, <1>8, <2>2, <3>1, <3>3
      <4>2. i + 1 <= wait[u]
        BY <2>2, <3>3, <4>1 DEF Inv, BlockInv, Drained
      <4>3. Awaits(u, d)
        <5>1. /\ <<"streamSynchronize", "untrack", "mcFree">> # <<>>
              /\ Head(<<"streamSynchronize", "untrack", "mcFree">>) = "streamSynchronize"
          OBVIOUS
        <5> QED
          BY <2>2, <3>3, <5>1 DEF Awaits
      <4>4. wait'[u] = wait[u] - 1
        BY <3>2, <4>2, <4>3 DEF StreamRun
      <4> QED
        BY <3>2, <4>2, <4>4
    <3>4. CASE e # d
      <4>1. i \in 1 .. Len(queue[e]) /\ queue[e][i].ptr = ptr[u]
        BY <1>8, <2>2, <3>1, <3>4
      <4>2. i <= wait[u]
        BY <2>2, <4>1 DEF Inv, BlockInv, Drained
      <4>3. wait'[u] = wait[u]
        BY <3>4 DEF StreamRun, Awaits
      <4> QED
        BY <4>2, <4>3
    <3> QED
      BY <3>3, <3>4
  <2> QED
    BY <2>1, <2>2
<1>15. RecordsDescribeBlocks'
  BY <1>1, <1>7, <1>9 DEF Inv, BlockInv, RecordsDescribeBlocks
<1>16. NewBlock'
  <2> SUFFICES ASSUME NEW u \in Threads, todo[u] = <<"track">>
               PROVE  /\ block'[ptr[u]] =
                            [kind |-> "sync", dev |-> device[u], size |-> size[u]]
                      /\ ~Recorded(ptr[u])
    BY <1>1 DEF NewBlock, Recorded
  <2>1. block'[ptr[u]] = block[ptr[u]]
    BY <1>7
  <2> QED
    BY <2>1 DEF Inv, BlockInv, NewBlock
<1>17. OldBlock'
  BY <1>1, <1>4, <1>9 DEF Inv, BlockInv, OldBlock, Recorded
<1> QED
  BY <1>10, <1>11, <1>12, <1>13, <1>14, <1>15, <1>16, <1>17 DEF BlockInv

-----------------------------------------------------------------------------
(* The theorems.                                                             *)

LEMMA InvInit == Init => Inv
<1> SUFFICES ASSUME Init PROVE BlockInv
  BY TypeInvInit DEF Inv
<1>1. \A d \in Devices : queue[d] = <<>> /\ Len(queue[d]) = 0
  BY DEF Init
<1>2. /\ \A p : ~QueuedFree(p) /\ ~Pending(p)
      /\ PendingWorkIsLive /\ FreeIsLast
  BY <1>1 DEF QueuedFree, Pending, PendingWorkIsLive, FreeIsLast
<1>3. \A t \in Threads : /\ ptr[t] = NoPtr
                         /\ todo[t] # <<"track">> /\ todo[t] # <<"mcFree">>
                         /\ todo[t] # <<"mcFreeAsync">> /\ todo[t] # <<"untrack", "mcFree">>
                         /\ todo[t] # <<"streamSynchronize", "untrack", "mcFree">>
  BY DEF Init
<1>4. CallOwns /\ HolderOwns
  BY <1>3 DEF Init, CallOwns, HolderOwns
<1>5. Drained /\ NewBlock /\ OldBlock
  BY <1>2, <1>3 DEF Drained, NewBlock, OldBlock
<1>6. RecordsDescribeBlocks
  BY DEF Init, RecordsDescribeBlocks, Recorded
<1> QED
  BY <1>2, <1>4, <1>5, <1>6 DEF BlockInv

LEMMA InvStep == Inv /\ [Next]_vars => Inv'
<1> SUFFICES ASSUME Inv, [Next]_vars PROVE BlockInv'
  BY TypeInvStep DEF Inv
<1>1. ASSUME NEW t \in Threads, Malloc(t) PROVE BlockInv'
  BY <1>1, BodiesBegin, BeginMallocKeeps DEF Malloc
<1>2. ASSUME NEW t \in Threads, MallocAsync(t) PROVE BlockInv'
  BY <1>2, BodiesBegin, BeginMallocKeeps DEF MallocAsync
<1>3. ASSUME NEW t \in Threads, Free(t) PROVE BlockInv'
  BY <1>3, BodiesBegin, BeginFreeKeeps DEF Free
<1>4. ASSUME NEW t \in Threads, FreeAsync(t) PROVE BlockInv'
  <2>1. PICK p \in Ptrs : /\ BeginFree(t, p, FreeAsyncBody)
                          /\ wait' = [wait EXCEPT ![t] = WorkToAwait(p)]
    BY <1>4 DEF FreeAsync
  <2>2. CASE MultithreadWorkarounds
    BY <2>1, <2>2, BodiesBegin, BeginFreeKeeps DEF WorkToAwait
  <2>3. CASE ~MultithreadWorkarounds
    BY <2>1, <2>3, BodiesBegin, BeginFreeKeeps DEF WorkToAwait
  <2> QED
    BY <2>2, <2>3
<1>5. ASSUME NEW t \in Threads, SetDevice(t) PROVE BlockInv'
  BY <1>5, InvTypes, OthersKeep DEF SetDevice, Idle, Types
<1>6. ASSUME NEW t \in Threads, ResetHigh(t) PROVE BlockInv'
  BY <1>6, OthersKeep DEF ResetHigh
<1>7. ASSUME NEW t \in Threads, Launch(t) PROVE BlockInv'
  BY <1>7, LaunchKeeps
<1>8. ASSUME NEW t \in Threads, McMalloc(t) PROVE BlockInv'
  <2>1. PICK p \in Ptrs : Place(t, p, "sync") /\ Advance(t, p)
    BY <1>8 DEF McMalloc
  <2>2. Tail(todo[t]) = <<"track">>
    BY <1>8, BodyTails, InvTypes DEF McMalloc, Types
  <2> QED
    BY <1>8, <2>1, <2>2, PlaceKeeps DEF McMalloc
<1>9. ASSUME NEW t \in Threads, McMallocAsync(t) PROVE BlockInv'
  <2>1. PICK p \in Ptrs : /\ Place(t, p, "pool")
                          /\ held' = held \cup {p}
                          /\ Advance(t, p)
    BY <1>9 DEF McMallocAsync
  <2>2. Tail(todo[t]) = <<>>
    BY <1>9, BodyTails, InvTypes DEF McMallocAsync, Types
  <2> QED
    BY <1>9, <2>1, <2>2, PlaceKeeps DEF McMallocAsync
<1>10. ASSUME NEW t \in Threads, OutOfMemory(t) PROVE BlockInv'
  BY <1>10, OthersKeep DEF OutOfMemory
<1>11. ASSUME NEW t \in Threads, TrackAllocation(t) PROVE BlockInv'
  BY <1>11, TrackKeeps
<1>12. ASSUME NEW t \in Threads, UntrackUnknown(t) PROVE BlockInv'
  BY <1>12, UntrackKeeps DEF UntrackUnknown
<1>13. ASSUME NEW t \in Threads, UntrackAllocation(t) PROVE BlockInv'
  BY <1>13, UntrackKeeps DEF UntrackAllocation, Erased
<1>14. ASSUME NEW t \in Threads, McFree(t) PROVE BlockInv'
  BY <1>14, McFreeKeeps
<1>15. ASSUME NEW t \in Threads, McFreeAsync(t) PROVE BlockInv'
  BY <1>15, McFreeAsyncKeeps
<1>16. ASSUME NEW t \in Threads, StreamSynchronize(t) PROVE BlockInv'
  BY <1>16, StreamSynchronizeKeeps
<1>17. ASSUME NEW d \in Devices, StreamRun(d) PROVE BlockInv'
  BY <1>17, StreamRunKeeps
<1>18. CASE UNCHANGED vars
  BY <1>18, OthersKeep DEF vars
<1> QED
  BY <1>1, <1>2, <1>3, <1>4, <1>5, <1>6, <1>7, <1>8, <1>9, <1>10, <1>11, <1>12,
     <1>13, <1>14, <1>15, <1>16, <1>17, <1>18 DEF Next, Call, Step

LEMMA InvAlways == Spec => []Inv
BY InvInit, InvStep, PTL DEF Spec

(* The record of an address, made by TrackAllocation and taken by            *)
(* UntrackAllocation, describes the block that mcMalloc placed there, for    *)
(* any number of threads that reuse addresses.                               *)
THEOREM RecordsCorrect == Spec => []RecordsDescribeBlocks
<1>1. Inv => RecordsDescribeBlocks
  BY DEF Inv, BlockInv
<1> QED
  BY <1>1, InvAlways, PTL

(* No kernel or free that waits in a stream outlives its block: Free and     *)
(* FreeAsync, in either mode, release a block after the work on it.          *)
THEOREM NoUseAfterFree == Spec => []PendingWorkIsLive
<1>1. Inv => PendingWorkIsLive
  BY DEF Inv, BlockInv
<1> QED
  BY <1>1, InvAlways, PTL

(* No two parties own an address: what a caller holds is in no call, and an  *)
(* address is in one call only, so that no block is freed twice.             *)
THEOREM OneOwner == Spec => [](CallOwns /\ HolderOwns)
<1>1. Inv => CallOwns /\ HolderOwns
  BY DEF Inv, BlockInv
<1> QED
  BY <1>1, InvAlways, PTL

-----------------------------------------------------------------------------
(* A block that no counter shows.                                            *)

(* A free stays in a stream to which work is added, and is the first work of *)
(* it when it leaves.                                                        *)
LEMMA FreeStaysQueued ==
    ASSUME Types, NEW d \in Devices, NEW w \in Work,
           queue' = [queue EXCEPT ![d] = Append(@, w)]
    PROVE  /\ \A p : QueuedFree(p) => QueuedFree(p)'
           /\ \A p : w = [kind |-> "free", ptr |-> p] => QueuedFree(p)'
<1>0. /\ \A e \in Devices \ {d} : queue'[e] = queue[e]
      /\ Len(queue'[d]) = Len(queue[d]) + 1 /\ Len(queue[d]) \in Nat
      /\ \A i \in 1 .. Len(queue[d]) : queue'[d][i] = queue[d][i]
      /\ queue'[d][Len(queue[d]) + 1] = w
  BY Appended
<1>1. ASSUME NEW p, QueuedFree(p) PROVE QueuedFree(p)'
  <2>0. PICK e \in Devices : \E i \in 1 .. Len(queue[e]) :
           queue[e][i] = [kind |-> "free", ptr |-> p]
    BY <1>1 DEF QueuedFree
  <2>1. PICK i \in 1 .. Len(queue[e]) : queue[e][i] = [kind |-> "free", ptr |-> p]
    BY <2>0
  <2>2. i \in 1 .. Len(queue'[e]) /\ queue'[e][i] = queue[e][i]
    <3>1. CASE e = d
      BY <3>1, <1>0
    <3>2. CASE e # d
      BY <3>2, <1>0
    <3> QED
      BY <3>1, <3>2
  <2> QED
    BY <2>1, <2>2 DEF QueuedFree
<1>2. ASSUME NEW p, w = [kind |-> "free", ptr |-> p] PROVE QueuedFree(p)'
  <2>2. Len(queue[d]) + 1 \in 1 .. Len(queue'[d])
    BY <1>0
  <2> QED
    BY <1>0, <1>2, <2>2 DEF QueuedFree
<1> QED
  BY <1>1, <1>2

LEMMA FreeLeavesQueue ==
    ASSUME Types, NEW d \in Devices, queue[d] # <<>>,
           queue' = [queue EXCEPT ![d] = Tail(@)],
           NEW p, QueuedFree(p), ~QueuedFree(p)'
    PROVE  Head(queue[d]).kind = "free" /\ Head(queue[d]).ptr = p
<1>0. /\ \A e \in Devices \ {d} : queue'[e] = queue[e]
      /\ Len(queue'[d]) = Len(queue[d]) - 1
      /\ Len(queue[d]) \in Nat \ {0}
      /\ \A i \in 1 .. Len(queue'[d]) : queue'[d][i] = queue[d][i + 1]
      /\ Head(queue[d]) = queue[d][1]
  BY Shifted
<1>a. PICK e \in Devices : \E i \in 1 .. Len(queue[e]) :
         queue[e][i] = [kind |-> "free", ptr |-> p]
  BY DEF QueuedFree
<1>1. PICK i \in 1 .. Len(queue[e]) : queue[e][i] = [kind |-> "free", ptr |-> p]
  BY <1>a
<1>2. e = d
  BY <1>0, <1>1 DEF QueuedFree
<1>3. i = 1
  <2> SUFFICES ASSUME i # 1 PROVE FALSE
    OBVIOUS
  <2>1. i - 1 \in 1 .. Len(queue'[d]) /\ queue'[d][i - 1] = queue[d][(i - 1) + 1]
    BY <1>0, <1>1, <1>2
  <2>2. queue'[d][i - 1] = [kind |-> "free", ptr |-> p]
    BY <2>1, <1>1, <1>2
  <2> QED
    BY <2>1, <2>2 DEF QueuedFree
<1> QED
  BY <1>0, <1>1, <1>2, <1>3

InFlight(t, p) ==
    ptr[t] = p /\ todo[t] \in { <<"track">>, <<"mcFree">>, <<"mcFreeAsync">> }

(* Whatever a step of thread t does, a block that another one is about to    *)
(* record or to release is so still.                                         *)
LEMMA StillInFlight ==
    ASSUME NEW t \in Threads, NEW p \in Ptrs, Types,
           \A u \in Threads \ {t} : todo'[u] = todo[u] /\ ptr'[u] = ptr[u],
           ~InFlight(t, p), \E u \in Threads : InFlight(u, p)
    PROVE  \E u \in Threads : InFlight(u, p)'
BY DEF InFlight

(* A step of a call that moves none of the blocks.                           *)
LEMMA UnchargedKept ==
    ASSUME Inv, UnchargedOnlyInFlight, NEW t \in Threads,
           \A u \in Threads \ {t} : todo'[u] = todo[u] /\ ptr'[u] = ptr[u],
           todo[t] \notin { <<"track">>, <<"mcFree">>, <<"mcFreeAsync">> },
           \A p \in Ptrs : block'[p].kind = "sync" => block[p].kind = "sync",
           \A p \in Ptrs : Recorded(p) => Recorded(p)' \/ InFlight(t, p)',
           \A p \in Ptrs : QueuedFree(p) => QueuedFree(p)'
    PROVE  UnchargedOnlyInFlight'
<1> SUFFICES ASSUME NEW p \in Ptrs, block'[p].kind = "sync", ~Recorded(p)',
                    ~QueuedFree(p)'
             PROVE  \E u \in Threads : InFlight(u, p)'
  BY DEF UnchargedOnlyInFlight, InFlight
<1>1. CASE Recorded(p)
  BY <1>1
<1>2. CASE ~Recorded(p)
  <2>1. \E u \in Threads : InFlight(u, p)
    BY <1>2 DEF UnchargedOnlyInFlight, InFlight
  <2> QED
    BY <2>1, InvTypes, StillInFlight DEF InFlight
<1> QED
  BY <1>1, <1>2

LEMMA SeveralSteps ==
    \A b \in { <<"untrack", "mcFree">>, <<"untrack", "mcFreeAsync">>,
               <<"streamSynchronize", "untrack", "mcFree">> } :
        b \notin { <<"track">>, <<"mcFree">>, <<"mcFreeAsync">> }
<1>1. /\ Len(<<"untrack", "mcFree">>) = 2 /\ Len(<<"untrack", "mcFreeAsync">>) = 2
      /\ Len(<<"streamSynchronize", "untrack", "mcFree">>) = 3
      /\ Len(<<"track">>) = 1 /\ Len(<<"mcFree">>) = 1 /\ Len(<<"mcFreeAsync">>) = 1
  OBVIOUS
<1> QED
  BY <1>1

LEMMA UnchargedStep == Inv /\ UnchargedOnlyInFlight /\ [Next]_vars => UnchargedOnlyInFlight'
<1> SUFFICES ASSUME Inv, UnchargedOnlyInFlight, [Next]_vars PROVE UnchargedOnlyInFlight'
  OBVIOUS
<1> USE InvTypes DEF Recorded
<1>00. /\ <<"track">> # <<>> /\ <<"mcFree">> # <<>> /\ <<"mcFreeAsync">> # <<>>
       /\ \A b \in { <<"untrack", "mcFree">>, <<"untrack", "mcFreeAsync">>,
                     <<"streamSynchronize", "untrack", "mcFree">> } :
             b \notin { <<"track">>, <<"mcFree">>, <<"mcFreeAsync">> }
  BY SeveralSteps, BodiesDiffer
<1>0. \A t \in Threads : todo[t] = <<>> =>
          todo[t] \notin { <<"track">>, <<"mcFree">>, <<"mcFreeAsync">> }
  BY BodiesDiffer
<1>1. ASSUME NEW t \in Threads, Malloc(t) \/ MallocAsync(t) PROVE UnchargedOnlyInFlight'
  <2>1. UNCHANGED <<g_allocations, block, queue, ptr>> /\ todo[t] = <<>>
    BY <1>1 DEF Malloc, MallocAsync, BeginMalloc, Idle
  <2>2. \A u \in Threads \ {t} : todo'[u] = todo[u] /\ ptr'[u] = ptr[u]
    BY <1>1 DEF Malloc, MallocAsync, BeginMalloc, Types
  <2> QED
    BY <2>1, <2>2, <1>0, UnchargedKept DEF QueuedFree
<1>2. ASSUME NEW t \in Threads, Free(t) \/ FreeAsync(t) PROVE UnchargedOnlyInFlight'
  <2>1. UNCHANGED <<g_allocations, block, queue>> /\ todo[t] = <<>>
    BY <1>2 DEF Free, FreeAsync, BeginFree, Idle
  <2>2. \A u \in Threads \ {t} : todo'[u] = todo[u] /\ ptr'[u] = ptr[u]
    BY <1>2 DEF Free, FreeAsync, BeginFree, Types
  <2> QED
    BY <2>1, <2>2, <1>0, UnchargedKept DEF QueuedFree
<1>3. ASSUME NEW t \in Threads, SetDevice(t) \/ ResetHigh(t) \/ OutOfMemory(t)
      PROVE  UnchargedOnlyInFlight'
  <2>1. UNCHANGED <<g_allocations, block, queue, ptr, todo>>
    BY <1>3 DEF SetDevice, ResetHigh, OutOfMemory
  <2> QED
    BY <2>1 DEF UnchargedOnlyInFlight, QueuedFree
<1>4. ASSUME NEW t \in Threads, Launch(t) PROVE UnchargedOnlyInFlight'
  <2>1. PICK p \in held : queue' = [queue EXCEPT ![block[p].dev] =
                                       Append(@, [kind |-> "kernel", ptr |-> p])]
    BY <1>4 DEF Launch
  <2>2. UNCHANGED <<g_allocations, block, ptr, todo>> /\ todo[t] = <<>>
    BY <1>4 DEF Launch, Idle
  <2>3. block[p].dev \in Devices /\ [kind |-> "kernel", ptr |-> p] \in Work
    <3>1. p \in Ptrs /\ block[p] \in Blocks
      BY DEF Inv, BlockInv, HolderOwns, Types
    <3> QED
      BY <3>1 DEF Blocks, Work
  <2>4. \A q \in Ptrs : QueuedFree(q) => QueuedFree(q)'
    BY <2>1, <2>3, FreeStaysQueued
  <2> QED
    BY <2>2, <2>4, <1>0, UnchargedKept
<1>5. ASSUME NEW t \in Threads, McMalloc(t) \/ McMallocAsync(t)
      PROVE  UnchargedOnlyInFlight'
  <2>1. PICK p \in Ptrs, kind \in {"sync", "pool"} :
           /\ Place(t, p, kind) /\ Advance(t, p)
           /\ kind = "sync" => At(t, "mcMalloc")
           /\ kind = "pool" => At(t, "mcMallocAsync")
           /\ UNCHANGED <<g_allocations, queue>>
    BY <1>5 DEF McMalloc, McMallocAsync
  <2>2. /\ At(t, "mcMalloc") => todo'[t] = <<"track">> /\ ptr'[t] = p
        /\ todo[t] \notin { <<"track">>, <<"mcFree">>, <<"mcFreeAsync">> }
    BY <2>1, <1>00, BodyTails, BodiesDiffer, Advanced DEF Types
  <2>3. SUFFICES ASSUME NEW q \in Ptrs, block'[q].kind = "sync", ~Recorded(q)',
                        ~QueuedFree(q)'
                 PROVE  \E u \in Threads : InFlight(u, q)'
    BY DEF UnchargedOnlyInFlight, InFlight
  <2>4. CASE q = p
    <3>1. kind = "sync"
      BY <2>1, <2>3, <2>4 DEF Place, Types
    <3>2. todo'[t] = <<"track">> /\ ptr'[t] = p
      BY <2>1, <2>2, <3>1
    <3> QED
      BY <2>4, <3>2 DEF InFlight
  <2>5. CASE q # p
    <3>1. block[q].kind = "sync" /\ ~Recorded(q) /\ ~QueuedFree(q)
      BY <2>1, <2>3, <2>5 DEF Place, Types, QueuedFree
    <3>2. \E u \in Threads : InFlight(u, q)
      BY <3>1 DEF UnchargedOnlyInFlight, InFlight
    <3> QED
      BY <2>1, <2>2, <3>2, Advanced, StillInFlight DEF InFlight
  <2> QED
    BY <2>4, <2>5
<1>6. ASSUME NEW t \in Threads, TrackAllocation(t) PROVE UnchargedOnlyInFlight'
  <2>1. /\ g_allocations' = [g_allocations EXCEPT ![ptr[t]] = NewRecord(device[t], size[t])]
        /\ todo[t] = <<"track">> /\ Advance(t, ptr[t])
        /\ UNCHANGED <<block, queue>>
    BY <1>6, BodyTails DEF TrackAllocation, Types
  <2>2. ptr[t] \in Ptrs /\ NewRecord(device[t], size[t]) # NoRecord
    <3>1. ptr[t] \in Ptrs
      BY <2>1, HasPtr
    <3>2. NewRecord(device[t], size[t]).device_index # NoRecord.device_index
      BY DEF NewRecord, NoRecord, Types, Devices
    <3> QED
      BY <3>1, <3>2
  <2>3. SUFFICES ASSUME NEW q \in Ptrs, block'[q].kind = "sync", ~Recorded(q)',
                        ~QueuedFree(q)'
                 PROVE  \E u \in Threads : InFlight(u, q)'
    BY DEF UnchargedOnlyInFlight, InFlight
  <2>4. /\ q # ptr[t] /\ ~Recorded(q)
        /\ block[q].kind = "sync" /\ ~QueuedFree(q)
    BY <2>1, <2>2, <2>3 DEF Types, QueuedFree
  <2>5. \E u \in Threads : InFlight(u, q)
    BY <2>4 DEF UnchargedOnlyInFlight, InFlight
  <2> QED
    BY <2>1, <2>4, <2>5, Advanced, StillInFlight DEF InFlight
<1>7. ASSUME NEW t \in Threads, UntrackUnknown(t) \/ UntrackAllocation(t)
      PROVE  UnchargedOnlyInFlight'
  <2>1. /\ At(t, "untrack") /\ Advance(t, ptr[t])
        /\ g_allocations' = g_allocations \/ g_allocations' = [g_allocations EXCEPT ![ptr[t]] = NoRecord]
        /\ UNCHANGED <<block, queue>>
    BY <1>7 DEF UntrackUnknown, UntrackAllocation, Erased
  <2>2. /\ todo'[t] \in { <<"mcFree">>, <<"mcFreeAsync">> } /\ ptr'[t] = ptr[t]
        /\ todo[t] \notin { <<"track">>, <<"mcFree">>, <<"mcFreeAsync">> }
    BY <2>1, <1>00, BodyTails, Advanced DEF Types
  <2>3. \A q \in Ptrs : Recorded(q) => Recorded(q)' \/ InFlight(t, q)'
    BY <2>1, <2>2 DEF InFlight, Types
  <2> QED
    BY <2>1, <2>2, <2>3, Advanced, UnchargedKept DEF QueuedFree
<1>8. ASSUME NEW t \in Threads, McFree(t) PROVE UnchargedOnlyInFlight'
  <2>1. /\ Advance(t, ptr[t]) /\ todo[t] = <<"mcFree">>
        /\ block' = [block EXCEPT ![ptr[t]] = NoBlock]
        /\ UNCHANGED <<g_allocations, queue>>
    BY <1>8, BodyTails DEF McFree, Released, Types
  <2>2. SUFFICES ASSUME NEW q \in Ptrs, block'[q].kind = "sync", ~Recorded(q)',
                        ~QueuedFree(q)'
                 PROVE  \E u \in Threads : InFlight(u, q)'
    BY DEF UnchargedOnlyInFlight, InFlight
  <2>3. /\ q # ptr[t] /\ block[q].kind = "sync"
        /\ ~Recorded(q) /\ ~QueuedFree(q)
    BY <2>1, <2>2 DEF NoBlock, Types, QueuedFree
  <2>4. \E u \in Threads : InFlight(u, q)
    BY <2>3 DEF UnchargedOnlyInFlight, InFlight
  <2> QED
    BY <2>1, <2>3, <2>4, Advanced, StillInFlight DEF InFlight
<1>9. ASSUME NEW t \in Threads, McFreeAsync(t) PROVE UnchargedOnlyInFlight'
  <2> DEFINE d == block[ptr[t]].dev
             w == [kind |-> "free", ptr |-> ptr[t]]
  <2>1. /\ Advance(t, ptr[t]) /\ todo[t] = <<"mcFreeAsync">>
        /\ queue' = [queue EXCEPT ![d] = Append(@, w)]
        /\ UNCHANGED <<g_allocations, block>>
    BY <1>9, BodyTails DEF McFreeAsync, Types
  <2>2. d \in Devices /\ w \in Work /\ ptr[t] \in Ptrs
    BY <2>1, HasPtr, OwnAddress DEF Work
  <2>3. \A q \in Ptrs : q = ptr[t] \/ QueuedFree(q) => QueuedFree(q)'
    <3>1. w.kind = "free" /\ w.ptr = ptr[t]
      OBVIOUS
    <3> HIDE DEF d, w
    <3>2. \A q : QueuedFree(q) => QueuedFree(q)'
      BY <2>1, <2>2, FreeStaysQueued
    <3>3. PICK p \in Ptrs : p = w.ptr
      BY <2>2, <3>1
    <3>4. QueuedFree(p)'
      <4>1. w = [kind |-> "free", ptr |-> p]
        BY <2>2, <3>1, <3>3 DEF Work
      <4> QED
        BY <2>1, <2>2, <4>1, FreeStaysQueued
    <3> QED
      BY <3>1, <3>2, <3>3, <3>4
  <2>4. SUFFICES ASSUME NEW q \in Ptrs, block'[q].kind = "sync", ~Recorded(q)',
                        ~QueuedFree(q)'
                 PROVE  \E u \in Threads : InFlight(u, q)'
    BY DEF UnchargedOnlyInFlight, InFlight
  <2>a. q # ptr[t]
    BY <2>3, <2>4
  <2>5. q # ptr[t] /\ ~QueuedFree(q) /\ block[q].kind = "sync" /\ ~Recorded(q)
    BY <2>1, <2>3, <2>4, <2>a
  <2>6. \E u \in Threads : InFlight(u, q)
    BY <2>5 DEF UnchargedOnlyInFlight, InFlight
  <2> QED
    BY <2>1, <2>5, <2>6, Advanced, StillInFlight DEF InFlight
<1>10. ASSUME NEW t \in Threads, StreamSynchronize(t) PROVE UnchargedOnlyInFlight'
  <2>1. /\ At(t, "streamSynchronize") /\ Advance(t, ptr[t])
        /\ UNCHANGED <<g_allocations, block, queue>>
    BY <1>10 DEF StreamSynchronize
  <2>2. todo[t] \notin { <<"track">>, <<"mcFree">>, <<"mcFreeAsync">> }
    BY <2>1, <1>00, BodyTails DEF Types
  <2> QED
    BY <2>1, <2>2, Advanced, UnchargedKept DEF QueuedFree
<1>11. ASSUME NEW d \in Devices, StreamRun(d) PROVE UnchargedOnlyInFlight'
  <2>1. /\ queue[d] # <<>> /\ queue' = [queue EXCEPT ![d] = Tail(@)]
        /\ block' = IF Head(queue[d]).kind = "free"
                    THEN [block EXCEPT ![Head(queue[d]).ptr] = NoBlock] ELSE block
        /\ UNCHANGED <<g_allocations, ptr, todo>>
    BY <1>11 DEF StreamRun
  <2>2. SUFFICES ASSUME NEW q \in Ptrs, block'[q].kind = "sync", ~Recorded(q),
                        ~QueuedFree(q)'
                 PROVE  \E u \in Threads : InFlight(u, q)
    BY <2>1 DEF UnchargedOnlyInFlight, InFlight
  <2>3. block[q].kind = "sync" /\ ~(Head(queue[d]).kind = "free" /\ Head(queue[d]).ptr = q)
    BY <2>1, <2>2 DEF NoBlock, Types
  <2>4. ~QueuedFree(q)
    BY <2>1, <2>2, <2>3, FreeLeavesQueue
  <2> QED
    BY <2>2, <2>3, <2>4 DEF UnchargedOnlyInFlight, InFlight
<1>12. CASE UNCHANGED vars
  BY <1>12 DEF vars, UnchargedOnlyInFlight, QueuedFree
<1> QED
  BY <1>1, <1>2, <1>3, <1>4, <1>5, <1>6, <1>7, <1>8, <1>9, <1>10, <1>11, <1>12
     DEF Next, Call, Step

(* Between mcMalloc and TrackAllocation, and between UntrackAllocation and   *)
(* the release, are the only times that a synchronous block lives which no   *)
(* counter shows.                                                            *)
THEOREM UnchargedIsTransient == Spec => []UnchargedOnlyInFlight
<1>1. Init => UnchargedOnlyInFlight
  BY DEF Init, UnchargedOnlyInFlight, NoBlock
<1> QED
  BY <1>1, UnchargedStep, InvAlways, PTL DEF Spec

-----------------------------------------------------------------------------
(* The counters of the tracker.                                              *)

(* The bytes recorded at one address.                                        *)
Cells(p, n) == {p} \X (1 .. n)

LEMMA CellsFinite ==
    ASSUME NEW p, NEW n \in Nat
    PROVE  IsFiniteSet(Cells(p, n)) /\ Cardinality(Cells(p, n)) = n
<1>1. /\ IsFiniteSet(1 .. n) /\ Cardinality(1 .. n) = n
  BY FS_Interval
<1>2. IsFiniteSet({p}) /\ Cardinality({p}) = 1
  BY FS_Singleton
<1>3. /\ IsFiniteSet({p} \X (1 .. n))
      /\ Cardinality({p} \X (1 .. n)) = 1 * n
  BY <1>1, <1>2, FS_Product
<1> QED
  BY <1>3 DEF Cells


LEMMA SameCardinality == \A S : Ledger!Cardinality(S) = Cardinality(S)
BY DEF Ledger!Cardinality, Cardinality

(* The bytes of a device, without a union of sets.                           *)
LEMMA BytesOf ==
    ASSUME NEW d
    PROVE  Ledger!Bytes(d) = { c \in Ptrs \X Nat :
             /\ g_allocations[c[1]].device_index = d
             /\ c[2] \in 1 .. g_allocations[c[1]].size }
BY DEF Ledger!Bytes

-----------------------------------------------------------------------------
(* Recording a block adds its bytes to its device, erasing it takes them     *)
(* away, and the other devices keep theirs.                                  *)

LEMMA Recording ==
    ASSUME Types, NEW p \in Ptrs, NEW d \in Devices, NEW n \in Sizes, ~Recorded(p),
           g_allocations' = [g_allocations EXCEPT ![p] = [device_index |-> d, size |-> n]]
    PROVE  /\ Ledger!Bytes(d)' = Ledger!Bytes(d) \cup Cells(p, n)
           /\ Ledger!Bytes(d) \cap Cells(p, n) = {}
           /\ \A e \in Devices \ {d} : Ledger!Bytes(e)' = Ledger!Bytes(e)
<1>1. /\ g_allocations'[p].device_index = d /\ g_allocations'[p].size = n
      /\ \A q \in Ptrs : q # p => g_allocations'[q] = g_allocations[q]
  BY DEF Types
<1>2. g_allocations[p].device_index = -1
  BY DEF Recorded, NoRecord
<1>3. n \in Nat /\ d # -1 /\ \A e \in Devices : e # -1
  BY SizesAssumption DEF Devices
<1>4. ASSUME NEW e
      PROVE  Ledger!Bytes(e)' = { c \in Ptrs \X Nat :
               /\ g_allocations'[c[1]].device_index = e
               /\ c[2] \in 1 .. g_allocations'[c[1]].size }
  BY DEF Ledger!Bytes
<1>5. Cells(p, n) = { c \in Ptrs \X Nat : c[1] = p /\ c[2] \in 1 .. n }
  BY <1>3 DEF Cells
<1>6. Ledger!Bytes(d)' = Ledger!Bytes(d) \cup Cells(p, n)
  BY <1>1, <1>2, <1>3, <1>4, <1>5, BytesOf
<1>7. Ledger!Bytes(d) \cap Cells(p, n) = {}
  BY <1>2, <1>3, <1>5, BytesOf
<1>8. ASSUME NEW e \in Devices \ {d} PROVE Ledger!Bytes(e)' = Ledger!Bytes(e)
  BY <1>1, <1>2, <1>3, <1>4, BytesOf
<1> QED
  BY <1>6, <1>7, <1>8

LEMMA Erasing ==
    ASSUME Types, NEW p \in Ptrs, Recorded(p),
           NEW d, d = g_allocations[p].device_index,
           NEW n, n = g_allocations[p].size,
           g_allocations' = [g_allocations EXCEPT ![p] = NoRecord]
    PROVE  /\ d \in Devices /\ n \in Nat
           /\ Ledger!Bytes(d)' = Ledger!Bytes(d) \ Cells(p, n)
           /\ Cells(p, n) \subseteq Ledger!Bytes(d)
           /\ \A e \in Devices \ {d} : Ledger!Bytes(e)' = Ledger!Bytes(e)
<1>1. /\ g_allocations'[p].device_index = -1
      /\ \A q \in Ptrs : q # p => g_allocations'[q] = g_allocations[q]
  BY DEF Types, NoRecord
<1>2. d \in Devices /\ n \in Nat
  BY SizesAssumption DEF Types, Recorded, AllocationRecords
<1>3. \A e \in Devices : e # -1
  BY DEF Devices
<1>4. ASSUME NEW e
      PROVE  Ledger!Bytes(e)' = { c \in Ptrs \X Nat :
               /\ g_allocations'[c[1]].device_index = e
               /\ c[2] \in 1 .. g_allocations'[c[1]].size }
  BY DEF Ledger!Bytes
<1>5. Cells(p, n) = { c \in Ptrs \X Nat : c[1] = p /\ c[2] \in 1 .. n }
  BY <1>2 DEF Cells
<1>6. Ledger!Bytes(d)' = Ledger!Bytes(d) \ Cells(p, n)
  BY <1>1, <1>2, <1>3, <1>4, <1>5, BytesOf
<1>7. Cells(p, n) \subseteq Ledger!Bytes(d)
  BY <1>5, BytesOf
<1>8. ASSUME NEW e \in Devices \ {d} PROVE Ledger!Bytes(e)' = Ledger!Bytes(e)
  BY <1>1, <1>3, <1>4, BytesOf
<1> QED
  BY <1>2, <1>6, <1>7, <1>8

-----------------------------------------------------------------------------
(* The invariant of the counters.                                            *)

CountersExact ==
    \A d \in Devices : /\ IsFiniteSet(Ledger!Bytes(d))
                       /\ g_allocation_stats[d].current = Cardinality(Ledger!Bytes(d))

LedgerInv == Inv /\ CountersExact /\ NoUnderflow

StatsType == g_allocation_stats \in [Devices -> AllocationStats]

LEMMA LedgerInvInit == Init => LedgerInv
<1> SUFFICES ASSUME Init PROVE CountersExact /\ NoUnderflow
  BY InvInit DEF LedgerInv
<1>1. ASSUME NEW d \in Devices PROVE Ledger!Bytes(d) = {}
  <2>1. \A p \in Ptrs : g_allocations[p].device_index # d
    BY DEF Init, NoRecord, Devices
  <2> QED
    BY <2>1, BytesOf
<1>2. CountersExact
  BY <1>1, FS_EmptySet DEF CountersExact, Init
<1> QED
  BY <1>2 DEF Init, NoUnderflow

(* Actions that leave the records and the running counters alone.            *)
LEMMA CountersKept ==
    ASSUME LedgerInv, UNCHANGED g_allocations,
           \A d \in Devices : g_allocation_stats'[d].current = g_allocation_stats[d].current
    PROVE  CountersExact'
<1>1. \A d : Ledger!Bytes(d)' = Ledger!Bytes(d)
  BY DEF Ledger!Bytes
<1> QED
  BY <1>1 DEF LedgerInv, CountersExact

(* What TrackAllocation is: a charge of the ledger.                          *)
LEMMA TrackCharges ==
    ASSUME LedgerInv, NEW t \in Threads, TrackAllocation(t)
    PROVE  /\ CountersExact'
           /\ ptr[t] \in Ptrs /\ device[t] \in Devices /\ size[t] \in Sizes
           /\ g_allocations[ptr[t]] = NoRecord
           /\ g_allocations' = [g_allocations EXCEPT ![ptr[t]] =
                                  [device_index |-> device[t], size |-> size[t]]]
           /\ g_allocation_stats' = [g_allocation_stats EXCEPT ![device[t]] =
                                       Grown(@, size[t])]
<1> SUFFICES ASSUME NEW p, p = ptr[t], NEW d, d = device[t], NEW n, n = size[t]
             PROVE  /\ CountersExact'
                    /\ p \in Ptrs /\ d \in Devices /\ n \in Sizes
                    /\ g_allocations[p] = NoRecord
                    /\ g_allocations' = [g_allocations EXCEPT ![p] =
                                           [device_index |-> d, size |-> n]]
                    /\ g_allocation_stats' = [g_allocation_stats EXCEPT ![d] =
                                                Grown(@, n)]
  OBVIOUS
<1>1. Types /\ StatsType /\ Inv
  BY InvTypes DEF LedgerInv, Inv, TypeInv, TypeOK, StatsType
<1>2. todo[t] = <<"track">>
  BY <1>1, BodyTails DEF TrackAllocation, Types
<1>3. /\ p \in Ptrs /\ d \in Devices /\ ~Recorded(p)
      /\ n \in Sizes
  BY <1>1, <1>2, HasPtr DEF Inv, TypeInv, Locals, BlockInv, NewBlock, Types
<1>4. /\ g_allocations' = [g_allocations EXCEPT ![p] = [device_index |-> d, size |-> n]]
      /\ g_allocation_stats' = [g_allocation_stats EXCEPT ![d] = Grown(@, n)]
  BY DEF TrackAllocation, NewRecord
<1>5. /\ Ledger!Bytes(d)' = Ledger!Bytes(d) \cup Cells(p, n)
      /\ Ledger!Bytes(d) \cap Cells(p, n) = {}
      /\ \A e \in Devices \ {d} : Ledger!Bytes(e)' = Ledger!Bytes(e)
  BY <1>1, <1>3, <1>4, Recording
<1>6. /\ n \in Nat /\ IsFiniteSet(Cells(p, n)) /\ Cardinality(Cells(p, n)) = n
  BY <1>3, SizesAssumption, CellsFinite
<1>7. /\ IsFiniteSet(Ledger!Bytes(d))
      /\ g_allocation_stats[d].current = Cardinality(Ledger!Bytes(d))
      /\ g_allocation_stats[d] \in AllocationStats
  BY <1>1, <1>3 DEF LedgerInv, CountersExact, StatsType
<1>8. /\ g_allocation_stats'[d].current = g_allocation_stats[d].current + n
      /\ \A e \in Devices \ {d} : g_allocation_stats'[e] = g_allocation_stats[e]
  BY <1>1, <1>3, <1>4, <1>6 DEF StatsType, Grown, AllocationStats
<1>9. /\ IsFiniteSet(Ledger!Bytes(d) \cup Cells(p, n))
      /\ Cardinality(Ledger!Bytes(d) \cup Cells(p, n)) =
           Cardinality(Ledger!Bytes(d)) + n
  <2>1. /\ IsFiniteSet(Ledger!Bytes(d) \cup Cells(p, n))
        /\ Cardinality(Ledger!Bytes(d) \cup Cells(p, n)) =
             Cardinality(Ledger!Bytes(d)) + Cardinality(Cells(p, n))
               - Cardinality(Ledger!Bytes(d) \cap Cells(p, n))
    BY <1>6, <1>7, FS_Union
  <2>2. Cardinality(Ledger!Bytes(d) \cap Cells(p, n)) = 0
    BY <1>5, FS_EmptySet
  <2>3. Cardinality(Ledger!Bytes(d)) \in Nat
    BY <1>7, FS_CardinalityType
  <2> QED
    BY <1>6, <2>1, <2>2, <2>3
<1>10. CountersExact'
  <2> SUFFICES ASSUME NEW e \in Devices
               PROVE  /\ IsFiniteSet(Ledger!Bytes(e)')
                      /\ g_allocation_stats'[e].current = Cardinality(Ledger!Bytes(e)')
    BY DEF CountersExact
  <2>1. CASE e = d
    BY <1>5, <1>7, <1>8, <1>9, <2>1
  <2>2. CASE e # d
    BY <1>5, <1>8, <2>2 DEF LedgerInv, CountersExact
  <2> QED
    BY <2>1, <2>2
<1> QED
  BY <1>3, <1>4, <1>10 DEF Recorded

(* What UntrackAllocation is: a discharge of the ledger, with enough charged *)
(* to the device for the counter to be lowered.                              *)
LEMMA UntrackDischarges ==
    ASSUME LedgerInv, NEW t \in Threads, UntrackAllocation(t)
    PROVE  /\ CountersExact'
           /\ status' = status
           /\ ptr[t] \in Ptrs /\ g_allocations[ptr[t]] # NoRecord
           /\ g_allocations' = [g_allocations EXCEPT ![ptr[t]] = NoRecord]
           /\ \A d \in Devices : g_allocation_stats'[d].high = g_allocation_stats[d].high
<1> SUFFICES ASSUME NEW p, p = ptr[t],
                    NEW d, d = g_allocations[p].device_index,
                    NEW n, n = g_allocations[p].size
             PROVE  /\ CountersExact'
                    /\ status' = status
                    /\ p \in Ptrs /\ g_allocations[p] # NoRecord
                    /\ g_allocations' = [g_allocations EXCEPT ![p] = NoRecord]
                    /\ \A e \in Devices :
                          g_allocation_stats'[e].high = g_allocation_stats[e].high
  OBVIOUS
<1>1. Types /\ StatsType /\ Inv
  BY InvTypes DEF LedgerInv, Inv, TypeInv, TypeOK, StatsType
<1>2. todo[t] = <<"untrack", "mcFree">> \/ todo[t] = <<"untrack", "mcFreeAsync">>
  BY <1>1, BodyTails DEF UntrackAllocation, Types
<1>3. p \in Ptrs /\ Recorded(p)
  BY <1>1, <1>2, HasPtr DEF UntrackAllocation
<1>4. /\ g_allocations' = [g_allocations EXCEPT ![p] = NoRecord]
      /\ g_allocation_stats' = [g_allocation_stats EXCEPT ![d] = Shrunk(@, n)]
      /\ status' = IF g_allocation_stats[d].current >= n
                   THEN status ELSE "tracker underflow"
  BY DEF UntrackAllocation, Erased, ChargedTo
<1>5. /\ d \in Devices /\ n \in Nat
      /\ Ledger!Bytes(d)' = Ledger!Bytes(d) \ Cells(p, n)
      /\ Cells(p, n) \subseteq Ledger!Bytes(d)
      /\ \A e \in Devices \ {d} : Ledger!Bytes(e)' = Ledger!Bytes(e)
  BY <1>1, <1>3, <1>4, Erasing
<1>6. IsFiniteSet(Cells(p, n)) /\ Cardinality(Cells(p, n)) = n
  BY <1>5, CellsFinite
<1>7. /\ IsFiniteSet(Ledger!Bytes(d))
      /\ g_allocation_stats[d].current = Cardinality(Ledger!Bytes(d))
      /\ g_allocation_stats[d] \in AllocationStats
  BY <1>1, <1>5 DEF LedgerInv, CountersExact, StatsType
<1>8. Cardinality(Ledger!Bytes(d)) \in Nat /\ n <= Cardinality(Ledger!Bytes(d))
  BY <1>5, <1>6, <1>7, FS_CardinalityType, FS_Subset
<1>9. /\ IsFiniteSet(Ledger!Bytes(d) \ Cells(p, n))
      /\ Cardinality(Ledger!Bytes(d) \ Cells(p, n)) = Cardinality(Ledger!Bytes(d)) - n
  <2>1. Ledger!Bytes(d) \cap Cells(p, n) = Cells(p, n)
    BY <1>5
  <2>2. /\ IsFiniteSet(Ledger!Bytes(d) \ Cells(p, n))
        /\ Cardinality(Ledger!Bytes(d) \ Cells(p, n)) =
             Cardinality(Ledger!Bytes(d)) - Cardinality(Ledger!Bytes(d) \cap Cells(p, n))
    BY <1>7, FS_Difference
  <2> QED
    BY <1>6, <2>1, <2>2
<1>10. /\ g_allocation_stats'[d].current = g_allocation_stats[d].current - n
       /\ g_allocation_stats'[d].high = g_allocation_stats[d].high
       /\ \A e \in Devices \ {d} : g_allocation_stats'[e] = g_allocation_stats[e]
  BY <1>1, <1>4, <1>5, <1>7, <1>8 DEF StatsType, Shrunk, AllocationStats
<1>11. CountersExact'
  <2> SUFFICES ASSUME NEW e \in Devices
               PROVE  /\ IsFiniteSet(Ledger!Bytes(e)')
                      /\ g_allocation_stats'[e].current = Cardinality(Ledger!Bytes(e)')
    BY DEF CountersExact
  <2>1. CASE e = d
    BY <1>5, <1>7, <1>9, <1>10, <2>1
  <2>2. CASE e # d
    BY <1>5, <1>10, <2>2 DEF LedgerInv, CountersExact
  <2> QED
    BY <2>1, <2>2
<1>12. status' = status
  BY <1>4, <1>7, <1>8
<1> QED
  BY <1>3, <1>4, <1>10, <1>11, <1>12 DEF Recorded

LEMMA LedgerInvStep == LedgerInv /\ [Next]_vars => LedgerInv'
<1> SUFFICES ASSUME LedgerInv, [Next]_vars PROVE CountersExact' /\ status' # "tracker underflow"
  BY InvStep DEF LedgerInv, NoUnderflow
<1>1. status # "tracker underflow"
  BY DEF LedgerInv, NoUnderflow
<1>2. ASSUME NEW t \in Threads, TrackAllocation(t)
      PROVE  CountersExact' /\ status' # "tracker underflow"
  BY <1>1, <1>2, TrackCharges DEF TrackAllocation
<1>3. ASSUME NEW t \in Threads, UntrackAllocation(t)
      PROVE  CountersExact' /\ status' # "tracker underflow"
  BY <1>1, <1>3, UntrackDischarges
<1>4. ASSUME NEW t \in Threads, ResetHigh(t)
      PROVE  CountersExact' /\ status' # "tracker underflow"
  <2>1. PICK d \in Devices : g_allocation_stats' =
           [g_allocation_stats EXCEPT ![d].high = g_allocation_stats[d].current]
    BY <1>4 DEF ResetHigh
  <2>2. \A e \in Devices : g_allocation_stats'[e].current = g_allocation_stats[e].current
    BY <2>1 DEF LedgerInv, Inv, TypeInv, TypeOK, AllocationStats
  <2> QED
    BY <1>1, <1>4, <2>2, CountersKept DEF ResetHigh
<1>5. ASSUME UNCHANGED <<g_allocations, g_allocation_stats>>,
             status' \in {status, "out of memory"}
      PROVE  CountersExact' /\ status' # "tracker underflow"
  BY <1>1, <1>5, CountersKept
<1>6. ASSUME NEW t \in Threads, Call(t), ~ResetHigh(t)
      PROVE  UNCHANGED <<g_allocations, g_allocation_stats, status>>
  BY <1>6 DEF Call, Malloc, MallocAsync, Free, FreeAsync, BeginMalloc, BeginFree,
              SetDevice, Launch
<1>7. ASSUME NEW t \in Threads, Step(t), ~TrackAllocation(t), ~UntrackAllocation(t)
      PROVE  /\ UNCHANGED <<g_allocations, g_allocation_stats>>
             /\ status' \in {status, "out of memory"}
  BY <1>7 DEF Step, McMalloc, McMallocAsync, OutOfMemory, UntrackUnknown, McFree,
              McFreeAsync, StreamSynchronize
<1>8. ASSUME NEW d \in Devices, StreamRun(d)
      PROVE  UNCHANGED <<g_allocations, g_allocation_stats, status>>
  BY <1>8 DEF StreamRun
<1>9. CASE UNCHANGED vars
  BY <1>5, <1>9 DEF vars
<1> QED
  BY <1>2, <1>3, <1>4, <1>5, <1>6, <1>7, <1>8, <1>9 DEF Next

LEMMA LedgerInvAlways == Spec => []LedgerInv
BY LedgerInvInit, LedgerInvStep, PTL DEF Spec

-----------------------------------------------------------------------------
(* The theorems.                                                             *)

(* The running counter of each device, kept by TrackAllocation and           *)
(* UntrackAllocation, is the sum of the sizes recorded for it.               *)
THEOREM CounterIsSum == Spec => []CurrentIsSum
<1>1. LedgerInv => CurrentIsSum
  BY SameCardinality DEF LedgerInv, CountersExact, CurrentIsSum, Ledger!InUse
<1> QED
  BY <1>1, LedgerInvAlways, PTL

(* The CHECK_GE of UntrackAllocation never aborts the process.               *)
THEOREM NeverUnderflows == Spec => []NoUnderflow
<1>1. LedgerInv => NoUnderflow
  BY DEF LedgerInv
<1> QED
  BY <1>1, LedgerInvAlways, PTL

-----------------------------------------------------------------------------
(* The tracker implements the ledger.                                        *)

LEMMA LedgerInit == Init => Ledger!LInit
BY DEF Init, Ledger!LInit, Ledger!NoRecord, NoRecord, Ledger!Devices, Devices

LEMMA InUseIsCurrent ==
    ASSUME CountersExact, NEW d \in Devices
    PROVE  Ledger!InUse(d) = g_allocation_stats[d].current
BY SameCardinality DEF CountersExact, Ledger!InUse

LEMMA LedgerStep ==
    ASSUME LedgerInv, LedgerInv', [Next]_vars
    PROVE  [Ledger!LNext]_(Ledger!lvars)
<1> DEFINE highs == [d \in 0 .. DeviceCount - 1 |-> g_allocation_stats[d].high]
<1>1. /\ g_allocation_stats \in [Devices -> AllocationStats]
      /\ g_allocation_stats' \in [Devices -> AllocationStats]
  BY DEF LedgerInv, Inv, TypeInv, TypeOK
<1>2. Devices = 0 .. DeviceCount - 1 /\ Ledger!Devices = 0 .. DeviceCount - 1
  BY DEF Devices, Ledger!Devices
<1>3. ASSUME NEW t \in Threads, TrackAllocation(t) PROVE Ledger!LNext
  <2> SUFFICES ASSUME NEW p \in Ptrs, NEW d \in Devices, NEW n \in Sizes,
                      g_allocations[p] = NoRecord,
                      g_allocations' = [g_allocations EXCEPT ![p] =
                                          [device_index |-> d, size |-> n]],
                      g_allocation_stats' = [g_allocation_stats EXCEPT ![d] = Grown(@, n)]
               PROVE  Ledger!Charge(p, d, n)
    BY <1>2, <1>3, TrackCharges DEF Ledger!LNext
  <2>1. Ledger!InUse(d)' = g_allocation_stats'[d].current
    BY SameCardinality DEF LedgerInv, CountersExact, Ledger!InUse
  <2>2. n \in Nat
    BY SizesAssumption
  <2>3. highs' = [highs EXCEPT ![d] = Ledger!Larger(@, Ledger!InUse(d)')]
    <3>1. /\ g_allocation_stats[d].current \in Nat /\ g_allocation_stats[d].high \in Nat
          /\ g_allocation_stats'[d] = Grown(g_allocation_stats[d], n)
          /\ \A e \in Devices \ {d} : g_allocation_stats'[e] = g_allocation_stats[e]
      BY <1>1 DEF AllocationStats
    <3>2. g_allocation_stats'[d].high =
             Ledger!Larger(g_allocation_stats[d].high, Ledger!InUse(d)')
      BY <2>1, <2>2, <3>1 DEF Grown, Ledger!Larger
    <3>3. /\ highs[d] = g_allocation_stats[d].high
          /\ highs' = [e \in Devices |-> g_allocation_stats'[e].high]
          /\ highs = [e \in Devices |-> g_allocation_stats[e].high]
      BY <1>2
    <3> HIDE DEF highs
    <3>4. highs' = [highs EXCEPT ![d] = g_allocation_stats'[d].high]
      BY <3>1, <3>3
    <3> QED
      BY <3>2, <3>3, <3>4
  <2> QED
    BY <2>3 DEF Ledger!Charge, Ledger!NoRecord, NoRecord
<1>4. ASSUME NEW t \in Threads, UntrackAllocation(t) PROVE Ledger!LNext
  <2> SUFFICES ASSUME NEW p \in Ptrs, g_allocations[p] # NoRecord,
                      g_allocations' = [g_allocations EXCEPT ![p] = NoRecord],
                      \A d \in Devices :
                         g_allocation_stats'[d].high = g_allocation_stats[d].high
               PROVE  Ledger!Discharge(p)
    BY <1>4, UntrackDischarges DEF Ledger!LNext
  <2>1. highs' = highs
    BY <1>2
  <2> QED
    BY <2>1 DEF Ledger!Discharge, Ledger!NoRecord, NoRecord
<1>5. ASSUME NEW t \in Threads, ResetHigh(t) PROVE Ledger!LNext
  <2>1. PICK d \in Devices : g_allocation_stats' =
           [g_allocation_stats EXCEPT ![d].high = g_allocation_stats[d].current]
    BY <1>5 DEF ResetHigh
  <2>2. Ledger!InUse(d) = g_allocation_stats[d].current
    BY InUseIsCurrent DEF LedgerInv
  <2>3. highs' = [highs EXCEPT ![d] = Ledger!InUse(d)]
    <3>1. /\ g_allocation_stats'[d].high = g_allocation_stats[d].current
          /\ \A e \in Devices \ {d} : g_allocation_stats'[e] = g_allocation_stats[e]
      BY <1>1, <2>1 DEF AllocationStats
    <3> QED
      BY <1>2, <2>2, <3>1
  <2>4. Ledger!Reset(d)
    BY <1>5, <2>3 DEF ResetHigh, Ledger!Reset
  <2> QED
    BY <1>2, <2>4 DEF Ledger!LNext
<1>6. ASSUME UNCHANGED <<g_allocations, g_allocation_stats>>
      PROVE  UNCHANGED Ledger!lvars
  BY <1>6 DEF Ledger!lvars
<1>7. ASSUME NEW t \in Threads, Call(t), ~ResetHigh(t)
      PROVE  UNCHANGED <<g_allocations, g_allocation_stats>>
  BY <1>7 DEF Call, Malloc, MallocAsync, Free, FreeAsync, BeginMalloc, BeginFree,
              SetDevice, Launch
<1>8. ASSUME NEW t \in Threads, Step(t), ~TrackAllocation(t), ~UntrackAllocation(t)
      PROVE  UNCHANGED <<g_allocations, g_allocation_stats>>
  BY <1>8 DEF Step, McMalloc, McMallocAsync, OutOfMemory, UntrackUnknown, McFree,
              McFreeAsync, StreamSynchronize
<1>9. ASSUME NEW d \in Devices, StreamRun(d)
      PROVE  UNCHANGED <<g_allocations, g_allocation_stats>>
  BY <1>9 DEF StreamRun
<1>10. CASE UNCHANGED vars
  BY <1>6, <1>10 DEF vars
<1> QED
  BY <1>3, <1>4, <1>5, <1>6, <1>7, <1>8, <1>9, <1>10 DEF Next

(* The tracker, with its lock, its records and its running counters,         *)
(* implements AllocationLedger: every step of the program is a charge, a     *)
(* discharge or a reset of the ledger, or leaves it alone.                   *)
THEOREM TrackerImplementsLedger == Spec => LedgerSpec
<1>1. Init => Ledger!LInit
  BY LedgerInit
<1>2. LedgerInv /\ LedgerInv' /\ [Next]_vars => [Ledger!LNext]_(Ledger!lvars)
  BY LedgerStep
<1> QED
  BY <1>1, <1>2, LedgerInvAlways, PTL DEF Spec, LedgerSpec, Ledger!LSpec
=============================================================================
