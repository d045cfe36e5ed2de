----------------------------- MODULE MacaAllocator -----------------------------
(***************************************************************************)
(* Device memory of the MACA backend (runtime/maca_guard_impl.cc): Malloc, *)
(* MallocAsync, Free and FreeAsync, called by any number of host threads,  *)
(* and the tracker that charges synchronous blocks to their device.        *)
(*                                                                         *)
(* A call is the sequence of its steps (todo[t]); a step is what happens   *)
(* under one acquisition of g_allocation_mutex or in one call of the       *)
(* driver, so that other threads run between two steps of a call.          *)
(*                                                                         *)
(* The driver (mcMalloc, mcFree, streams) is external: an address is taken *)
(* when it is handed out, free again at mcFree at once, and after          *)
(* mcFreeAsync when the stream reaches the free.                           *)
(***************************************************************************)
EXTENDS Integers, Sequences, FiniteSets

CONSTANTS
    Threads,                    \* host threads
    Ptrs,                       \* device addresses the driver may hand out
    Sizes,                      \* sizes in bytes that callers ask for
    DeviceCount,                \* number of MACA devices
    MaxQueue,                   \* bound on the kernels waiting in a stream
    MultithreadWorkarounds,     \* g_multithread_workarounds
    NoPtr                       \* the null pointer

ASSUME PtrsAssumption == IsFiniteSet(Ptrs) /\ NoPtr \notin Ptrs
ASSUME SizesAssumption == Sizes \subseteq Nat \ {0}
ASSUME CountAssumption == DeviceCount \in Nat \ {0} /\ MaxQueue \in Nat
ASSUME ModeAssumption == MultithreadWorkarounds \in BOOLEAN

VARIABLES
    g_allocations,          \* address -> AllocationRecord, or NoRecord
    g_allocation_stats,     \* device -> AllocationStats
    block,                  \* driver: address -> the block that lives there
    queue,                  \* driver: device -> work waiting in its stream
    held,                   \* addresses the callers own
    device,                 \* thread -> its current device
    todo,                   \* thread -> steps its call has still to make
    ptr,                    \* thread -> address its call is about
    size,                   \* thread -> size its call asks for
    wait,                   \* thread -> work mcStreamSynchronize still awaits
    status                  \* "running", or why the process was aborted

vars == <<g_allocations, g_allocation_stats, block, queue, held, device, todo,
          ptr, size, wait, status>>

Ledger == INSTANCE AllocationLedger WITH
            ledger <- g_allocations,
            high <- [d \in 0 .. DeviceCount - 1 |-> g_allocation_stats[d].high]

-----------------------------------------------------------------------------
(* Data.                                                                     *)

Devices == 0 .. DeviceCount - 1

NoRecord == [device_index |-> -1, size |-> 0]

NoBlock == [kind |-> "none", dev |-> 0, size |-> 0]

AllocationRecords == [device_index : Devices, size : Sizes]

AllocationStats == [current : Nat, high : Nat]

Blocks == [kind : {"sync", "pool"}, dev : Devices, size : Sizes]

Work == [kind : {"kernel", "free"}, ptr : Ptrs]

Recorded(p) == g_allocations[p] # NoRecord

(* The steps of each call, in program order.                                 *)
MallocBody == <<"mcMalloc", "track">>

MallocAsyncBody ==
    IF MultithreadWorkarounds THEN MallocBody ELSE <<"mcMallocAsync">>

FreeBodyLate == <<"mcFree", "untrack">>
FreeBody == <<"untrack", "mcFree">>

FreeAsyncBodySync == FreeBody
FreeAsyncBodyNoWait ==
    IF MultithreadWorkarounds THEN FreeBody ELSE <<"untrack", "mcFreeAsync">>
FreeAsyncBody ==
    IF MultithreadWorkarounds
    THEN <<"streamSynchronize", "untrack", "mcFree">>       \* waits, then Free
    ELSE <<"untrack", "mcFreeAsync">>

-----------------------------------------------------------------------------
Init ==
    /\ g_allocations = [p \in Ptrs |-> NoRecord]
    /\ g_allocation_stats = [d \in Devices |-> [current |-> 0, high |-> 0]]
    /\ block = [p \in Ptrs |-> NoBlock]
    /\ queue = [d \in Devices |-> <<>>]
    /\ held = {}
    /\ device = [t \in Threads |-> 0]
    /\ todo = [t \in Threads |-> <<>>]
    /\ ptr = [t \in Threads |-> NoPtr]
    /\ size = [t \in Threads |-> 0]
    /\ wait = [t \in Threads |-> 0]
    /\ status = "running"

Idle(t) == status = "running" /\ todo[t] = <<>>

At(t, step) == status = "running" /\ todo[t] # <<>> /\ Head(todo[t]) = step

(* The step is done, p is the address the call is about; a call that has no  *)
(* step left returns and forgets its locals.                                 *)
Advance(t, p) ==
    LET rest == Tail(todo[t])
    IN  /\ todo' = [todo EXCEPT ![t] = rest]
        /\ ptr' = [ptr EXCEPT ![t] = IF rest = <<>> THEN NoPtr ELSE p]
        /\ size' = [size EXCEPT ![t] = IF rest = <<>> THEN 0 ELSE @]

-----------------------------------------------------------------------------
(* Calls.  A null pointer or a size of zero makes every call but Malloc(0)   *)
(* return at once, and Malloc(0) hands out the null pointer, which is not    *)
(* tracked: such calls change nothing and are left out.                      *)

BeginMalloc(t, body) ==
    /\ Idle(t)
    /\ \E n \in Sizes : size' = [size EXCEPT ![t] = n]
    /\ todo' = [todo EXCEPT ![t] = body]
    /\ UNCHANGED <<g_allocations, g_allocation_stats, block, queue, held,
                   device, ptr, wait, status>>

Malloc(t) == BeginMalloc(t, MallocBody)

MallocAsync(t) == BeginMalloc(t, MallocAsyncBody)

(* A caller gives up the address when it asks to free it, so that an address *)
(* is freed once.                                                            *)
BeginFree(t, p, body) ==
    /\ Idle(t)
    /\ p \in held
    /\ held' = held \ {p}
    /\ ptr' = [ptr EXCEPT ![t] = p]
    /\ todo' = [todo EXCEPT ![t] = body]
    /\ UNCHANGED <<g_allocations, g_allocation_stats, block, queue, device,
                   size, status>>

Pending(p) == \E d \in Devices : \E i \in 1 .. Len(queue[d]) : queue[d][i].ptr = p

(* Free waits for no stream: its caller has no work left on the block.       *)
Free(t) ==
    \E p \in Ptrs : ~Pending(p) /\ BeginFree(t, p, FreeBody) /\ UNCHANGED wait

(* FreeAsync is given the stream the block is used on, the one of its        *)
(* device; mcStreamSynchronize awaits the work that is in it at the call.    *)
WorkToAwait(p) ==
    IF MultithreadWorkarounds THEN Len(queue[block[p].dev]) ELSE 0

FreeAsync(t) ==
    \E p \in Ptrs : /\ BeginFree(t, p, FreeAsyncBody)
                    /\ wait' = [wait EXCEPT ![t] = WorkToAwait(p)]

SetDevice(t) ==
    /\ Idle(t)
    /\ \E d \in Devices \ {device[t]} : device' = [device EXCEPT ![t] = d]
    /\ UNCHANGED <<g_allocations, g_allocation_stats, block, queue, held, todo,
                   ptr, size, wait, status>>

(* The tracker's part of ResetMemPoolHighWatermarks: one critical section.   *)
ResetHigh(t) ==
    /\ Idle(t)
    /\ \E d \in Devices :
         g_allocation_stats' =
            [g_allocation_stats EXCEPT ![d].high = g_allocation_stats[d].current]
    /\ UNCHANGED <<g_allocations, block, queue, held, device, todo, ptr, size,
                   wait, status>>

-----------------------------------------------------------------------------
(* Steps of a call.                                                          *)

Place(t, p, kind) ==
    /\ block[p] = NoBlock
    /\ block' = [block EXCEPT ![p] =
                    [kind |-> kind, dev |-> device[t], size |-> size[t]]]

McMalloc(t) ==
    /\ At(t, "mcMalloc")
    /\ \E p \in Ptrs : Place(t, p, "sync") /\ Advance(t, p)
    /\ UNCHANGED <<g_allocations, g_allocation_stats, queue, held, device,
                   wait, status>>

McMallocAsync(t) ==
    /\ At(t, "mcMallocAsync")
    /\ \E p \in Ptrs : /\ Place(t, p, "pool")
                       /\ held' = held \cup {p}
                       /\ Advance(t, p)
    /\ UNCHANGED <<g_allocations, g_allocation_stats, queue, device, wait,
                   status>>

(* MACA_CHECK aborts the process when the driver has no memory left.         *)
OutOfMemory(t) ==
    /\ At(t, "mcMalloc") \/ At(t, "mcMallocAsync")
    /\ \A p \in Ptrs : block[p] # NoBlock
    /\ status' = "out of memory"
    /\ UNCHANGED <<g_allocations, g_allocation_stats, block, queue, held,
                   device, todo, ptr, size, wait>>

NewRecordSwapped(d, n) == [device_index |-> n, size |-> d]
NewRecord(d, n) == [device_index |-> d, size |-> n]

GrownUnlatched(stats, n) ==
    [current |-> stats.current + n, high |-> stats.current + n]
Grown(stats, n) ==
    LET now == stats.current + n
    IN  [current |-> now, high |-> IF stats.high >= now THEN stats.high ELSE now]

TrackAllocation(t) ==
    LET p == ptr[t]
        d == device[t]
        n == size[t]
    IN  /\ At(t, "track")
        /\ g_allocations' = [g_allocations EXCEPT ![p] = NewRecord(d, n)]
        /\ g_allocation_stats' = [g_allocation_stats EXCEPT ![d] = Grown(@, n)]
        /\ held' = held \cup {p}
        /\ Advance(t, p)
        /\ UNCHANGED <<block, queue, device, wait, status>>

(* The device a block is uncharged from: the record's, whatever device the   *)
(* freeing thread is on.                                                     *)
ChargedToCurrent(t) == device[t]
ChargedTo(t) == g_allocations[ptr[t]].device_index

ErasedKept(p) == g_allocations
Erased(p) == [g_allocations EXCEPT ![p] = NoRecord]

UntrackUnknown(t) ==
    /\ At(t, "untrack")
    /\ ~Recorded(ptr[t])
    /\ Advance(t, ptr[t])
    /\ UNCHANGED <<g_allocations, g_allocation_stats, block, queue, held,
                   device, wait, status>>

(* CHECK_GE aborts the process before the counter could wrap.                *)
Shrunk(stats, n) ==
    IF stats.current >= n THEN [stats EXCEPT !.current = @ - n] ELSE stats

UntrackAllocation(t) ==
    LET d == ChargedTo(t)
        n == g_allocations[ptr[t]].size
    IN  /\ At(t, "untrack")
        /\ Recorded(ptr[t])
        /\ status' = IF g_allocation_stats[d].current >= n
                     THEN status ELSE "tracker underflow"
        /\ g_allocation_stats' = [g_allocation_stats EXCEPT ![d] = Shrunk(@, n)]
        /\ g_allocations' = Erased(ptr[t])
        /\ Advance(t, ptr[t])
        /\ UNCHANGED <<block, queue, held, device, wait>>

Released(t) == [block EXCEPT ![ptr[t]] = NoBlock]

McFreeSkipped(t) ==
    /\ At(t, "mcFree")
    /\ Advance(t, ptr[t])
    /\ UNCHANGED <<g_allocations, g_allocation_stats, block, queue, held, device,
                   wait, status>>
McFree(t) ==
    /\ At(t, "mcFree")
    /\ block' = Released(t)
    /\ Advance(t, ptr[t])
    /\ UNCHANGED <<g_allocations, g_allocation_stats, queue, held, device, wait,
                   status>>

McFreeAsync(t) ==
    /\ At(t, "mcFreeAsync")
    /\ queue' = [queue EXCEPT ![block[ptr[t]].dev] =
                    Append(@, [kind |-> "free", ptr |-> ptr[t]])]
    /\ Advance(t, ptr[t])
    /\ UNCHANGED <<g_allocations, g_allocation_stats, block, held, device, wait,
                   status>>

StreamSynchronize(t) ==
    /\ At(t, "streamSynchronize")
    /\ wait[t] = 0
    /\ Advance(t, ptr[t])
    /\ UNCHANGED <<g_allocations, g_allocation_stats, block, queue, held,
                   device, wait, status>>

-----------------------------------------------------------------------------
(* The streams.                                                              *)

(* A thread launches a kernel that reads or writes a block it owns.          *)
Launch(t) ==
    /\ Idle(t)
    /\ \E p \in held :
         LET d == block[p].dev
         IN  /\ Len(queue[d]) < MaxQueue
             /\ queue' = [queue EXCEPT ![d] =
                             Append(@, [kind |-> "kernel", ptr |-> p])]
    /\ UNCHANGED <<g_allocations, g_allocation_stats, block, held, device, todo,
                   ptr, size, wait, status>>

Awaits(t, d) == /\ todo[t] # <<>>
                /\ Head(todo[t]) = "streamSynchronize"
                /\ block[ptr[t]].dev = d

(* The device finishes the oldest work of a stream.                          *)
StreamRun(d) ==
    /\ status = "running"
    /\ queue[d] # <<>>
    /\ LET work == Head(queue[d])
       IN  block' = IF work.kind = "free"
                    THEN [block EXCEPT ![work.ptr] = NoBlock] ELSE block
    /\ queue' = [queue EXCEPT ![d] = Tail(@)]
    /\ wait' = [t \in Threads |-> IF Awaits(t, d) /\ wait[t] > 0
                                  THEN wait[t] - 1 ELSE wait[t]]
    /\ UNCHANGED <<g_allocations, g_allocation_stats, held, device, todo, ptr,
                   size, status>>

-----------------------------------------------------------------------------
Step(t) == \/ McMalloc(t) \/ McMallocAsync(t) \/ OutOfMemory(t)
           \/ TrackAllocation(t) \/ UntrackUnknown(t) \/ UntrackAllocation(t)
           \/ McFree(t) \/ McFreeAsync(t) \/ StreamSynchronize(t)

Call(t) == \/ Malloc(t) \/ MallocAsync(t) \/ Free(t) \/ FreeAsync(t)
           \/ SetDevice(t) \/ ResetHigh(t) \/ Launch(t)

Next == \/ \E t \in Threads : Call(t) \/ Step(t)
        \/ \E d \in Devices : StreamRun(d)

Spec == Init /\ [][Next]_vars

-----------------------------------------------------------------------------
(* Properties.                                                               *)

Bodies == { <<>>, <<"mcMalloc", "track">>, <<"track">>, <<"mcMallocAsync">>,
            <<"streamSynchronize", "untrack", "mcFree">>,
            <<"untrack", "mcFree">>, <<"mcFree">>,
            <<"untrack", "mcFreeAsync">>, <<"mcFreeAsync">> }

Statuses == {"running", "out of memory", "tracker underflow"}

(* Every variable has its type; in particular a record names a device that   *)
(* exists and a size that was asked for.                                     *)
TypeOK ==
    /\ g_allocations \in [Ptrs -> AllocationRecords \cup {NoRecord}]
    /\ g_allocation_stats \in [Devices -> AllocationStats]
    /\ block \in [Ptrs -> Blocks \cup {NoBlock}]
    /\ queue \in [Devices -> Seq(Work)]
    /\ held \subseteq Ptrs
    /\ device \in [Threads -> Devices]
    /\ todo \in [Threads -> Bodies]
    /\ ptr \in [Threads -> Ptrs \cup {NoPtr}]
    /\ size \in [Threads -> Sizes \cup {0}]
    /\ wait \in [Threads -> Nat]
    /\ status \in Statuses

(* The running counter of a device is the sum of the sizes recorded for it,  *)
(* whatever devices the threads that allocate and free are on.               *)
CurrentIsSum ==
    \A d \in Devices : g_allocation_stats[d].current = Ledger!InUse(d)

(* The CHECK_GE of UntrackAllocation never aborts the process.               *)
NoUnderflow == status # "tracker underflow"

(* A record always describes the synchronous block that lives at its         *)
(* address: a block that another thread is given at a reused address never   *)
(* meets the record of the block before it.                                  *)
RecordsDescribeBlocks ==
    \A p \in Ptrs : Recorded(p) =>
        block[p] = [kind |-> "sync", dev |-> g_allocations[p].device_index,
                    size |-> g_allocations[p].size]

QueuedFree(p) == \E d \in Devices : \E i \in 1 .. Len(queue[d]) :
                     queue[d][i] = [kind |-> "free", ptr |-> p]

(* A synchronous block that is not charged to a device is in the middle of   *)
(* its allocation or of its release.                                         *)
UnchargedOnlyInFlight ==
    \A p \in Ptrs : (block[p].kind = "sync" /\ ~Recorded(p)) =>
        \/ QueuedFree(p)
        \/ \E t \in Threads : /\ ptr[t] = p
                              /\ todo[t] \in {<<"track">>, <<"mcFree">>,
                                              <<"mcFreeAsync">>}

(* Work that waits in a stream finds its block still there, on its device.   *)
PendingWorkIsLive ==
    \A d \in Devices : \A i \in 1 .. Len(queue[d]) :
        block[queue[d][i].ptr] # NoBlock /\ block[queue[d][i].ptr].dev = d

(* The tracker implements the ledger.                                        *)
LedgerSpec == Ledger!LSpec
=============================================================================
