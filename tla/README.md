# Formal models of InfiniTrain-Backends

This directory holds TLA+ models of the MACA backend in `src/`, the TLC
configurations that check them on small instances, and theorems that TLAPS
proves for every instance of them. Every definition is translated from the
source; `PROJECT.json` names the lines of each ("map").

    tlc -config alloc_sync.cfg MCMacaAllocator.tla      # model-check a run
    tlapm MacaAllocatorProofs.tla                       # check the proofs

## The system

The repository plugs a device backend into the InfiniTrain framework. The
framework (a submodule, not in this repository) calls the backend through three
registries: the device guard, the collectives and the kernels. Host threads,
usually one for each device, call it concurrently. The backend calls the MACA
driver, MCBLAS and MCCL, which are not in this repository either.

| Component | State | Operations | Talks to |
|---|---|---|---|
| Device memory (`maca_guard_impl.cc`) | `g_allocations`, `g_allocation_stats` under `g_allocation_mutex` | `Malloc`, `MallocAsync`, `Free`, `FreeAsync`, `TrackAllocation`, `UntrackAllocation` | the driver's blocks, pool and streams |
| Peak memory (same file) | the tracker's `high`, the pool's two watermarks | `ResetMemPoolHighWatermarks`, `GetMemPoolPeakMB` | tracker, pool, the thread's current device |
| Device context (same file, `maca_runtime_common.cc`) | captured flags, vectors of streams and BLAS handles, one `once_flag` for each, the thread's current device | `Initialize`, `InitSingleStream`, `InitSingleHandle`, `GetStream`, `CreateStream`, `GetBlasHandle`, `SetDevice`, `SynchronizeDevice` | driver, MCBLAS |
| Streams and events on request (same files) | streams and events of the callers | `CreateStream`, `DestroyStream`, `EventCreate`, `EventRecord`, `StreamWaitEvent`, `EventSynchronize`, `EventQuery`, `SynchronizeStream`, `SynchronizeDevice`, `Memcpy` | driver |
| Copies and metadata uploads (same file, `kernels/*.maca`) | `g_memcpy_mutex`, scratch buffers | `MemcpyAsync`; allocate, upload, launch and free in slice, gather, concat, split, stack, transpose | streams |
| Collectives (`ccl/`) | communicator handles, the segment length read once | `AllReduce` (segmented), pass-through collectives, groups, unique ids, communicator life cycle | MCCL, streams |
| Environment and command line (`maca_guard_impl.cc`) | process environment | `ReadTensorParallelFromCmdline`, defaults in `Initialize` | MACA runtime, MCCL |
| Linear, GEMM (`linear.maca`, `outer.maca`, `common/gemm.cc`) | temporaries, a switch read once | mapping to column-major calls, accumulation in double precision | MCBLAS, the stream of the handle |
| Elementwise and broadcast backward (`elementwise.maca`, `common/kernel_helper.cuh`) | shared memory of a block, work buffers | forward, backward, three reductions of a broadcast gradient | streams |
| Index kernels | none; one output element for each thread | slice, stack, concat, split, gather, scatter, transpose, repeat-interleave | metadata uploads |
| Masks, tril, triu; top-k, embedding | none | two ways to broadcast a mask, ranking, look-up | - |
| Normalisation, losses, reductions | shared memory of a block | forward, backward | - |
| Registration (`backend.cc`) | one `once_flag` | `RegisterBackend` | framework |
| Model test runner, lint drivers, clang-tidy check, build files | files | merging configurations, choosing what to check | git, clang |

What is hard in it: steps of several host threads between the acquisitions of a
mutex and the calls of the driver; work that runs in a stream after its call
has returned; nested `call_once` with a thread-local current device to put
back; watermarks reset while others allocate; segments of one reduction that
must meet on all ranks; communicators and ids that are used again by ranks that
have drifted apart; events recorded again while others wait for them; threads of
a block that merge partial sums in shared memory; index arithmetic at its
boundaries. `PROJECT.json` ("hazards") lists each at its line with the
properties that would catch it.

What makes each component correct:

* memory: the tracker's counters are the sum of the blocks it holds, a record
  describes the live block at its address, nothing is freed while a stream's
  work needs it;
* peak memory: the reported peak is no less than what was in use at once, a
  reset forgets the past;
* context: each object is on its device and ready when a caller gets it, the
  device of a thread stays its caller's, every call uses one mode, no `call_once`
  leaves everyone waiting;
* copies and uploads: a kernel reads its own metadata, or none where a refused
  upload went unchecked, scratch memory is given back, guarded copies do not
  overlap;
* streams and events: nothing is carried out before what an event or its stream
  puts before it, and what a call says is done is done;
* collectives: the segments reduce every element once, as the one call would;
  communicators of different generations never mix, no handle is lost or used
  when it is destroyed, and nobody waits for ever;
* products: the results are the row-major products, from no cell outside of the
  operands, and one process accumulates alike all that it asks of `Gemm`;
* broadcast gradient: each contribution is added once, to its own element, in
  memory that was filled before;
* index kernels: every output element is written once, from the right input.

## Modules

| Module | What it models |
|---|---|
| `AllocationLedger` | the promise of the tracker: a map from addresses to charges, whose high-water mark follows the sum |
| `MacaAllocator` | allocation and release, one action for each critical section or driver call |
| `MacaMemPeak` | resets and reads of the three watermarks |
| `MacaDeviceContext` | the lazily built context |
| `MacaEvents` | streams and events on request, and the calls that wait |
| `MacaCopy` | copies, scratch memory and streams |
| `AllReduce` | the promise of an all-reduce: every element, on all ranks together, once |
| `McclAllReduce` | the segmented all-reduce |
| `McclComm` | unique ids, communicators, groups, the other collectives, sends and receives |
| `MacaGemm` | linear, matmul, outer and `Gemm` as column-major calls, in both paths |
| `BroadcastGrad` | the gradient of a broadcast operand, thread by thread |
| `IndexKernels` | the kernels that move elements, as functions |
| `LaunchPolicy` | what `Initialize` makes of command line and environment |
| `MC...` | an instance of each for TLC; `MCFunctions` is that of the last two |
| `MacaAllocatorProofs` | proofs about `MacaAllocator`: types, ownership, counters and refinement |
| `MacaMemPeakProofs`, `MacaDeviceContextProofs`, `MacaEventsProofs`, `MacaCopyProofs`, `McclAllReduceProofs`, `McclCommProofs` | proofs about the modules of those names |
| `KernelProofs` | proofs about `BroadcastGrad` and `MacaGemm` |

`McclAllReduce` and `MacaAllocator` instantiate their abstract specifications,
`AllReduce` and `AllocationLedger`, with a refinement mapping. The modules share
no variables: what one needs of another's component is a step of its own (a
stream that carries out its work, a context that is built) and not a copy of
that model.

### How the models correspond to the code

A call in progress is a sequence of steps, `todo[t]`, in program order. Each
step is one action, and is what the code does under one acquisition of a mutex
or in one driver call; between two steps any other thread may run. The bodies
(`MallocBody`, `FreeAsyncBody`, `InitSingleStreamBody`, ...) are the order of
the steps in the functions of those names. A failed `CHECK` or `MACA_CHECK`
ends the process: `status` says so, and nothing happens afterwards.

*`MacaAllocator`.* `g_allocations` and `g_allocation_stats` are the variables
of those names; `block` and `queue` are the driver's live blocks and the work
in each device's stream. `Malloc` is `mcMalloc` then `track`; `Free` is
`untrack` then `mcFree`; `FreeAsync` waits for its stream first when the
workarounds are on. `mcStreamSynchronize` waits for the work that was in the
stream when it began. An address is free for reuse at `mcFree`, or when the
stream reaches an asynchronous free. `held` is what callers own; a caller
frees what it owns, once, and submits work only on what it owns.

*`MacaMemPeak`.* A reset is three steps (the pool's used mark, its reserved
mark, the tracker's mark), a read three more; the sums are made from what the
thread read, whatever happened since. History variables hold what the peaks
are compared with. `torn` remembers that the pool gave pages back while a call was
between the resets of its two marks: the used mark then still counts pages that
the reserved mark has forgotten.

*`MacaDeviceContext`.* `once[f]` is a `std::once_flag`. The thread that runs
the function gets its steps in front of its own; others wait for "done".
`Initialize` is a call of its own, which the framework makes at some moment, from
outside of `src/`; no other function of the backend calls it. A call that comes
before it, or into the middle of it, finds the vectors as they are: empty until
`Resize`, their flags made one device after another (`MakeFlags`), and a check or
an `at()` that fails is `Abort`. `MallocAsync` and `FreeAsync` read
`g_multithread_workarounds` without asking for anything (`AllocatorMode`); before
the capture that is the initial false, whose implementation takes a stream, and
there is none to be had before the capture (`given`). `OneMode` shows that this
keeps the mode one, which is what `InitializeBodyCapturesLast` would break.
`saved` is the stack of the locals `current_device`. `Enter` and `Restore` are
`mcGetDevice`/`mcSetDevice` around the object's construction. The accesses of
threads to the vectors and the captured flags, which `Initialize` writes while
others may read, are interleaved one by one: a data race in C++, of which the model
keeps the outcomes of a machine that does not reorder stores (x86).

*`MacaCopy`.* `CopyBegin` and `CopyEnd` are the two ends of a call of
`mcMemcpyAsync`. A kernel call goes through `mcMallocAsync`, its uploads part by
part (`part`: up to five in slice), the launch and `mcFreeAsync`; its work stays in
`queue` when it has returned. The pool may hand a freed buffer to the same stream
at once, to another one when no work on it waits. The driver may refuse any
allocation and any copy. Gather and concat check each call and abort
(`RefusedChecked`); slice, split, stack and transpose go on: the kernel is launched
over a part that holds whatever was there before (`CopyRefused`, `refused`), or the
pointer is what the stack held (`OutOfMemoryUnchecked`), which may be the address
of a buffer that another call is using (`strayed`). The model says so instead of
hiding it: `KernelsReadTheirMetadata` claims nothing of the refused parts of an
unchecked call, and nothing more once a pointer has strayed. Left out are an unset
pointer into memory that is no scratch buffer, and a `mcFreeAsync` that fails.
What a freed buffer holds is nobody's (`NoMeta`).

*`McclAllReduce`.* `offset`, `segment_bytes` and the loop are the code's;
`nr[r]` is which of the program's reductions rank `r` is in. `Collective`
stands for MCCL: the calls at the heads of all streams meet.

*`MacaEvents`.* `streams`, `events` and `items` are what the threads have made
and submitted, in the order of the calls; `CarryOut` is the driver, which takes
the items of a stream one after another and decides at the call of
`StreamWaitEvent` or of a call that waits which record or which items are meant.
Beside it `owed`, `cover` and `items[i].after` say what a caller of the interface
may count on; the properties compare the two. A record on a stream of another
device and times of events that take none are fatal, as `MACA_CHECK` has it. The
driver may fail when it is asked for an event or to wait for one (`Answers`); then
`StatusOf` is not kSuccess and nothing is promised.

*`McclComm`.* `comm[r]` is the wrapper of rank `r`, which stays when its handle
goes: `SetMcclComm` puts a handle in, `CommDestroy` takes it out. Every rank
makes the calls of one script, `Generations` times over. `CommInitRank` is two
actions, as it waits in MCCL for the others (`Joining`). `Deferred` calls wait
for the outermost `GroupEnd` and are one launch. `Meet` and `Transfer` are MCCL:
collectives meet when they are at the heads of all streams and alike, a send
meets its receive. A data type or an operator that the maps have not makes their
`at()` throw, which ends the rank as a refused call does (`Throws`).

*`MacaGemm`.* A cell holds the set of its terms, a term the set of the input
cells it multiplies, so that a transposed operand, a wrong leading dimension or
a cell read before it is written shows. `Kernels(job)` is the list of kernels and
MCBLAS calls of an operation in program order; the stream carries out one in each
step. `enabled` is the static local of `Fp64AccumEnabled`, read once. Each operand
of a call has a type of its own, as nothing in the code compares them. A buffer read
as another type gives the term `misread`. The backward operations convert their
gradient, and `OuterBackward` any of its operands, to the type they compute in
(`Converted`; the conversions of a call are one step); a forward operation
converts nothing, and of operands of several types `ResultIsProduct` claims no
more than that they stay as they are. The FP32 products of `OuterBackward` are
`mcblasSgemv`, which the switch does not reach: `modes` keeps them apart.

*`BroadcastGrad`.* `DecidePath` is the choice of `LaunchBackward`. Equal shapes
take the fast path only if the gradient is contiguous; one that is not comes to the
warps or the stores, which read it as if it were contiguous (that reading is the
code's; the model does not tell the values apart). `unset` are the elements of the result that were neither zeroed nor stored
to: `BinaryBackward` fills with zeros only if the shapes differ, so that a float
gradient that is not contiguous is added to unfilled memory. `GradientComplete`
says that this is the one case, and that all others are right. The fast path is the
same stores as `NoBroadcast`; how many elements its vectorized kernel gives to a
thread is left out. `phase[t]` is the part of the kernel thread `t` is in. A
barrier is the guard of what follows it (`Synced`, `HistSynced`): no thread goes
on before all threads of its block have come, and one that has left the kernel
never comes, which is the worst of what the hardware may make of it
(`LoadInBounds`, the early exit, hangs the block). A merge of the tree is two steps,
the reads and the write, with other threads between them: those that merge in
the same round do so side by side. A partial sum is the
set of the output elements whose contributions it holds; one that is added twice
leaves the mark `Twice`. `Touches` is what the packed atomic addition of two
half-precision neighbours reads and writes. The kernels of one call follow each
other (`KernelEnded`).

*`IndexKernels`.* Each kernel is the set of moves from an input cell to an
output cell that its threads make, forward and backward, with the arithmetic of
the code; `Promise` is the operation in coordinates. `Sound` are the inputs for
which the two agree: the code's checks let in more (a token out of the
vocabulary, values that do not compare, expert indices that repeat, slices that
reach past their tensor or have a negative start or a step of zero, by which the
code divides), and for those a cell stays unwritten, is written twice
or is read from elsewhere. `IndexKernelsRight` says that the kernels are right
for exactly the `Sound` inputs, so that neither side can be weakened unnoticed.

*`LaunchPolicy`.* An argument is a name, a value or both. `SetEnv` is `setenv`
without overwriting. `Parsed` is `std::stoi` with the `catch` around it.

## Runs

| Run | Question | Bounds |
|---|---|---|
| `alloc_sync` | with the workarounds on: do tracker, blocks and streams agree in every interleaving, does the tracker implement the ledger? | 2 threads, 2 addresses, 2 sizes, 2 devices, 1 kernel in a stream |
| `alloc_async` | with the asynchronous pool and blocks of both kinds: does pending work never outlive its block? | 2 threads, 2 addresses, 1 size, 2 devices, 2 kernels in a stream |
| `peak` | do peaks cover the use and forget the past; does the used peak exceed the reserved one in no other case than the two races of the code? | 2 threads, 1 device, blocks of 1, at most 1 byte of either kind in use, 2 bytes in an MB, either retention |
| `context` | is every object on its device and ready, every thread on its own, the mode one, and does never everyone wait? | 2 threads, 2 devices, flags assigned at any time, calls before and during `Initialize` |
| `events` | is the order of streams and events kept, is what is told true, does every call get through? | 2 threads of which 1 waits, 2 devices, 2 streams, 1 event, 3 items, 1 destroyed, flags `kDefault` and `kInterprocess` |
| `copy` | does a kernel find its own metadata, but where an unchecked call was refused; is scratch given back; do guarded copies exclude each other? | 2 threads, 1 device, 2 buffers of 2 parts, 2 metadata values, 2 waiting in the stream, any call of the driver refused |
| `allreduce` | is every element reduced once, with its own, within bounds, as one call would, and does every reduction end? | 3 ranks, 4 reductions, 7 settings, 3 calls of drift |
| `comm` | do cliques never mix, is no handle lost or used dead, do the scripts come to their results and to their end? | 3 ranks, 2 generations, 8 scripts, groups nested 2 deep |
| `gemm` | is every result the row-major product, and the path of `Gemm` one for the process? | all operations on small shapes of different sizes, operands of every mixture of 3 types, 2 calls, 1 change of the environment, the switch unset, "1" or refused |
| `broadcast` | is every contribution added once to its own element, on every path, in filled memory, and does no thread hang at a barrier? | shapes of broadcast for each path, equal shapes with and without a contiguous gradient, up to 3 blocks of up to 8 threads, warps of 2, histograms of up to 3 elements |
| `functions` | are the index kernels right for exactly the sound inputs; does the command line decide as it says? | small shapes with every index, token or value, starts from below 0 and steps from 0; command lines of up to 3 arguments |
| `copy_bypass` (violation) | are asynchronous copies serialized across threads, as the comment on the mutex says? | 2 threads |

Two threads are enough for each hazard listed: each is a race of one call with
one other; a third thread only repeats the second. Two addresses and two
devices let one be confused with the other, and reuse of a freed address by
another thread occurs. Sizes 1 and 2 tell a wrong counter from a right one.
`MaxQueue` and the counters' bounds appear in the guards of the
actions they bound and nowhere else; a host that would go on in the code waits
in the model, which removes no interleaving of the calls that are made.

Three ranks are the fewest for which the neighbour before and the one after
differ; two generations let one communicator be taken for the next. The shapes of
`broadcast` and of `gemm` have different sizes in each dimension, so that an
exchanged one shows; blocks end inside of a row and inside of a warp, and the
limits (warp, histogram, tile) are small enough to be crossed on both sides. In
`events` an event can be recorded, waited for and recorded again within three
items, and the theorem about the order covers what more would do.

`TypeOK` is checked as the first conjunct of another invariant
(`WatermarksCoverUse`, `ObjectsOnTheirDevice`, `EachOnItsWay`, ...), except in
`alloc_sync`. Deadlock is checked in `peak`, whose threads always have a call to
make; the other systems may stop: when all work is done, when a `CHECK` has ended
the process, or at the bounds.

### Finding

`copy_bypass`: the comment at `maca_guard_impl.cc:85` says the mutex serializes
host-side asynchronous copies across threads because concurrent
`mcMemcpyAsync` calls race in the driver. The kernels that upload metadata
call `mcMemcpyAsync` without it, so that such a call can be in the driver
together with a `MemcpyAsync` that holds the mutex. Between calls of
`MemcpyAsync` alone the mutex does what it says (`GuardCopiesSerialized`).

### Where the code promises less

Five properties carve out a case that the code does not guard. Each says precisely
which case it is, so that a change that adds another one, or a fix, shows.

| Property | Case | Code |
|---|---|---|
| `GradientComplete` | a float gradient that is not contiguous, on equal shapes, is added to memory that was not zeroed | `elementwise.maca:670`, `:879` |
| `KernelsReadTheirMetadata` | slice, split, stack and transpose ignore a refused copy or allocation and launch | `slice.maca:76`, `:84` |
| `UsedWithinReserved` | a reset during the read, or pages given back between the resets of the two pool marks | `maca_guard_impl.cc:490` |
| `ResultIsProduct` | a forward operation on operands of different types | `linear.maca:149` |
| `PrecisionKept` | the FP32 products of `OuterBackward` do not obey the switch | `outer.maca:103` |

## Fairness

Liveness is checked under weak fairness only.

| Property | Fairness | Why the code has it |
|---|---|---|
| `CallsGetThrough` (events) | the return of a call that may return; the driver | the scheduler runs threads, the device runs streams; no thread is made to begin a call |
| `EventuallyReduced` | each rank's calls; collectives that have met | every rank makes the same reductions; MCCL carries out calls that have met |
| `EventuallyEnded` (communicators) | each rank's thread; MCCL | the scheduler runs threads; MCCL carries out calls that have met |
| `EventuallyFinished` (broadcast) | each thread of a block, each warp, the kernels that follow | the device runs every thread of a block, and every block; a barrier opens only when the program brings all of the block's threads to it |

The ledger's and the all-reduce's abstract specifications are safety only; the
liveness of the detailed ones is stated directly.

That a nested `call_once` ends is a safety property of `context`, `SomeoneRuns`:
the only step that waits is the one at a running flag, and bodies are finite, so
that a call could fail to return only if everyone waited.

## Proofs

The theorems hold for every value of the constants that the named assumptions of
the modules allow: any set of threads, any number of devices (at least one), any
ranks, sizes, segment lengths, streams and events, and any bound. The bounds in
the guards (`MaxQueue`, `MaxItems`, ...) are parameters like the others.

| Theorem | Establishes |
|---|---|
| `MacaAllocatorProofs!TypeCorrect` | `TypeOK` |
| `MacaAllocatorProofs!RecordsCorrect` | `RecordsDescribeBlocks`: a record is of the block that lives at its address |
| `MacaAllocatorProofs!NoUseAfterFree` | `PendingWorkIsLive`: no work outlives its block |
| `MacaAllocatorProofs!UnchargedIsTransient` | `UnchargedOnlyInFlight`: a live block is missing from the records only inside of its call |
| `MacaAllocatorProofs!OneOwner` | an address has one owner, so that nothing is freed twice |
| `MacaAllocatorProofs!CounterIsSum` | `CurrentIsSum`: the counters are sums of what is recorded |
| `MacaAllocatorProofs!NeverUnderflows` | `NoUnderflow`: the `CHECK_GE` never fails |
| `MacaAllocatorProofs!TrackerImplementsLedger` | `LedgerSpec`: the refinement of `AllocationLedger` |
| `MacaMemPeakProofs!Invariance` | the bounds between watermarks, counters and what a call has read |
| `MacaMemPeakProofs!WatermarksAlwaysCover` | `WatermarksCoverUse` |
| `MacaMemPeakProofs!PeakIsAPeak` | `PeakCoversUse`: a reported peak is no less than what was in use at once |
| `MacaMemPeakProofs!UsedIsWithinReserved` | `UsedWithinReserved`: the used peak stays within the reserved peak, but for two races |
| `MacaMemPeakProofs!ResetsForget` | `ResetForgets` |
| `MacaDeviceContextProofs!Invariance` | where each thread stands, what it has built and which flags are running |
| `MacaDeviceContextProofs!StreamsBelong` | `ObjectsOnTheirDevice` |
| `MacaDeviceContextProofs!ReturnedIsReady` | `ReadyWhenReturned` |
| `MacaDeviceContextProofs!DevicesAreKept` | `DeviceKept` |
| `MacaDeviceContextProofs!ModesAgree` | `OneMode` |
| `MacaDeviceContextProofs!NobodyIsStuck` | `SomeoneRuns`: nested `call_once` never leave everyone waiting |
| `MacaEventsProofs!Invariance` | what comes before an item comes before an earlier item or its record |
| `MacaEventsProofs!OrderIsKept` | `OrderKept` |
| `MacaEventsProofs!WhatIsToldIsDone` | `ToldIsDone` |
| `MacaCopyProofs!Invariance` | who holds each buffer, and what the streams leave in it |
| `MacaCopyProofs!KernelsFindTheirMetadata` | `KernelsReadTheirMetadata`, with refused calls of the driver, checked or not |
| `MacaCopyProofs!AllScratchComesBack` | `ScratchReturned` |
| `MacaCopyProofs!CopiesOneByOne` | `GuardCopiesSerialized` |
| `McclAllReduceProofs!NothingIsSpoiled` | `NothingSpoiled`: every element once, with its own |
| `McclAllReduceProofs!CallsAreWithinBounds` | `CallsWithinBounds` |
| `McclAllReduceProofs!SegmentsAreOneAllReduce` | `PromiseSpec`: the refinement of `AllReduce`, no reduction begins before the one before it is complete |
| `McclCommProofs!CliquesAreOwn` | `OwnClique`: the g-th communicators of all ranks, and no others, are of one clique |
| `McclCommProofs!HandlesAreHeld` | `HandlesHeld`: no handle is lost, and none is used when it is destroyed |
| `McclCommProofs!ResultsAreDelivered` | `Delivered`: two collectives make an all-reduce, a ring hands on what it is given |
| `KernelProofs!ContributionsOnTheirWay` | `EachOnItsWay`: nothing is added twice or to another element |
| `KernelProofs!GradientsAreComplete` | `GradientComplete`: in the end everything is added, on every path, and to filled memory but in one case |
| `KernelProofs!AtomicsStayInBounds` | `AtomicsInBounds` |
| `KernelProofs!MergesDoNotRace` | threads that merge in one round touch different slots |
| `KernelProofs!ResultsAreProducts` | `ResultIsProduct`: every operation, in both paths, for operands of any types (forward: of one type), for all sizes, batches, padding and scalings |
| `KernelProofs!PrecisionIsKept` | `PrecisionKept`: the switch decides for all FP32 products that a process asks of `Gemm` |

### The allocator

*Types.* `TypeOK` is not inductive: whether a step finds its address and size
depends on which steps of the call are left. `TypeInv` adds `Locals`: the
locals belong to what is left, which is a tail of one of the bodies
(`BodyTails`).

*Ownership.* Neither `RecordsDescribeBlocks` nor `PendingWorkIsLive` is
inductive. Recording a block needs that the block is new and at its address
(`NewBlock`); releasing one needs that it is not recorded (`OldBlock`) and that
no work waits on it (`Drained`: while `FreeAsync` still waits, the work on its
block is among the work it awaits); a free that the stream reaches must be the
last work on its block (`FreeIsLast`); and all of these survive the steps of
other threads because an address is one call's, one caller's or one waiting
free's at a time (`CallOwns`, `HolderOwns`). `BlockInv` is their conjunction.
Each action has a lemma that it keeps `BlockInv`; what enters and leaves a
stream is in `AppendedPlaces` and `ShiftedPlaces`. The order of the steps in
the code is what the proof rests on: with `mcFree` before the erasure `OldBlock`
fails, without the wait `Drained` does.

*Uncharged blocks.* A live synchronous block without a record is held by a call
that is between `mcMalloc` and `track` or between `untrack` and `mcFree`. This is
inductive on top of `BlockInv`: the steps that make such a block or take its record
away are steps of the call that owns its address, and the next step of that call
records or frees it.

*Counters.* The sum of the sizes recorded for a device is the number of its
bytes, pairs of an address and an offset. `Recording` and `Erasing` show that
tracking adds a disjoint set of bytes to its device and untracking takes one
away; with cardinalities, `CountersExact` is inductive on top of `BlockInv`
(which gives that a block that is tracked was not recorded), and the bytes of
a record are among its device's, so that the subtraction never underflows.

*Refinement.* `TrackAllocation` maps to `Charge`, `UntrackAllocation` to
`Discharge`, `ResetHigh` to `Reset`, everything else to a stutter; the high
watermark agrees because the counter is the sum.

### Peak memory

A watermark covers what is in use, but a peak is read in three steps while others
allocate and reset. The invariant adds to `Types` that each watermark is at least
its counter (`CountersCovered`), and, for a call in progress, how what it has
read or reset so far bounds what the history remembers (`CallCovered`:
`ReadBounds` for reads, `ResetBounds` for resets, `SeenBounds` for what happened
since the call began). With these each step of a read or of a reset is simple
arithmetic; without the bounds on what was read earlier the sum of three reads
made at different times says nothing. `torn` enters where the used peak is compared
with the reserved one: until pages are given back between the two resets of a call,
the used mark stays below the reserved mark, or below what is reserved while that
call is between the two.

### The device context

What is left of a call (`todo[t]`) determines where its thread stands, since the
nesting of the `call_once` is finite: `Place(t)` is the disjunction of the
possible rests, each with the devices saved (`Home`, `Away`, `Farther`) and what
has been built (`Built`, `Retained`, `Bound`). `Objects` relates flags that are
done to slots, and says what `OneMode` rests on: no flag of a device is made, no
stream is built and none is given out before the capture. `Owners` says that a flag is running exactly while one thread
still owes the step that ends its function. Each action takes one disjunct of
`Place` to another; the others keep theirs because what is built stays built
(`Grows`, `OthersStay`). `NobodyIsStuck` follows from `Owners`: who waits, waits
for a thread that runs; only the one that binds a BLAS handle can wait in its
turn, for one that builds a stream, and that one waits for nobody. Were the
stream's initialiser to ask for the handle, this order would break.

### Events

`OrderKept` is not inductive: it says nothing of items still to come. The
invariant (`OwedComes`, `AfterComes`, `CoverComes`) says that each kernel
promised before an item is an item before it in the same stream, or is promised
before such an item or before the record it waits for; `OrderHolds` then follows
the order of the items. `BlockingComes` and `PromiseOf` relate what a waiting
call promises to what it waits for.

### Copies

A buffer out of the pool is inside of one call, or waits in one stream for its
free (`Inside`, `Outside`, `Distinct`). `Core` says, for a call that holds a
buffer and for one whose work waits, what the stream will leave in the buffer
when it comes to the kernel: `KernelsHold`, `CallsHold`, `Alone` and `PoolHeld`,
for the parts whose upload was not refused. All of this is claimed while no pointer
has strayed; what holds even then is apart from it: `PoolCovered`, that the pool
has handed out nothing that no call has a pointer to, and `KernelsChecked`.
That the pool may hand a buffer to the same stream before its free is carried out
is harmless because the stream keeps the order.

### The segmented all-reduce

Ranks that drift apart still make the same calls: the calls a rank has made are a
prefix of one sequence that reductions, counts and segment length determine. The
invariant states this through positions in that sequence (`Aligned`, `Chain`)
that the heads of all streams share whenever they meet; `Legal` and `Informed`
bound each call. The refinement maps a meeting to a reduction of its range, and
everything else to a stutter.

### Communicators

The theorems hold for every set of scripts that keep to what a caller owes
(`Proper`, assumed of `Scripts` by name and evaluated by TLC on the scripts of
the run): a generation comes to just one initialisation, which brings an id of
that generation or none, later to a `CommDestroy`, and it opens and closes its
groups in turn (`Nests`). Whatever else a script calls, in whatever order, is
left open. For `Delivered` a script has to make the calls of its promise, too
(`PromisesAssumption`): two collectives outside of groups and a `CommDestroy`
behind them, a send and a receive in whatever groups, or a call that is fatal.

`OwnClique` follows from `InOrder`: the g-th id that a rank brings is g. This is
inductive only together with `Drawn`, which says how many ids are drawn, sent and
brought by where the ranks are in their scripts; a rank that is a generation
behind finds the id of its own generation among those published. The root is
never more than one initialisation ahead, because MCCL lets no rank out of
`CommInitRank` before all have brought the id. With the id kept in the object
from one generation to the next (`NewIdKept`) `Drawn` fails at once.

`HandlesHeld` needs that a wrapper is empty when a handle is put in. `HeldInBetween`
says that a rank has a handle only between its initialisation and the first
`CommDestroy` after it; `WaitOnOwn`, that calls in a group or a stream are on the
rank's present handle. `CommDestroy` waits for the stream, and `DepthKept` (the
open groups are those of the rank's place in the script) gives that no group is
open, so that no call is left behind with the dead handle.

`Delivered` speaks of the end of a script, when the ranks may be at different
places and generations of it. `Carrying` is what holds on the way. `FromScript`:
a call that waits is one of the script's, made with its buffers, count, type,
operator and peer. `CarriedOut`: a call that a rank has made is carried out or
waits, the latter no further than the next `CommDestroy`, which waits for the
stream; past it, then, it is carried out. `InTurn`: the collectives of a rank are
launched one by one in the order of the script. So a rank whose `AllGather` is at
the head of its stream has carried out its `ReduceScatter`, and when the heads of
all ranks meet (`MeetsAtPlace`, calls of one place, as the two have different
names) every part is there (`BeforeHead`, `MeetWrites`). For the ring, a receive
takes the send of the `Leader`, whose input nobody has written since
(`BuffersKept`). `HeldUp`: no rank gets past a call that is fatal.

### The broadcast gradient

`Inv` has one part for each of the four ways, and `OnPath` says that no thread
is on another's.

*Stores and warps* (`Placed`): the sum of an element is the set of the
contributions to it of the threads that have ended. A warp ends as a whole.
`Unfilled` says which elements of the result were neither zeroed nor stored to.

*The tree.* `TreeSteps` is what its barriers give: while a thread is between the
reads and the write of a merge, all of its block are in the loop, at its stride or
past it; when one has ended, all are past the loop. Two threads that merge at
one stride have partners that differ from both and from each other
(`PartnerFacts`: multiples of twice the stride are not one stride apart), so that
what a thread has read is still there when it writes, which `TreeSteps` keeps in
`reg`; `MergesDoNotRace` states this exclusion by itself. `TreeSums` adds that
the sums of the slots still to be added are apart from each other and from the
result, are for the slot's element, and together with the result hold every
contribution loaded. A merge takes the partner's slot out as it takes its sum.

*The histograms.* The grid has at least as many threads as there are elements
(`CeilDivCovers`), so that the grid-stride loop is taken at most once by each
(`HistSteps`), and a bin holds the contributions to it of the threads of its block
that have counted (`HistSums`), as soon as the thread that zeroes it has done so:
the padding keeps bins apart and inside of the room that is zeroed (`BinFacts`).
For the reductions, the blocks divide the elements of the output among them
(`BlocksDivide`) and the tiles the blocks (`RowsFacts`); `HistReduced` says which
rows are in the accumulated sum, and that nothing is cast before all are.

The assumptions are on sizes (`SizesAssumption`) and on the calls
(`LaunchesAssumption`): a block has a thread and no more than `MaxBlock`, the grid
fits, and `CalcOffset` takes an index of the output to an element of B, to the
same one when the shapes are the same. The last is what a row-major offset is, but
for any number of dimensions it is an induction over them; TLC evaluates it on
every call of the run.

### Matrix products

`GemmAssumption` asks of the calls that their sizes are natural numbers and their
types known, each operand's on its own, and that only matrix products come in
batches; nothing bounds a size.

*Places.* A kernel has a thread for each element of its matrices; its number
determines batch, column and row (`ElementPlaces`, `ElementDigits`), and the
elements of matrices that do not overlap (`Spread`) have places of their own
(`PlacesApart`). So a kernel writes each of its cells once and no other
(`ScatterLeaves`): `CopyMatrixLeaves`, `ScaleOutputLeaves` and `McblasGemmLeaves`
say which value each gets. In the other direction, each cell of a row-major array
is the place of just one element (`RowMajorDigits`). These few lemmas hold all of
the arithmetic of products; everything above them speaks of elements.

*A product.* `Fits` says that the parameters of a product name buffers of their
types and that the result does not overlap itself. `Toward` is what holds on the
way of either path: which kernels are left, and that the temporaries hold what
the kernels before them have packed (`HasA`, `HasB`, `HasC`, `HasProduct`).
`ProductStarts` and `ProductGoesOn` are its induction, `Done` its end. That the
packed operands multiply to what the caller's do is `SameProduct`, where a C that
was not copied in is not read because beta is 0: the condition on line 104 of
`linear.maca` and the one of the library have to be the same. One lemma for
each operation shows that its parameters fit (`MatmulForwardFits`, ...) and
that what is done is what it promises (`MatmulForwardRight`, ...).

*A call.* `ResultIsProduct` speaks of calls that have ended. `GoesRight` is the
invariant: `Goes` relates the kernels that are left to what the memory holds,
through the preparation (the conversion of operands, the copy of the bias:
`Prepared`) and the one product, or the two of `OuterBackward`, whose second
starts with the operands as the first has left them. `PrecisionKept` follows
from `ReadOnce`: once a mode has been used the switch is read, and the mode is
the one that it was read as.

### Model-checked only

Liveness (`CallsGetThrough`, `EventuallyReduced`,
`EventuallyEnded`, `EventuallyFinished`) is out of the prover's reach, as are
results of folds for every input (`IndexKernelsRight`, `PolicyRight`), which
need an induction over data.

## Not modelled, and why

* Forward elementwise kernels, cast, fill, gradient accumulation, no-op: one
  thread maps one element to one, and no state is shared.
* Normalisation, losses and reductions: block reductions of the same shape as the
  tree in `BroadcastGrad`, made by a library (`cub`), over floating-point values,
  which are out of TLC's reach. Rounding is left out of `MacaGemm` and
  `BroadcastGrad` as well.
* Data-type dispatch and error checks: templates and macros that choose an
  instantiation or abort; aborts appear in the models as `status`.
* Backend registration: one `call_once` that registers a name with the framework,
  which is not in this repository.
* 32-bit arithmetic of indices: `IndexKernels` counts without a width; a tensor of
  2^32 elements is beyond an instance.
* Whether `mcMemcpyAsync` has read a host vector when it returns (the hazard at
  `gather.maca:98`): the driver decides, and nothing in this repository tells.
* The test runner, lint drivers, clang-tidy check and CMake: scripts and patterns
  that keep no state.
* The driver, MCBLAS and MCCL beyond what the code relies on; these parts are
  marked external in the map.
