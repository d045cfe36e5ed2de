------------------------------ MODULE MacaMemPeak ------------------------------
(***************************************************************************)
(* The peak memory of a device (runtime/maca_guard_impl.cc): the high      *)
(* watermark of the synchronous blocks, kept by the tracker, and those of  *)
(* the default asynchronous pool, kept by the driver.                      *)
(* ResetMemPoolHighWatermarks and GetMemPoolPeakMB visit them one after    *)
(* the other, while other threads allocate and free.                       *)
(*                                                                         *)
(* Allocation and release are one action each here: MacaAllocator shows    *)
(* that a block enters and leaves the counters in one step.  The device of *)
(* the thread, which both calls switch and put back, is part of            *)
(* MacaDeviceContext.                                                      *)
(***************************************************************************)
EXTENDS Integers, Sequences

CONSTANTS
    Threads,            \* threads that reset and read the watermarks
    DeviceCount,        \* number of MACA devices
    Sizes,              \* sizes in bytes of a block
    MaxBytes,           \* bound on the bytes of one kind in use on a device
    BytesPerMB          \* kBytesPerMB

ASSUME PeakAssumption ==
    /\ DeviceCount \in Nat \ {0} /\ MaxBytes \in Nat /\ BytesPerMB \in Nat \ {0}
    /\ Sizes \subseteq Nat \ {0}

VARIABLES
    g_retain_async_pool,\* captured before the first use, and kept
    g_allocation_stats, \* device -> bytes of synchronous blocks, and their high
    pool,               \* driver: device -> bytes used and reserved, and highs
    call,               \* thread -> the call it makes
    combined,           \* history: device -> most bytes in use at once since a
                        \* reset last touched one of its watermarks
    seen,               \* history: thread -> what happened during its call
    torn                \* history: device -> since the used watermark was last
                        \* reset, the pool has given pages back in between the
                        \* resets of its two watermarks by one call

vars == <<g_retain_async_pool, g_allocation_stats, pool, call, combined, seen,
          torn>>

Devices == 0 .. DeviceCount - 1

Larger(a, b) == IF a >= b THEN a ELSE b

-----------------------------------------------------------------------------
(* The calls, step by step.                                                  *)

ResetBodyPoolOnly == <<"resetUsed", "resetReserved">>
ResetBodyReservedFirst == <<"resetReserved", "resetUsed", "resetTracked">>
ResetBody == <<"resetUsed", "resetReserved", "resetTracked">>

GetBody == <<"readUsed", "readReserved", "readTracked">>

NoCall == [todo |-> <<>>, dev |-> 0, used |-> 0, reserved |-> 0]

NoneSeen == [floor |-> 0, clean |-> TRUE,
             recent |-> [tracked |-> 0, used |-> 0, reserved |-> 0]]

InUse(d) == g_allocation_stats[d].current + pool[d].used

Init ==
    /\ g_retain_async_pool \in BOOLEAN
    /\ g_allocation_stats = [d \in Devices |-> [current |-> 0, high |-> 0]]
    /\ pool = [d \in Devices |-> [used |-> 0, usedHigh |-> 0,
                                  reserved |-> 0, reservedHigh |-> 0]]
    /\ call = [t \in Threads |-> NoCall]
    /\ combined = [d \in Devices |-> 0]
    /\ seen = [t \in Threads |-> NoneSeen]
    /\ torn = [d \in Devices |-> FALSE]

At(t, step) == call[t].todo # <<>> /\ Head(call[t].todo) = step

Busy(t, d) == call[t].todo # <<>> /\ call[t].dev = d

Begin(t, d, body) ==
    /\ call[t].todo = <<>>
    /\ call' = [call EXCEPT ![t] = [NoCall EXCEPT !.todo = body, !.dev = d]]
    /\ seen' = [seen EXCEPT ![t] =
                  [floor |-> combined[d], clean |-> TRUE,
                   recent |-> [tracked |-> g_allocation_stats[d].current,
                               used |-> pool[d].used,
                               reserved |-> pool[d].reserved]]]
    /\ UNCHANGED <<g_allocation_stats, pool, combined, torn>>

ResetMemPoolHighWatermarks(t) == \E d \in Devices : Begin(t, d, ResetBody)

GetMemPoolPeakMB(t) == \E d \in Devices : Begin(t, d, GetBody)

Advance(t, frame) ==
    LET rest == Tail(call[t].todo)
    IN  call' = [call EXCEPT ![t] =
                   IF rest = <<>> THEN NoCall ELSE [frame EXCEPT !.todo = rest]]

-----------------------------------------------------------------------------
(* Reset.  The driver sets a watermark that is set to zero to what is in use *)
(* or reserved at that moment.                                               *)

(* History: a reset touches device d.                                        *)
Touched(d) ==
    /\ combined' = [combined EXCEPT ![d] = InUse(d)]
    /\ seen' = [u \in Threads |-> IF Busy(u, d) THEN [seen[u] EXCEPT !.clean = FALSE]
                                                ELSE seen[u]]

ResetUsed(t) ==
    LET d == call[t].dev
    IN  /\ At(t, "resetUsed")
        /\ pool' = [pool EXCEPT ![d].usedHigh = pool[d].used]
        /\ Advance(t, call[t])
        /\ Touched(d)
        /\ torn' = [torn EXCEPT ![d] = FALSE]
        /\ UNCHANGED g_allocation_stats

ResetReserved(t) ==
    LET d == call[t].dev
    IN  /\ At(t, "resetReserved")
        /\ pool' = [pool EXCEPT ![d].reservedHigh = pool[d].reserved]
        /\ Advance(t, call[t])
        /\ Touched(d)
        /\ UNCHANGED <<g_allocation_stats, torn>>

(* The tracker's watermark falls to what is charged at that moment.          *)
HighAfterResetZero(d) == 0
HighAfterReset(d) == g_allocation_stats[d].current

ResetTracked(t) ==
    LET d == call[t].dev
    IN  /\ At(t, "resetTracked")
        /\ g_allocation_stats' = [g_allocation_stats EXCEPT ![d].high = HighAfterReset(d)]
        /\ Advance(t, call[t])
        /\ Touched(d)
        /\ UNCHANGED <<pool, torn>>

-----------------------------------------------------------------------------
(* Get.                                                                      *)

ReadUsed(t) ==
    /\ At(t, "readUsed")
    /\ Advance(t, [call[t] EXCEPT !.used = pool[call[t].dev].usedHigh])
    /\ UNCHANGED <<g_allocation_stats, pool, combined, seen, torn>>

ReadReserved(t) ==
    /\ At(t, "readReserved")
    /\ Advance(t, [call[t] EXCEPT !.reserved = pool[call[t].dev].reservedHigh])
    /\ UNCHANGED <<g_allocation_stats, pool, combined, seen, torn>>

ReadTracked(t) ==
    /\ At(t, "readTracked")
    /\ Advance(t, call[t])
    /\ UNCHANGED <<g_allocation_stats, pool, combined, seen, torn>>

(* What Get returns when it reads the tracker's watermark.                   *)
TrackedPeakNow(t) == g_allocation_stats[call[t].dev].current
TrackedPeak(t) == g_allocation_stats[call[t].dev].high

UsedPeakMB(t) == (TrackedPeak(t) + call[t].used) \div BytesPerMB

ReservedPeakPoolOnly(t) == call[t].reserved \div BytesPerMB
ReservedPeakMB(t) == (TrackedPeak(t) + call[t].reserved) \div BytesPerMB

-----------------------------------------------------------------------------
(* Allocation and release by any thread.                                     *)

(* History: memory in use on device d has changed.                           *)
Recorded(d) ==
    /\ combined' = [combined EXCEPT ![d] = Larger(@, InUse(d)')]
    /\ seen' = [u \in Threads |->
         IF Busy(u, d)
         THEN [seen[u] EXCEPT !.recent =
                 [tracked |-> Larger(@.tracked, g_allocation_stats'[d].current),
                  used |-> Larger(@.used, pool'[d].used),
                  reserved |-> Larger(@.reserved, pool'[d].reserved)]]
         ELSE seen[u]]
    /\ UNCHANGED call

TrackAllocation(d, n) ==
    LET now == g_allocation_stats[d].current + n
    IN  /\ now <= MaxBytes
        /\ g_allocation_stats' = [g_allocation_stats EXCEPT ![d] =
              [current |-> now, high |-> Larger(@.high, now)]]
        /\ UNCHANGED <<pool, torn>>
        /\ Recorded(d)

UntrackAllocation(d, n) ==
    /\ g_allocation_stats[d].current >= n
    /\ g_allocation_stats' = [g_allocation_stats EXCEPT ![d].current = @ - n]
    /\ UNCHANGED <<pool, torn>>
    /\ Recorded(d)

(* The pool serves a block from what it has reserved, and reserves more when *)
(* that is not enough.                                                       *)
PoolAlloc(d, n) ==
    LET now == pool[d].used + n
        got == Larger(pool[d].reserved, now)
    IN  /\ now <= MaxBytes
        /\ pool' = [pool EXCEPT ![d] =
              [used |-> now, usedHigh |-> Larger(@.usedHigh, now),
               reserved |-> got, reservedHigh |-> Larger(@.reservedHigh, got)]]
        /\ UNCHANGED <<g_allocation_stats, torn>>
        /\ Recorded(d)

PoolFree(d, n) ==
    /\ pool[d].used >= n
    /\ pool' = [pool EXCEPT ![d].used = @ - n]
    /\ UNCHANGED <<g_allocation_stats, torn>>
    /\ Recorded(d)

(* Without retention the pool gives unused pages back to the driver.         *)
PoolRelease(d) ==
    /\ ~g_retain_async_pool
    /\ pool[d].reserved > pool[d].used
    /\ pool' = [pool EXCEPT ![d].reserved = pool[d].used]
    /\ torn' = [torn EXCEPT ![d] =
                  @ \/ \E u \in Threads : Busy(u, d) /\ At(u, "resetReserved")]
    /\ UNCHANGED g_allocation_stats
    /\ Recorded(d)

-----------------------------------------------------------------------------
Step(t) == \/ ResetMemPoolHighWatermarks(t) \/ GetMemPoolPeakMB(t)
           \/ ResetUsed(t) \/ ResetReserved(t) \/ ResetTracked(t)
           \/ ReadUsed(t) \/ ReadReserved(t) \/ ReadTracked(t)

Memory(d) == \/ \E n \in Sizes : \/ TrackAllocation(d, n) \/ UntrackAllocation(d, n)
                                \/ PoolAlloc(d, n) \/ PoolFree(d, n)
             \/ PoolRelease(d)

Next == /\ (\E t \in Threads : Step(t)) \/ (\E d \in Devices : Memory(d))
        /\ UNCHANGED g_retain_async_pool

Spec == Init /\ [][Next]_vars

-----------------------------------------------------------------------------
(* Properties.                                                               *)

Frames == [todo : {<<>>, ResetBody, Tail(ResetBody), <<"resetTracked">>,
                   GetBody, Tail(GetBody), <<"readTracked">>},
           dev : Devices, used : Nat, reserved : Nat]

(* Every variable has its type; in particular no counter goes below zero.    *)
TypeOK ==
    /\ g_retain_async_pool \in BOOLEAN
    /\ g_allocation_stats \in [Devices -> [current : Nat, high : Nat]]
    /\ pool \in [Devices -> [used : Nat, usedHigh : Nat,
                             reserved : Nat, reservedHigh : Nat]]
    /\ call \in [Threads -> Frames]
    /\ combined \in [Devices -> Nat]
    /\ seen \in [Threads -> [floor : Nat, clean : BOOLEAN,
                             recent : [tracked : Nat, used : Nat, reserved : Nat]]]
    /\ torn \in [Devices -> BOOLEAN]

(* The two watermarks together always cover the most memory that was in use  *)
(* at once, the synchronous blocks and the pool's, since a reset last        *)
(* touched one of them, and no counter is ever below zero.                   *)
WatermarksCoverUse ==
    /\ TypeOK
    /\ \A d \in Devices :
         g_allocation_stats[d].high + pool[d].usedHigh >= combined[d]

(* The used peak that Get returns, read in three steps while other threads   *)
(* allocate and free, is short of the memory that was ever in use at once by *)
(* less than a megabyte, unless a reset of the device ran during the call.   *)
PeakCoversUse ==
    [][\A t \in Threads : (ReadTracked(t) /\ seen[t].clean) =>
          (UsedPeakMB(t) + 1) * BytesPerMB > seen[t].floor]_vars

(* The used peak that Get returns never exceeds the reserved peak, but for   *)
(* one race of the code: with a pool that gives pages back, a reset of the   *)
(* device runs during the call, or pages were given back in between the      *)
(* resets of the two pool watermarks and the used one has not been reset     *)
(* since.  With a retained pool that cannot happen, whatever resets overlap. *)
UsedWithinReserved ==
    [][\A t \in Threads :
         (/\ ReadTracked(t)
          /\ g_retain_async_pool \/ (seen[t].clean /\ ~torn[call[t].dev])) =>
            UsedPeakMB(t) <= ReservedPeakMB(t)]_vars

(* When Reset returns, every watermark has forgotten what was before the     *)
(* call: it is at most what was in use at some moment of the call.           *)
ResetForgets ==
    [][\A t \in Threads :
         (/\ call[t].todo # <<>> /\ call'[t].todo = <<>>
          /\ Head(call[t].todo) \in {"resetUsed", "resetReserved", "resetTracked"}) =>
            LET d == call[t].dev
            IN  /\ g_allocation_stats'[d].high <= seen[t].recent.tracked
                /\ pool'[d].usedHigh <= seen[t].recent.used
                /\ pool'[d].reservedHigh <= seen[t].recent.reserved]_vars
=============================================================================
