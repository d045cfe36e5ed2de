--------------------------- MODULE MacaMemPeakProofs ---------------------------
(***************************************************************************)
(* Proofs about MacaMemPeak, for any threads, devices, sizes and bounds,   *)
(* with and without retention of the pool.                                 *)
(*                                                                         *)
(* While a call is under way, what it has read or reset and what happened  *)
(* since (seen) bound each other; that is what makes three readings at     *)
(* three moments a peak, and three resets a reset.                         *)
(***************************************************************************)
EXTENDS MacaMemPeak, TLAPS

(* What is left of a reset and of a read, step by step.                      *)
Reset1 == <<"resetUsed", "resetReserved", "resetTracked">>
Reset2 == <<"resetReserved", "resetTracked">>
Reset3 == <<"resetTracked">>
Get1 == <<"readUsed", "readReserved", "readTracked">>
Get2 == <<"readReserved", "readTracked">>
Get3 == <<"readTracked">>
Rests == {<<>>, Reset1, Reset2, Reset3, Get1, Get2, Get3}

Stats == [current : Nat, high : Nat]
Pools == [used : Nat, usedHigh : Nat, reserved : Nat, reservedHigh : Nat]
Recents == [tracked : Nat, used : Nat, reserved : Nat]
Views == [floor : Nat, clean : BOOLEAN, recent : Recents]
Calls == [todo : Rests, dev : Devices, used : Nat, reserved : Nat]

Types ==
    /\ g_retain_async_pool \in BOOLEAN
    /\ g_allocation_stats \in [Devices -> Stats]
    /\ pool \in [Devices -> Pools]
    /\ call \in [Threads -> Calls]
    /\ combined \in [Devices -> Nat]
    /\ seen \in [Threads -> Views]
    /\ torn \in [Devices -> BOOLEAN]

(* A watermark is above its counter, and the two that make the peak together *)
(* are above all that was in use.                                            *)
CountersCovered(d) ==
    /\ g_allocation_stats[d].current <= g_allocation_stats[d].high
    /\ pool[d].used <= pool[d].usedHigh
    /\ pool[d].used <= pool[d].reserved
    /\ pool[d].reserved <= pool[d].reservedHigh
    /\ g_retain_async_pool => pool[d].usedHigh <= pool[d].reserved
    /\ ~torn[d] => pool[d].usedHigh <= pool[d].reservedHigh
    /\ g_allocation_stats[d].high + pool[d].usedHigh >= combined[d]

SeenBounds(t, d) ==
    /\ seen[t].clean => combined[d] >= seen[t].floor
    /\ seen[t].recent.tracked >= g_allocation_stats[d].current
    /\ seen[t].recent.used >= pool[d].used
    /\ seen[t].recent.reserved >= pool[d].reserved

ReadBounds(t, d) ==
    /\ call[t].todo \in {Get2, Get3} /\ seen[t].clean =>
          g_allocation_stats[d].high + call[t].used >= seen[t].floor
    /\ call[t].todo \in {Get2, Get3} /\ g_retain_async_pool => call[t].used <= pool[d].reserved
    /\ call[t].todo = Get3 /\ g_retain_async_pool => call[t].used <= call[t].reserved
    /\ call[t].todo \in {Get2, Get3} /\ seen[t].clean /\ ~torn[d] =>
          call[t].used <= pool[d].reservedHigh
    /\ call[t].todo = Get3 /\ seen[t].clean /\ ~torn[d] => call[t].used <= call[t].reserved

ResetBounds(t, d) ==
    /\ call[t].todo \in {Reset2, Reset3} => pool[d].usedHigh <= seen[t].recent.used
    /\ call[t].todo = Reset3 => pool[d].reservedHigh <= seen[t].recent.reserved
    /\ call[t].todo = Reset2 /\ ~torn[d] => pool[d].usedHigh <= pool[d].reserved

CallCovered(t) ==
    call[t].todo # <<>> =>
        /\ SeenBounds(t, call[t].dev)
        /\ ReadBounds(t, call[t].dev)
        /\ ResetBounds(t, call[t].dev)

IInv ==
    /\ Types
    /\ \A d \in Devices : CountersCovered(d)
    /\ \A t \in Threads : CallCovered(t)

-----------------------------------------------------------------------------
LEMMA Steps ==
    /\ ResetBody = Reset1 /\ GetBody = Get1
    /\ Tail(Reset1) = Reset2 /\ Tail(Reset2) = Reset3 /\ Tail(Reset3) = <<>>
    /\ Tail(Get1) = Get2 /\ Tail(Get2) = Get3 /\ Tail(Get3) = <<>>
    /\ Head(Reset1) = "resetUsed" /\ Head(Reset2) = "resetReserved" /\ Head(Reset3) = "resetTracked"
    /\ Head(Get1) = "readUsed" /\ Head(Get2) = "readReserved" /\ Head(Get3) = "readTracked"
BY DEF ResetBody, GetBody, Reset1, Reset2, Reset3, Get1, Get2, Get3

LEMMA Different ==
    /\ Reset1 # <<>> /\ Reset2 # <<>> /\ Reset3 # <<>> /\ Get1 # <<>> /\ Get2 # <<>> /\ Get3 # <<>>
    /\ Reset1 \notin {Reset2, Reset3, Get1, Get2, Get3}
    /\ Reset2 \notin {Reset3, Get1, Get2, Get3}
    /\ Reset3 \notin {Get1, Get2, Get3}
    /\ Get1 \notin {Get2, Get3} /\ Get2 # Get3
<1>1. Reset1 # <<>> /\ Reset2 # <<>> /\ Reset3 # <<>> /\ Get1 # <<>> /\ Get2 # <<>> /\ Get3 # <<>>
  BY DEF Reset1, Reset2, Reset3, Get1, Get2, Get3
<1>2. \A a, b : Head(a) # Head(b) => a # b
  OBVIOUS
<1> QED  BY <1>1, <1>2, Steps

LEMMA Places ==
    ASSUME Types, NEW t \in Threads
    PROVE  /\ At(t, "resetUsed") => call[t].todo = Reset1
           /\ At(t, "resetReserved") => call[t].todo = Reset2
           /\ At(t, "resetTracked") => call[t].todo = Reset3
           /\ At(t, "readUsed") => call[t].todo = Get1
           /\ At(t, "readReserved") => call[t].todo = Get2
           /\ At(t, "readTracked") => call[t].todo = Get3
<1>1. call[t].todo \in Rests
  BY DEF Types, Calls
<1> QED  BY <1>1, Steps DEF At, Rests

LEMMA Frames1 == Types => TypeOK
<1>1. Frames = Calls
  BY Steps DEF Frames, Calls, Rests, Reset3, Get3
<1> QED  BY <1>1 DEF Types, TypeOK, Stats, Pools, Recents, Views

(* History after a reset and after memory has changed.                       *)
LEMMA TouchedFacts ==
    ASSUME Types, NEW d \in Devices, Touched(d)
    PROVE  /\ combined'[d] = InUse(d) /\ InUse(d) \in Nat
           /\ \A e \in Devices \ {d} : combined'[e] = combined[e]
           /\ combined' \in [Devices -> Nat] /\ seen' \in [Threads -> Views]
           /\ \A u \in Threads : /\ seen'[u].recent = seen[u].recent
                                 /\ seen'[u].floor = seen[u].floor
                                 /\ seen'[u].clean => seen[u].clean
                                 /\ Busy(u, d) => ~seen'[u].clean
<1>1. InUse(d) \in Nat
  BY DEF Types, InUse, Stats, Pools
<1>2. ASSUME NEW u \in Threads
      PROVE  /\ seen'[u] \in Views
             /\ seen'[u].recent = seen[u].recent /\ seen'[u].floor = seen[u].floor
             /\ seen'[u].clean => seen[u].clean
             /\ Busy(u, d) => ~seen'[u].clean
  <2>1. seen[u] \in Views /\ seen'[u] = IF Busy(u, d) THEN [seen[u] EXCEPT !.clean = FALSE] ELSE seen[u]
    BY DEF Types, Touched
  <2> QED  BY <2>1 DEF Views
<1>3. seen' = [u \in Threads |-> seen'[u]]
  BY DEF Touched
<1> QED  BY <1>1, <1>2, <1>3 DEF Types, Touched

LEMMA RecordedFacts ==
    ASSUME Types, NEW d \in Devices, Recorded(d),
           g_allocation_stats' \in [Devices -> Stats], pool' \in [Devices -> Pools]
    PROVE  /\ combined'[d] >= combined[d] /\ combined'[d] \in Nat
           /\ combined'[d] = combined[d] \/ combined'[d] = g_allocation_stats'[d].current + pool'[d].used
           /\ \A e \in Devices \ {d} : combined'[e] = combined[e]
           /\ combined' \in [Devices -> Nat] /\ seen' \in [Threads -> Views]
           /\ call' = call
           /\ \A u \in Threads :
                /\ seen'[u].floor = seen[u].floor /\ seen'[u].clean = seen[u].clean
                /\ ~Busy(u, d) => seen'[u].recent = seen[u].recent
                /\ Busy(u, d) =>
                     /\ seen'[u].recent.tracked = Larger(seen[u].recent.tracked, g_allocation_stats'[d].current)
                     /\ seen'[u].recent.used = Larger(seen[u].recent.used, pool'[d].used)
                     /\ seen'[u].recent.reserved = Larger(seen[u].recent.reserved, pool'[d].reserved)
<1>1. /\ InUse(d)' = g_allocation_stats'[d].current + pool'[d].used
      /\ InUse(d)' \in Nat /\ combined[d] \in Nat
      /\ g_allocation_stats'[d].current \in Nat /\ pool'[d].used \in Nat /\ pool'[d].reserved \in Nat
  BY DEF Types, InUse, Stats, Pools
<1>2. combined'[d] = Larger(combined[d], InUse(d)') /\ \A e \in Devices \ {d} : combined'[e] = combined[e]
  BY DEF Types, Recorded
<1>3. combined' \in [Devices -> Nat]
  BY <1>1, <1>2 DEF Types, Recorded, Larger
<1>4. ASSUME NEW u \in Threads
      PROVE  /\ seen'[u] \in Views
             /\ seen'[u].floor = seen[u].floor /\ seen'[u].clean = seen[u].clean
             /\ ~Busy(u, d) => seen'[u].recent = seen[u].recent
             /\ Busy(u, d) =>
                  /\ seen'[u].recent.tracked = Larger(seen[u].recent.tracked, g_allocation_stats'[d].current)
                  /\ seen'[u].recent.used = Larger(seen[u].recent.used, pool'[d].used)
                  /\ seen'[u].recent.reserved = Larger(seen[u].recent.reserved, pool'[d].reserved)
  <2> DEFINE recent == [tracked |-> Larger(seen[u].recent.tracked, g_allocation_stats'[d].current),
                        used |-> Larger(seen[u].recent.used, pool'[d].used),
                        reserved |-> Larger(seen[u].recent.reserved, pool'[d].reserved)]
  <2>1. seen[u] \in Views /\ seen[u].recent \in Recents
    BY DEF Types, Views
  <2>2. seen'[u] = IF Busy(u, d) THEN [seen[u] EXCEPT !.recent = recent] ELSE seen[u]
    BY DEF Recorded
  <2>3. recent \in Recents
    BY <1>1, <2>1 DEF Recents, Larger
  <2>4. CASE Busy(u, d)
    <3>1. seen'[u] = [seen[u] EXCEPT !.recent = recent]
      BY <2>2, <2>4
    <3>2. seen'[u].recent = recent /\ seen'[u].floor = seen[u].floor /\ seen'[u].clean = seen[u].clean
      BY <2>1, <3>1 DEF Views
    <3>3. seen'[u] \in Views
      BY <2>1, <2>3, <3>1 DEF Views
    <3> QED  BY <2>4, <3>2, <3>3
  <2>5. CASE ~Busy(u, d)
    BY <2>1, <2>2, <2>5
  <2> QED  BY <2>4, <2>5
<1>5. seen' = [u \in Threads |-> seen'[u]]
  BY DEF Recorded
<1>6. seen' \in [Threads -> Views]
  BY <1>4, <1>5
<1>7. /\ combined'[d] >= combined[d] /\ combined'[d] \in Nat
      /\ combined'[d] = combined[d] \/ combined'[d] = g_allocation_stats'[d].current + pool'[d].used
  BY <1>1, <1>2 DEF Larger
<1>8. call' = call
  BY DEF Recorded
<1> QED  BY <1>2, <1>3, <1>4, <1>6, <1>7, <1>8

-----------------------------------------------------------------------------
(* Memory.                                                                   *)

(* What every change of the memory of device d has in common.                *)
Changes(d) ==
    /\ g_allocation_stats' \in [Devices -> Stats] /\ pool' \in [Devices -> Pools]
    /\ \A e \in Devices \ {d} : g_allocation_stats'[e] = g_allocation_stats[e] /\ pool'[e] = pool[e]
    /\ g_allocation_stats'[d].high >= g_allocation_stats[d].high
    /\ g_allocation_stats'[d].high >= g_allocation_stats'[d].current
    /\ pool'[d].usedHigh >= pool[d].usedHigh
    /\ pool'[d].used <= pool'[d].usedHigh /\ pool'[d].used <= pool'[d].reserved
    /\ pool'[d].reserved <= pool'[d].reservedHigh
    /\ g_retain_async_pool => pool'[d].reserved >= pool[d].reserved
    /\ pool'[d].usedHigh = pool[d].usedHigh \/ pool'[d].usedHigh = pool'[d].used
    /\ pool'[d].reservedHigh >= pool[d].reservedHigh
    /\ pool'[d].reservedHigh = pool[d].reservedHigh \/ pool'[d].reservedHigh = pool'[d].reserved
    /\ torn' \in [Devices -> BOOLEAN] /\ \A e \in Devices \ {d} : torn'[e] = torn[e]
    /\ torn[d] => torn'[d]
    /\ \A u \in Threads : (call[u].todo = Reset2 /\ call[u].dev = d) =>
          torn'[d] \/ pool'[d].reserved >= pool[d].reserved

LEMMA ChangeKeeps ==
    ASSUME IInv, NEW d \in Devices, Changes(d), Recorded(d), g_retain_async_pool' = g_retain_async_pool
    PROVE  IInv'
<1>1. Types /\ CountersCovered(d)
  BY DEF IInv
<1>2. g_allocation_stats' \in [Devices -> Stats] /\ pool' \in [Devices -> Pools]
  BY DEF Changes
<1>3. /\ g_allocation_stats[d].current \in Nat /\ g_allocation_stats[d].high \in Nat
      /\ pool[d].used \in Nat /\ pool[d].usedHigh \in Nat
      /\ pool[d].reserved \in Nat /\ pool[d].reservedHigh \in Nat
      /\ g_allocation_stats'[d].current \in Nat /\ g_allocation_stats'[d].high \in Nat
      /\ pool'[d].used \in Nat /\ pool'[d].usedHigh \in Nat
      /\ pool'[d].reserved \in Nat /\ pool'[d].reservedHigh \in Nat
      /\ combined[d] \in Nat /\ g_retain_async_pool \in BOOLEAN
      /\ torn[d] \in BOOLEAN /\ torn'[d] \in BOOLEAN
  BY <1>1, <1>2 DEF Types, Stats, Pools, Changes
<1>4. /\ combined'[d] >= combined[d] /\ combined'[d] \in Nat
      /\ combined'[d] = combined[d] \/ combined'[d] = g_allocation_stats'[d].current + pool'[d].used
      /\ \A e \in Devices \ {d} : combined'[e] = combined[e]
      /\ combined' \in [Devices -> Nat] /\ seen' \in [Threads -> Views]
      /\ call' = call
      /\ \A u \in Threads :
           /\ seen'[u].floor = seen[u].floor /\ seen'[u].clean = seen[u].clean
           /\ ~Busy(u, d) => seen'[u].recent = seen[u].recent
           /\ Busy(u, d) =>
                /\ seen'[u].recent.tracked = Larger(seen[u].recent.tracked, g_allocation_stats'[d].current)
                /\ seen'[u].recent.used = Larger(seen[u].recent.used, pool'[d].used)
                /\ seen'[u].recent.reserved = Larger(seen[u].recent.reserved, pool'[d].reserved)
  BY <1>1, <1>2, RecordedFacts
<1>5. Types'
  BY <1>1, <1>2, <1>4 DEF Types, Changes
<1>6. CountersCovered(d)'
  BY <1>1, <1>3, <1>4 DEF CountersCovered, Changes
<1>7. ASSUME NEW e \in Devices \ {d} PROVE CountersCovered(e)'
  BY <1>4 DEF CountersCovered, Changes, IInv
<1>8. ASSUME NEW u \in Threads PROVE CallCovered(u)'
  <2>1. CallCovered(u) /\ call[u] \in Calls /\ seen[u] \in Views /\ seen[u].recent \in Recents
    BY <1>1 DEF IInv, Types, Views
  <2>2. CASE call[u].todo = <<>>
    BY <1>4, <2>2 DEF CallCovered
  <2>3. CASE call[u].todo # <<>> /\ call[u].dev # d
    <3>1. ~Busy(u, d) /\ call[u].dev \in Devices \ {d}
      BY <2>1, <2>3 DEF Busy, Calls
    <3> QED  BY <1>4, <2>1, <2>3, <3>1 DEF CallCovered, SeenBounds, ReadBounds, ResetBounds, Changes
  <2>4. CASE call[u].todo # <<>> /\ call[u].dev = d
    <3>1. Busy(u, d)
      BY <2>4 DEF Busy
    <3>2. SeenBounds(u, d) /\ ReadBounds(u, d) /\ ResetBounds(u, d)
      BY <2>1, <2>4 DEF CallCovered
    <3>3. /\ seen[u].recent.tracked \in Nat /\ seen[u].recent.used \in Nat /\ seen[u].recent.reserved \in Nat
          /\ seen[u].floor \in Nat /\ seen[u].clean \in BOOLEAN
          /\ call[u].used \in Nat /\ call[u].reserved \in Nat
      BY <2>1 DEF Recents, Views, Calls
    <3>4. /\ seen'[u].floor = seen[u].floor /\ seen'[u].clean = seen[u].clean
          /\ seen'[u].recent.tracked = Larger(seen[u].recent.tracked, g_allocation_stats'[d].current)
          /\ seen'[u].recent.used = Larger(seen[u].recent.used, pool'[d].used)
          /\ seen'[u].recent.reserved = Larger(seen[u].recent.reserved, pool'[d].reserved)
          /\ call' = call
      BY <1>4, <3>1
    <3>5. SeenBounds(u, d)'
      BY <1>3, <1>4, <3>2, <3>3, <3>4 DEF SeenBounds, Larger
    <3>6. ReadBounds(u, d)'
      BY <1>3, <3>2, <3>3, <3>4 DEF ReadBounds, Changes
    <3>7. /\ call[u].todo \in {Reset2, Reset3} => pool'[d].usedHigh <= seen'[u].recent.used
          /\ call[u].todo = Reset3 => pool'[d].reservedHigh <= seen'[u].recent.reserved
      BY <1>3, <3>2, <3>3, <3>4 DEF ResetBounds, Changes, Larger
    <3>8. ASSUME call[u].todo = Reset2, ~torn'[d] PROVE pool'[d].usedHigh <= pool'[d].reserved
      <4>1. ~torn[d] /\ pool'[d].reserved >= pool[d].reserved
        BY <2>4, <3>8 DEF Changes
      <4>2. pool[d].usedHigh <= pool[d].reserved
        BY <3>2, <3>8, <4>1 DEF ResetBounds
      <4> QED  BY <1>3, <4>1, <4>2 DEF Changes
    <3>9. ResetBounds(u, d)'
      BY <3>4, <3>7, <3>8 DEF ResetBounds
    <3> QED  BY <2>4, <3>4, <3>5, <3>6, <3>9 DEF CallCovered
  <2> QED  BY <2>2, <2>3, <2>4
<1> QED  BY <1>5, <1>6, <1>7, <1>8 DEF IInv

LEMMA MemoryChanges ==
    ASSUME IInv, NEW d \in Devices, Memory(d)
    PROVE  Changes(d) /\ Recorded(d)
<1>1. /\ g_allocation_stats \in [Devices -> Stats] /\ pool \in [Devices -> Pools]
      /\ g_allocation_stats[d] \in Stats /\ pool[d] \in Pools
  BY DEF IInv, Types
<1>2. /\ g_allocation_stats[d].current \in Nat /\ g_allocation_stats[d].high \in Nat
      /\ pool[d].used \in Nat /\ pool[d].usedHigh \in Nat
      /\ pool[d].reserved \in Nat /\ pool[d].reservedHigh \in Nat
  BY <1>1 DEF Stats, Pools
<1>3. /\ g_allocation_stats[d].current <= g_allocation_stats[d].high
      /\ pool[d].used <= pool[d].usedHigh /\ pool[d].used <= pool[d].reserved
      /\ pool[d].reserved <= pool[d].reservedHigh
      /\ torn \in [Devices -> BOOLEAN]
  BY DEF IInv, CountersCovered, Types
<1>4. ASSUME NEW n \in Sizes, TrackAllocation(d, n) PROVE Changes(d) /\ Recorded(d)
  <2> DEFINE now == g_allocation_stats[d].current + n
             s2 == [current |-> now, high |-> Larger(g_allocation_stats[d].high, now)]
  <2>1. g_allocation_stats' = [g_allocation_stats EXCEPT ![d] = s2] /\ pool' = pool /\ torn' = torn /\ Recorded(d)
    BY <1>1, <1>4 DEF TrackAllocation
  <2>2. /\ now \in Nat /\ Larger(g_allocation_stats[d].high, now) \in Nat
        /\ Larger(g_allocation_stats[d].high, now) >= g_allocation_stats[d].high
        /\ Larger(g_allocation_stats[d].high, now) >= now
    BY <1>2, PeakAssumption DEF Larger
  <2>3. s2 \in Stats /\ s2.high >= g_allocation_stats[d].high /\ s2.high >= s2.current
    BY <2>2 DEF Stats
  <2> HIDE DEF s2
  <2> QED  BY <1>1, <1>2, <1>3, <2>1, <2>3 DEF Changes
<1>5. ASSUME NEW n \in Sizes, UntrackAllocation(d, n) PROVE Changes(d) /\ Recorded(d)
  <2> DEFINE s2 == [g_allocation_stats[d] EXCEPT !.current = @ - n]
  <2>1. g_allocation_stats' = [g_allocation_stats EXCEPT ![d] = s2] /\ pool' = pool /\ torn' = torn /\ Recorded(d)
    BY <1>1, <1>5 DEF UntrackAllocation
  <2>2. g_allocation_stats[d].current - n \in Nat /\ g_allocation_stats[d].current - n <= g_allocation_stats[d].high
    BY <1>2, <1>3, <1>5, PeakAssumption DEF UntrackAllocation
  <2>3. s2 \in Stats /\ s2.high = g_allocation_stats[d].high /\ s2.current <= g_allocation_stats[d].high
    BY <1>1, <2>2 DEF Stats
  <2> HIDE DEF s2
  <2> QED  BY <1>1, <1>2, <1>3, <2>1, <2>3 DEF Changes
<1>6. ASSUME NEW n \in Sizes, PoolAlloc(d, n) PROVE Changes(d) /\ Recorded(d)
  <2> DEFINE now == pool[d].used + n
             got == Larger(pool[d].reserved, now)
             p2 == [used |-> now, usedHigh |-> Larger(pool[d].usedHigh, now),
                    reserved |-> got, reservedHigh |-> Larger(pool[d].reservedHigh, got)]
  <2>1. pool' = [pool EXCEPT ![d] = p2] /\ UNCHANGED <<g_allocation_stats, torn>> /\ Recorded(d)
    BY <1>1, <1>6 DEF PoolAlloc
  <2>2. now \in Nat /\ got \in Nat /\ got >= pool[d].reserved /\ got >= now
    BY <1>2, PeakAssumption DEF Larger
  <2>3. /\ Larger(pool[d].usedHigh, now) \in Nat
        /\ Larger(pool[d].usedHigh, now) >= pool[d].usedHigh /\ Larger(pool[d].usedHigh, now) >= now
        /\ Larger(pool[d].usedHigh, now) \in {pool[d].usedHigh, now}
    BY <1>2, <2>2 DEF Larger
  <2>4. /\ Larger(pool[d].reservedHigh, got) \in Nat
        /\ Larger(pool[d].reservedHigh, got) >= got
        /\ Larger(pool[d].reservedHigh, got) >= pool[d].reservedHigh
        /\ Larger(pool[d].reservedHigh, got) \in {pool[d].reservedHigh, got}
    <3> HIDE DEF got
    <3> QED  BY <1>2, <2>2 DEF Larger
  <2>5. /\ p2 \in Pools /\ p2.used <= p2.usedHigh /\ p2.used <= p2.reserved /\ p2.reserved <= p2.reservedHigh
        /\ p2.usedHigh >= pool[d].usedHigh /\ p2.reserved >= pool[d].reserved
        /\ p2.usedHigh = pool[d].usedHigh \/ p2.usedHigh = p2.used
        /\ p2.reservedHigh >= pool[d].reservedHigh
        /\ p2.reservedHigh = pool[d].reservedHigh \/ p2.reservedHigh = p2.reserved
    <3> HIDE DEF now, got
    <3> QED  BY <2>2, <2>3, <2>4 DEF Pools
  <2> HIDE DEF p2
  <2> QED  BY <1>1, <1>2, <1>3, <2>1, <2>5 DEF Changes
<1>7. ASSUME NEW n \in Sizes, PoolFree(d, n) PROVE Changes(d) /\ Recorded(d)
  <2> DEFINE p2 == [pool[d] EXCEPT !.used = @ - n]
  <2>1. pool' = [pool EXCEPT ![d] = p2] /\ UNCHANGED <<g_allocation_stats, torn>> /\ Recorded(d)
    BY <1>1, <1>7 DEF PoolFree
  <2>2. /\ pool[d].used - n \in Nat /\ pool[d].used - n <= pool[d].usedHigh
        /\ pool[d].used - n <= pool[d].reserved
    BY <1>2, <1>3, <1>7, PeakAssumption DEF PoolFree
  <2>3. /\ p2 \in Pools /\ p2.usedHigh = pool[d].usedHigh /\ p2.used <= p2.usedHigh /\ p2.used <= p2.reserved
        /\ p2.reserved = pool[d].reserved /\ p2.reservedHigh = pool[d].reservedHigh
    BY <1>1, <2>2 DEF Pools
  <2> HIDE DEF p2
  <2> QED  BY <1>1, <1>2, <1>3, <2>1, <2>3 DEF Changes
<1>8. CASE PoolRelease(d)
  <2> DEFINE p2 == [pool[d] EXCEPT !.reserved = pool[d].used]
  <2>1. /\ pool' = [pool EXCEPT ![d] = p2] /\ g_allocation_stats' = g_allocation_stats /\ Recorded(d)
        /\ ~g_retain_async_pool
        /\ torn' = [torn EXCEPT ![d] =
                      @ \/ \E u \in Threads : Busy(u, d) /\ At(u, "resetReserved")]
    BY <1>1, <1>8 DEF PoolRelease
  <2>2. /\ p2 \in Pools /\ p2.usedHigh = pool[d].usedHigh /\ p2.used = pool[d].used
        /\ p2.reserved = pool[d].used /\ p2.reservedHigh = pool[d].reservedHigh
    BY <1>1, <1>2 DEF Pools
  <2> HIDE DEF p2
  <2>3. /\ torn' \in [Devices -> BOOLEAN] /\ \A e \in Devices \ {d} : torn'[e] = torn[e]
        /\ torn[d] => torn'[d]
        /\ (\E u \in Threads : Busy(u, d) /\ At(u, "resetReserved")) => torn'[d]
    <3> DEFINE b == torn[d] \/ \E u \in Threads : Busy(u, d) /\ At(u, "resetReserved")
    <3>1. torn' = [torn EXCEPT ![d] = b] /\ b \in BOOLEAN
      BY <2>1
    <3>2. torn'[d] = b
      BY <1>3, <3>1
    <3>3. torn' \in [Devices -> BOOLEAN] /\ \A e \in Devices \ {d} : torn'[e] = torn[e]
      <4> HIDE DEF b
      <4> QED  BY <1>3, <3>1
    <3> QED  BY <3>2, <3>3
  <2>4. ASSUME NEW u \in Threads, call[u].todo = Reset2, call[u].dev = d
        PROVE  torn'[d]
    BY <2>3, <2>4, Different, Steps DEF Busy, At
  <2> QED  BY <1>1, <1>2, <1>3, <2>1, <2>2, <2>3, <2>4 DEF Changes
<1> QED  BY <1>4, <1>5, <1>6, <1>7, <1>8 DEF Memory

-----------------------------------------------------------------------------
(* Calls.                                                                    *)

(* A step of a call that only reads changes what thread t knows.             *)
LEMMA ReadKeeps ==
    ASSUME IInv, NEW t \in Threads, NEW f \in Calls, call' = [call EXCEPT ![t] = f],
           UNCHANGED <<g_retain_async_pool, g_allocation_stats, pool, combined, seen, torn>>,
           f.todo # <<>> => SeenBounds(t, f.dev),
           f.todo \in {Get2, Get3} /\ seen[t].clean =>
              g_allocation_stats[f.dev].high + f.used >= seen[t].floor,
           f.todo \in {Get2, Get3} /\ g_retain_async_pool => f.used <= pool[f.dev].reserved,
           f.todo = Get3 /\ g_retain_async_pool => f.used <= f.reserved,
           f.todo \in {Get2, Get3} /\ seen[t].clean /\ ~torn[f.dev] =>
              f.used <= pool[f.dev].reservedHigh,
           f.todo = Get3 /\ seen[t].clean /\ ~torn[f.dev] => f.used <= f.reserved,
           f.todo \notin {Reset2, Reset3}
    PROVE  IInv'
<1>1. Types'
  BY DEF IInv, Types
<1>2. \A e \in Devices : CountersCovered(e)'
  BY DEF IInv, CountersCovered
<1>3. ASSUME NEW u \in Threads PROVE CallCovered(u)'
  <2>1. CASE u = t
    <3>1. call'[u] = f
      BY <2>1 DEF IInv, Types
    <3> QED  BY <2>1, <3>1 DEF CallCovered, SeenBounds, ReadBounds, ResetBounds
  <2>2. CASE u # t
    <3>1. call'[u] = call[u]
      BY <2>2 DEF IInv, Types
    <3> QED  BY <3>1 DEF IInv, CallCovered, SeenBounds, ReadBounds, ResetBounds
  <2> QED  BY <2>1, <2>2
<1> QED  BY <1>1, <1>2, <1>3 DEF IInv

LEMMA BeginKeeps ==
    ASSUME IInv, NEW t \in Threads, NEW d \in Devices, NEW body \in {Reset1, Get1},
           Begin(t, d, body), UNCHANGED g_retain_async_pool
    PROVE  IInv'
<1> DEFINE f == [NoCall EXCEPT !.todo = body, !.dev = d]
           v == [floor |-> combined[d], clean |-> TRUE,
                 recent |-> [tracked |-> g_allocation_stats[d].current,
                             used |-> pool[d].used, reserved |-> pool[d].reserved]]
<1>1. /\ call' = [call EXCEPT ![t] = f] /\ seen' = [seen EXCEPT ![t] = v]
      /\ UNCHANGED <<g_allocation_stats, pool, combined, torn>>
  BY DEF Begin
<1>2. /\ g_allocation_stats[d].current \in Nat /\ combined[d] \in Nat
      /\ pool[d].used \in Nat /\ pool[d].reserved \in Nat
  BY DEF IInv, Types, Stats, Pools
<1>3. f \in Calls /\ f.todo = body /\ f.dev = d
  BY DEF NoCall, Calls, Rests
<1>4. /\ v \in Views /\ v.floor = combined[d] /\ v.recent.tracked = g_allocation_stats[d].current
      /\ v.recent.used = pool[d].used /\ v.recent.reserved = pool[d].reserved
  BY <1>2 DEF Views, Recents
<1> HIDE DEF f, v
<1>5. Types'
  BY <1>1, <1>3, <1>4 DEF IInv, Types
<1>6. \A e \in Devices : CountersCovered(e)'
  BY <1>1 DEF IInv, CountersCovered
<1>7. ASSUME NEW u \in Threads PROVE CallCovered(u)'
  <2>1. CASE u = t
    <3>1. call'[u] = f /\ seen'[u] = v
      BY <1>1, <2>1 DEF IInv, Types
    <3>2. SeenBounds(u, d)'
      BY <1>1, <1>2, <1>4, <3>1 DEF SeenBounds
    <3>3. call'[u].todo \notin {Get2, Get3, Reset2, Reset3}
      BY <1>3, <3>1, Different
    <3> QED  BY <1>3, <3>1, <3>2, <3>3 DEF CallCovered, ReadBounds, ResetBounds
  <2>2. CASE u # t
    <3>1. call'[u] = call[u] /\ seen'[u] = seen[u]
      BY <1>1, <2>2 DEF IInv, Types
    <3> QED  BY <1>1, <3>1 DEF IInv, CallCovered, SeenBounds, ReadBounds, ResetBounds
  <2> QED  BY <2>1, <2>2
<1> QED  BY <1>5, <1>6, <1>7 DEF IInv

(* What a reset of one watermark of device d does to the three of them.      *)
Lowers(d) ==
    /\ g_allocation_stats' \in [Devices -> Stats] /\ pool' \in [Devices -> Pools]
    /\ \A e \in Devices \ {d} : g_allocation_stats'[e] = g_allocation_stats[e] /\ pool'[e] = pool[e]
    /\ g_allocation_stats'[d].current = g_allocation_stats[d].current
    /\ pool'[d].used = pool[d].used /\ pool'[d].reserved = pool[d].reserved
    /\ g_allocation_stats'[d].high \in {g_allocation_stats[d].high, g_allocation_stats[d].current}
    /\ pool'[d].usedHigh \in {pool[d].usedHigh, pool[d].used}
    /\ pool'[d].reservedHigh \in {pool[d].reservedHigh, pool[d].reserved}
    /\ torn' \in [Devices -> BOOLEAN] /\ \A e \in Devices \ {d} : torn'[e] = torn[e]
    /\ torn'[d] = torn[d] \/ pool'[d].usedHigh = pool[d].used

LEMMA ResetKeeps ==
    ASSUME IInv, NEW t \in Threads, NEW d \in Devices, Busy(t, d), Lowers(d), Touched(d),
           NEW f \in Calls, call' = [call EXCEPT ![t] = f], UNCHANGED g_retain_async_pool,
           f.todo \in {<<>>, Reset2, Reset3}, f.todo # <<>> => f.dev = d,
           f.todo # <<>> => pool'[d].usedHigh <= seen[t].recent.used,
           f.todo = Reset3 => pool'[d].reservedHigh <= seen[t].recent.reserved,
           f.todo = Reset2 => pool'[d].usedHigh <= pool[d].reserved,
           ~torn'[d] => pool'[d].usedHigh <= pool'[d].reservedHigh
    PROVE  IInv'
<1>1. Types /\ CountersCovered(d)
  BY DEF IInv
<1>2. /\ combined'[d] = InUse(d) /\ InUse(d) \in Nat
      /\ \A e \in Devices \ {d} : combined'[e] = combined[e]
      /\ combined' \in [Devices -> Nat] /\ seen' \in [Threads -> Views]
      /\ \A u \in Threads : /\ seen'[u].recent = seen[u].recent
                            /\ seen'[u].floor = seen[u].floor
                            /\ seen'[u].clean => seen[u].clean
                            /\ Busy(u, d) => ~seen'[u].clean
  BY <1>1, TouchedFacts
<1>3. /\ g_allocation_stats[d].current \in Nat /\ g_allocation_stats[d].high \in Nat
      /\ pool[d].used \in Nat /\ pool[d].usedHigh \in Nat
      /\ pool[d].reserved \in Nat /\ pool[d].reservedHigh \in Nat
  BY <1>1 DEF Types, Stats, Pools
<1>4. Types'
  BY <1>1, <1>2 DEF Types, Lowers
<1>5. CountersCovered(d)'
  <2>1. combined'[d] = g_allocation_stats[d].current + pool[d].used
    BY <1>2 DEF InUse
  <2>2. /\ g_allocation_stats'[d].high >= g_allocation_stats[d].current
        /\ pool'[d].usedHigh >= pool[d].used /\ pool'[d].usedHigh <= pool[d].usedHigh
        /\ pool'[d].reservedHigh >= pool[d].reserved
        /\ g_allocation_stats'[d].high \in Nat /\ pool'[d].usedHigh \in Nat
    BY <1>1, <1>3 DEF CountersCovered, Lowers
  <2>3. g_retain_async_pool' => pool'[d].usedHigh <= pool[d].reserved
    BY <1>1, <1>3, <2>2 DEF CountersCovered
  <2>4. g_allocation_stats'[d].high + pool'[d].usedHigh >= combined'[d]
    BY <1>3, <2>1, <2>2
  <2> QED  BY <1>1, <2>2, <2>3, <2>4 DEF CountersCovered, Lowers
<1>6. ASSUME NEW e \in Devices \ {d} PROVE CountersCovered(e)'
  BY <1>2 DEF IInv, CountersCovered, Lowers
<1>7. ASSUME NEW u \in Threads, u # t PROVE CallCovered(u)'
  <2>1. call'[u] = call[u] /\ CallCovered(u)
    BY <1>1, <1>7 DEF Types, IInv
  <2>2. call[u] \in Calls /\ seen[u] \in Views /\ seen[u].recent \in Recents
    BY <1>1 DEF Types, Views
  <2>3. CASE call[u].todo = <<>>
    BY <2>1, <2>3 DEF CallCovered
  <2>4. CASE call[u].todo # <<>> /\ call[u].dev # d
    <3>1. call[u].dev \in Devices \ {d}
      BY <2>2, <2>4 DEF Calls
    <3> QED  BY <1>2, <2>1, <2>4, <3>1 DEF CallCovered, SeenBounds, ReadBounds, ResetBounds, Lowers
  <2>5. CASE call[u].todo # <<>> /\ call[u].dev = d
    <3>1. /\ SeenBounds(u, d) /\ ReadBounds(u, d) /\ ResetBounds(u, d)
          /\ ~seen'[u].clean /\ seen'[u].recent = seen[u].recent
      BY <1>2, <2>1, <2>5 DEF CallCovered, Busy
    <3>2. SeenBounds(u, d)'
      BY <3>1 DEF SeenBounds, Lowers
    <3>3. ReadBounds(u, d)'
      BY <2>1, <3>1 DEF ReadBounds, Lowers
    <3>4. /\ pool[d].used <= pool[d].usedHigh /\ pool[d].reserved <= pool[d].reservedHigh
          /\ seen[u].recent.used \in Nat /\ seen[u].recent.reserved \in Nat
      BY <1>1, <2>2 DEF CountersCovered, Recents
    <3>5. pool'[d].usedHigh <= pool[d].usedHigh /\ pool'[d].reservedHigh <= pool[d].reservedHigh
      BY <1>3, <3>4 DEF Lowers
    <3>6. pool'[d].usedHigh \in Nat /\ pool'[d].reservedHigh \in Nat
      BY <1>3 DEF Lowers
    <3>7. /\ call[u].todo \in {Reset2, Reset3} => pool'[d].usedHigh <= seen'[u].recent.used
          /\ call[u].todo = Reset3 => pool'[d].reservedHigh <= seen'[u].recent.reserved
      BY <1>3, <3>1, <3>4, <3>5, <3>6 DEF ResetBounds
    <3>8. ASSUME call[u].todo = Reset2, ~torn'[d] PROVE pool'[d].usedHigh <= pool'[d].reserved
      <4>1. CASE pool'[d].usedHigh = pool[d].used
        BY <1>1, <4>1 DEF CountersCovered, Lowers
      <4>2. CASE torn'[d] = torn[d]
        <5>1. pool[d].usedHigh <= pool[d].reserved
          BY <3>1, <3>8, <4>2 DEF ResetBounds
        <5> QED  BY <1>3, <3>5, <3>6, <5>1 DEF Lowers
      <4> QED  BY <4>1, <4>2 DEF Lowers
    <3>9. ResetBounds(u, d)'
      BY <2>1, <3>7, <3>8 DEF ResetBounds
    <3> QED  BY <2>1, <2>5, <3>2, <3>3, <3>9 DEF CallCovered
  <2> QED  BY <2>3, <2>4, <2>5
<1>8. CallCovered(t)'
  <2>1. call'[t] = f /\ call[t].todo # <<>> /\ call[t].dev = d
    BY <1>1 DEF Types, Busy
  <2>2. SeenBounds(t, d)'
    BY <1>2, <2>1 DEF IInv, CallCovered, SeenBounds, Lowers
  <2>3. f.todo \notin {Get2, Get3}
    BY Different
  <2>4. pool'[d].reserved = pool[d].reserved
    BY DEF Lowers
  <2> QED  BY <1>2, <2>1, <2>2, <2>3, <2>4 DEF CallCovered, ReadBounds, ResetBounds
<1> QED  BY <1>4, <1>5, <1>6, <1>7, <1>8 DEF IInv

-----------------------------------------------------------------------------
(* The steps of a reset.                                                     *)

(* The frame that Advance leaves.                                            *)
Frame(g, rest) == IF rest = <<>> THEN NoCall ELSE [g EXCEPT !.todo = rest]

LEMMA FrameFacts ==
    ASSUME NEW g \in Calls, NEW rest \in Rests
    PROVE  /\ Frame(g, rest) \in Calls /\ Frame(g, rest).todo = rest
           /\ rest # <<>> => /\ Frame(g, rest).dev = g.dev
                             /\ Frame(g, rest).used = g.used
                             /\ Frame(g, rest).reserved = g.reserved
<1>1. 0 \in Devices
  BY PeakAssumption DEF Devices
<1>2. CASE rest = <<>>
  BY <1>1, <1>2 DEF Frame, NoCall, Calls, Rests
<1>3. CASE rest # <<>>
  BY <1>3 DEF Frame, Calls
<1> QED  BY <1>2, <1>3

LEMMA AdvanceFacts ==
    ASSUME NEW t \in Threads, NEW g, Advance(t, g)
    PROVE  call' = [call EXCEPT ![t] = Frame(g, Tail(call[t].todo))]
BY DEF Advance, Frame

LEMMA ResetUsedKeeps ==
    ASSUME IInv, NEW t \in Threads, ResetUsed(t), UNCHANGED g_retain_async_pool
    PROVE  IInv'
<1> DEFINE d == call[t].dev
           p2 == [pool[d] EXCEPT !.usedHigh = pool[d].used]
<1>1. /\ call[t].todo = Reset1 /\ d \in Devices /\ call[t] \in Calls /\ Busy(t, d)
      /\ g_allocation_stats[d] \in Stats /\ pool[d] \in Pools
  BY Places, Different DEF ResetUsed, IInv, Types, Calls, Busy
<1> DEFINE f == Frame(call[t], Reset2)
<1> HIDE DEF f
<1>2. /\ call' = [call EXCEPT ![t] = f] /\ f \in Calls /\ f.todo = Reset2 /\ f.dev = d
  <2>1. Advance(t, call[t]) /\ Tail(call[t].todo) = Reset2
    BY <1>1, Steps DEF ResetUsed
  <2>2. call' = [call EXCEPT ![t] = Frame(call[t], Reset2)]
    BY <2>1, AdvanceFacts
  <2>3. call[t] \in Calls /\ Reset2 \in Rests
    BY <1>1 DEF Rests
  <2> QED  BY <1>1, <2>2, <2>3, FrameFacts, Different DEF f
<1>3. /\ pool' = [pool EXCEPT ![d] = p2] /\ g_allocation_stats' = g_allocation_stats /\ Touched(d)
      /\ torn' = [torn EXCEPT ![d] = FALSE]
  BY <1>1 DEF ResetUsed, IInv, Types
<1>4. /\ p2 \in Pools /\ p2.used = pool[d].used /\ p2.usedHigh = pool[d].used
      /\ p2.reserved = pool[d].reserved /\ p2.reservedHigh = pool[d].reservedHigh
  BY <1>1 DEF Pools
<1> HIDE DEF p2
<1>5. Lowers(d) /\ pool'[d].usedHigh = pool[d].used
  BY <1>1, <1>3, <1>4 DEF Lowers, IInv, Types
<1>6. pool[d].used <= seen[t].recent.used
  BY <1>1, Different DEF IInv, CallCovered, SeenBounds, Recents, Types, Views, Pools
<1>7. pool[d].used <= pool[d].reserved /\ pool[d].used <= pool'[d].reservedHigh
  <2>1. CountersCovered(d) /\ pool'[d].reservedHigh = pool[d].reservedHigh
    BY <1>1, <1>3, <1>4 DEF IInv, Types
  <2> QED  BY <1>1, <2>1 DEF CountersCovered, Pools
<1> HIDE DEF d
<1> QED  BY <1>1, <1>2, <1>3, <1>5, <1>6, <1>7, ResetKeeps, Different

LEMMA ResetReservedKeeps ==
    ASSUME IInv, NEW t \in Threads, ResetReserved(t), UNCHANGED g_retain_async_pool
    PROVE  IInv'
<1> DEFINE d == call[t].dev
           p2 == [pool[d] EXCEPT !.reservedHigh = pool[d].reserved]
<1>1. /\ call[t].todo = Reset2 /\ d \in Devices /\ call[t] \in Calls /\ Busy(t, d)
      /\ g_allocation_stats[d] \in Stats /\ pool[d] \in Pools
  BY Places, Different DEF ResetReserved, IInv, Types, Calls, Busy
<1> DEFINE f == Frame(call[t], Reset3)
<1> HIDE DEF f
<1>2. /\ call' = [call EXCEPT ![t] = f] /\ f \in Calls /\ f.todo = Reset3 /\ f.dev = d
  <2>1. Advance(t, call[t]) /\ Tail(call[t].todo) = Reset3
    BY <1>1, Steps DEF ResetReserved
  <2>2. call' = [call EXCEPT ![t] = Frame(call[t], Reset3)]
    BY <2>1, AdvanceFacts
  <2>3. call[t] \in Calls /\ Reset3 \in Rests
    BY <1>1 DEF Rests
  <2> QED  BY <1>1, <2>2, <2>3, FrameFacts, Different DEF f
<1>3. /\ pool' = [pool EXCEPT ![d] = p2] /\ g_allocation_stats' = g_allocation_stats /\ Touched(d)
      /\ torn' = torn
  BY <1>1 DEF ResetReserved, IInv, Types
<1>4. /\ p2 \in Pools /\ p2.used = pool[d].used /\ p2.usedHigh = pool[d].usedHigh
      /\ p2.reserved = pool[d].reserved /\ p2.reservedHigh = pool[d].reserved
  BY <1>1 DEF Pools
<1> HIDE DEF p2
<1>5. Lowers(d) /\ pool'[d].usedHigh = pool[d].usedHigh /\ pool'[d].reservedHigh = pool[d].reserved
  BY <1>1, <1>3, <1>4 DEF Lowers, IInv, Types
<1>6. /\ pool[d].usedHigh <= seen[t].recent.used /\ pool[d].reserved <= seen[t].recent.reserved
      /\ ~torn[d] => pool[d].usedHigh <= pool[d].reserved
  BY <1>1, Different DEF IInv, CallCovered, SeenBounds, ResetBounds, Recents, Types, Views, Pools
<1> HIDE DEF d
<1> QED  BY <1>1, <1>2, <1>3, <1>5, <1>6, ResetKeeps, Different

LEMMA ResetTrackedKeeps ==
    ASSUME IInv, NEW t \in Threads, ResetTracked(t), UNCHANGED g_retain_async_pool
    PROVE  IInv'
<1> DEFINE d == call[t].dev
           s2 == [g_allocation_stats[d] EXCEPT !.high = g_allocation_stats[d].current]
<1>1. /\ call[t].todo = Reset3 /\ d \in Devices /\ call[t] \in Calls /\ Busy(t, d)
      /\ g_allocation_stats[d] \in Stats /\ pool[d] \in Pools
  BY Places, Different DEF ResetTracked, IInv, Types, Calls, Busy
<1> DEFINE f == Frame(call[t], <<>>)
<1> HIDE DEF f
<1>2. /\ call' = [call EXCEPT ![t] = f] /\ f \in Calls /\ f.todo = <<>>
  <2>1. Advance(t, call[t]) /\ Tail(call[t].todo) = <<>>
    BY <1>1, Steps DEF ResetTracked
  <2>2. call' = [call EXCEPT ![t] = Frame(call[t], <<>>)]
    BY <2>1, AdvanceFacts
  <2>3. call[t] \in Calls /\ <<>> \in Rests
    BY <1>1 DEF Rests
  <2> QED  BY <1>1, <2>2, <2>3, FrameFacts, Different DEF f
<1>3. /\ g_allocation_stats' = [g_allocation_stats EXCEPT ![d] = s2] /\ pool' = pool /\ torn' = torn
      /\ Touched(d)
  BY <1>1 DEF ResetTracked, HighAfterReset, IInv, Types
<1>4. s2 \in Stats /\ s2.current = g_allocation_stats[d].current /\ s2.high = g_allocation_stats[d].current
  BY <1>1 DEF Stats
<1> HIDE DEF s2
<1>5. Lowers(d)
  BY <1>1, <1>3, <1>4 DEF Lowers, IInv, Types
<1>6. ~torn[d] => pool[d].usedHigh <= pool[d].reservedHigh
  BY <1>1 DEF IInv, CountersCovered
<1> HIDE DEF d
<1> QED  BY <1>1, <1>2, <1>3, <1>5, <1>6, ResetKeeps, Different

-----------------------------------------------------------------------------
(* The steps of a read.                                                      *)

LEMMA ReadUsedKeeps ==
    ASSUME IInv, NEW t \in Threads, ReadUsed(t), UNCHANGED g_retain_async_pool
    PROVE  IInv'
<1> DEFINE d == call[t].dev
           g == [call[t] EXCEPT !.used = pool[d].usedHigh]
<1>1. /\ call[t].todo = Get1 /\ d \in Devices /\ call[t] \in Calls
      /\ g_allocation_stats[d] \in Stats /\ pool[d] \in Pools /\ seen[t] \in Views
  BY Places DEF ReadUsed, IInv, Types, Calls
<1>2. g \in Calls /\ g.dev = d /\ g.used = pool[d].usedHigh
  BY <1>1 DEF Calls, Pools
<1> HIDE DEF g
<1> DEFINE f == Frame(g, Get2)
<1> HIDE DEF f
<1>3. /\ call' = [call EXCEPT ![t] = f] /\ f \in Calls /\ f.todo = Get2
      /\ f.dev = d /\ f.used = pool[d].usedHigh
  <2>1. Advance(t, g) /\ Tail(call[t].todo) = Get2
    BY <1>1, Steps DEF ReadUsed, g
  <2>2. call' = [call EXCEPT ![t] = Frame(g, Get2)]
    BY <2>1, AdvanceFacts
  <2>3. g \in Calls /\ Get2 \in Rests
    BY <1>2 DEF Rests
  <2> QED  BY <1>2, <2>2, <2>3, FrameFacts, Different DEF f
<1>4. CountersCovered(d) /\ SeenBounds(t, d)
  BY <1>1, Different DEF IInv, CallCovered
<1>5. seen[t].clean => g_allocation_stats[d].high + f.used >= seen[t].floor
  <2>1. /\ combined[d] \in Nat /\ seen[t].floor \in Nat
        /\ g_allocation_stats[d].high + pool[d].usedHigh \in Nat
    BY <1>1 DEF IInv, Types, Stats, Pools, Views
  <2>2. /\ g_allocation_stats[d].high + pool[d].usedHigh >= combined[d]
        /\ seen[t].clean => combined[d] >= seen[t].floor
    BY <1>4 DEF CountersCovered, SeenBounds
  <2> QED  BY <1>3, <2>1, <2>2
<1>6. /\ g_retain_async_pool => f.used <= pool[d].reserved
      /\ ~torn[d] => f.used <= pool[d].reservedHigh
  BY <1>3, <1>4 DEF CountersCovered
<1> HIDE DEF d
<1> QED  BY <1>3, <1>4, <1>5, <1>6, Different, ReadKeeps DEF ReadUsed

LEMMA ReadReservedKeeps ==
    ASSUME IInv, NEW t \in Threads, ReadReserved(t), UNCHANGED g_retain_async_pool
    PROVE  IInv'
<1> DEFINE d == call[t].dev
           g == [call[t] EXCEPT !.reserved = pool[d].reservedHigh]
<1>1. /\ call[t].todo = Get2 /\ d \in Devices /\ call[t] \in Calls /\ pool[d] \in Pools
  BY Places DEF ReadReserved, IInv, Types, Calls
<1>2. g \in Calls /\ g.dev = d /\ g.used = call[t].used /\ g.reserved = pool[d].reservedHigh
  BY <1>1 DEF Calls, Pools
<1> HIDE DEF g
<1> DEFINE f == Frame(g, Get3)
<1> HIDE DEF f
<1>3. /\ call' = [call EXCEPT ![t] = f] /\ f \in Calls /\ f.todo = Get3 /\ f.dev = d
      /\ f.used = call[t].used /\ f.reserved = pool[d].reservedHigh
  <2>1. Advance(t, g) /\ Tail(call[t].todo) = Get3
    BY <1>1, Steps DEF ReadReserved, g
  <2>2. call' = [call EXCEPT ![t] = Frame(g, Get3)]
    BY <2>1, AdvanceFacts
  <2>3. g \in Calls /\ Get3 \in Rests
    BY <1>2 DEF Rests
  <2> QED  BY <1>2, <2>2, <2>3, FrameFacts, Different DEF f
<1>4. CountersCovered(d) /\ SeenBounds(t, d) /\ ReadBounds(t, d)
  BY <1>1, Different DEF IInv, CallCovered
<1>5. /\ seen[t].clean => g_allocation_stats[d].high + f.used >= seen[t].floor
      /\ g_retain_async_pool => f.used <= pool[d].reserved
      /\ seen[t].clean /\ ~torn[d] => f.used <= pool[d].reservedHigh
  BY <1>1, <1>3, <1>4 DEF ReadBounds
<1>6. g_retain_async_pool => f.used <= f.reserved
  <2>1. /\ call[t].used \in Nat /\ pool[d].reserved \in Nat /\ pool[d].reservedHigh \in Nat
        /\ pool[d].reserved <= pool[d].reservedHigh
    BY <1>1, <1>4 DEF Calls, Pools, CountersCovered
  <2> QED  BY <1>3, <1>5, <2>1
<1> HIDE DEF d
<1> QED  BY <1>3, <1>4, <1>5, <1>6, Different, ReadKeeps DEF ReadReserved

LEMMA ReadTrackedKeeps ==
    ASSUME IInv, NEW t \in Threads, ReadTracked(t), UNCHANGED g_retain_async_pool
    PROVE  IInv'
<1>1. call[t].todo = Get3 /\ call[t] \in Calls
  BY Places DEF ReadTracked, IInv, Types
<1> DEFINE f == Frame(call[t], <<>>)
<1> HIDE DEF f
<1>2. /\ call' = [call EXCEPT ![t] = f] /\ f \in Calls /\ f.todo = <<>>
  <2>1. Advance(t, call[t]) /\ Tail(call[t].todo) = <<>>
    BY <1>1, Steps DEF ReadTracked
  <2>2. call' = [call EXCEPT ![t] = Frame(call[t], <<>>)]
    BY <2>1, AdvanceFacts
  <2>3. call[t] \in Calls /\ <<>> \in Rests
    BY <1>1 DEF Rests
  <2> QED  BY <1>1, <2>2, <2>3, FrameFacts, Different DEF f
<1> QED  BY <1>2, Different, ReadKeeps DEF ReadTracked

-----------------------------------------------------------------------------
LEMMA InitInvariant == Init => IInv
<1> SUFFICES ASSUME Init PROVE IInv
  OBVIOUS
<1>1. 0 \in Devices
  BY PeakAssumption DEF Devices
<1>2. NoCall \in Calls /\ NoCall.todo = <<>>
  BY <1>1 DEF NoCall, Calls, Rests
<1>3. NoneSeen \in Views
  BY DEF NoneSeen, Views, Recents
<1>4. Types
  BY <1>2, <1>3 DEF Init, Types, Stats, Pools
<1>5. \A d \in Devices : CountersCovered(d)
  BY DEF Init, CountersCovered
<1>6. \A t \in Threads : CallCovered(t)
  BY <1>2 DEF Init, CallCovered
<1> QED  BY <1>4, <1>5, <1>6 DEF IInv

LEMMA StepInvariant == IInv /\ [Next]_vars => IInv'
<1> SUFFICES ASSUME IInv, [Next]_vars PROVE IInv'
  OBVIOUS
<1>1. ASSUME NEW t \in Threads, Step(t), UNCHANGED g_retain_async_pool PROVE IInv'
  <2>1. CASE ResetMemPoolHighWatermarks(t)
    BY <1>1, <2>1, Steps, BeginKeeps DEF ResetMemPoolHighWatermarks
  <2>2. CASE GetMemPoolPeakMB(t)
    BY <1>1, <2>2, Steps, BeginKeeps DEF GetMemPoolPeakMB
  <2> QED  BY <1>1, <2>1, <2>2, ResetUsedKeeps, ResetReservedKeeps, ResetTrackedKeeps,
              ReadUsedKeeps, ReadReservedKeeps, ReadTrackedKeeps DEF Step
<1>2. ASSUME NEW d \in Devices, Memory(d), UNCHANGED g_retain_async_pool PROVE IInv'
  BY <1>2, MemoryChanges, ChangeKeeps
<1>3. CASE UNCHANGED vars
  BY <1>3 DEF vars, IInv, Types, CountersCovered, CallCovered, SeenBounds, ReadBounds, ResetBounds
<1> QED  BY <1>1, <1>2, <1>3 DEF Next

(* The bounds between the watermarks, the counters and the calls hold in     *)
(* every reachable state.                                                    *)
THEOREM Invariance == Spec => []IInv
BY InitInvariant, StepInvariant, PTL DEF Spec

(* The two watermarks of a device cover what was in use at once.             *)
THEOREM WatermarksAlwaysCover == Spec => []WatermarksCoverUse
<1>1. IInv => WatermarksCoverUse
  BY Frames1 DEF IInv, CountersCovered, WatermarksCoverUse
<1> QED  BY Invariance, <1>1, PTL

LEMMA MegabytesCover ==
    ASSUME NEW n \in Nat, NEW B \in Nat \ {0}
    PROVE  ((n \div B) + 1) * B > n
<1>1. n = B * (n \div B) + (n % B) /\ n % B \in 0 .. B - 1 /\ n \div B \in Nat
  OBVIOUS
<1>2. \A q \in Nat : (q + 1) * B = B * q + B
  OBVIOUS
<1> QED  BY <1>1, <1>2

LEMMA MegabytesOrdered ==
    ASSUME NEW m \in Nat, NEW n \in Nat, m <= n, NEW B \in Nat \ {0}
    PROVE  m \div B <= n \div B
<1>1. ((n \div B) + 1) * B > n /\ n \div B \in Nat
  BY MegabytesCover
<1>2. m = B * (m \div B) + (m % B) /\ m % B \in 0 .. B - 1 /\ m \div B \in Nat
  OBVIOUS
<1>3. \A p, q \in Nat : p >= q + 1 => B * p >= (q + 1) * B
  OBVIOUS
<1>4. SUFFICES ASSUME m \div B >= (n \div B) + 1 PROVE FALSE
  BY <1>1, <1>2
<1> QED  BY <1>1, <1>2, <1>3, <1>4

(* What a read finds in its last step.                                       *)
LEMMA LastReading ==
    ASSUME IInv, NEW t \in Threads, ReadTracked(t)
    PROVE  /\ TrackedPeak(t) \in Nat /\ call[t].used \in Nat /\ call[t].reserved \in Nat
           /\ seen[t].floor \in Nat
           /\ seen[t].clean => TrackedPeak(t) + call[t].used >= seen[t].floor
           /\ g_retain_async_pool \/ (seen[t].clean /\ ~torn[call[t].dev]) =>
                 call[t].used <= call[t].reserved
<1>1. call[t].todo = Get3
  BY Places DEF ReadTracked, IInv
<1>2. ReadBounds(t, call[t].dev)
  BY <1>1, Different DEF IInv, CallCovered
<1> QED  BY <1>1, <1>2 DEF IInv, Types, Calls, Stats, Views, ReadBounds, TrackedPeak

(* The used peak covers what was ever in use at once, to the megabyte.       *)
THEOREM PeakIsAPeak == Spec => PeakCoversUse
<1>1. IInv => \A t \in Threads : (ReadTracked(t) /\ seen[t].clean) =>
                  (UsedPeakMB(t) + 1) * BytesPerMB > seen[t].floor
  <2> SUFFICES ASSUME IInv, NEW t \in Threads, ReadTracked(t), seen[t].clean
               PROVE  (UsedPeakMB(t) + 1) * BytesPerMB > seen[t].floor
    OBVIOUS
  <2> DEFINE n == TrackedPeak(t) + call[t].used
  <2>1. n \in Nat /\ seen[t].floor \in Nat /\ n >= seen[t].floor
    BY LastReading
  <2> HIDE DEF n
  <2>2. ((n \div BytesPerMB) + 1) * BytesPerMB > n
    BY <2>1, MegabytesCover, PeakAssumption
  <2>3. n \div BytesPerMB \in Nat /\ BytesPerMB \in Nat
    BY <2>1, PeakAssumption
  <2>4. ((n \div BytesPerMB) + 1) * BytesPerMB > seen[t].floor
    <3>1. ((n \div BytesPerMB) + 1) * BytesPerMB \in Nat
      BY <2>3
    <3> QED  BY <2>1, <2>2, <3>1
  <2> QED  BY <2>4 DEF UsedPeakMB, n
<1> QED  BY Invariance, <1>1, PTL DEF PeakCoversUse

(* But for pages given back in the middle of a reset, or a reset in the      *)
(* middle of the read, the used peak is within the reserved peak.            *)
THEOREM UsedIsWithinReserved == Spec => UsedWithinReserved
<1>1. IInv => \A t \in Threads :
                (/\ ReadTracked(t)
                 /\ g_retain_async_pool \/ (seen[t].clean /\ ~torn[call[t].dev])) =>
                   UsedPeakMB(t) <= ReservedPeakMB(t)
  <2> SUFFICES ASSUME IInv, NEW t \in Threads, ReadTracked(t),
                      g_retain_async_pool \/ (seen[t].clean /\ ~torn[call[t].dev])
               PROVE  UsedPeakMB(t) <= ReservedPeakMB(t)
    OBVIOUS
  <2> DEFINE m == TrackedPeak(t) + call[t].used
             n == TrackedPeak(t) + call[t].reserved
  <2>1. m \in Nat /\ n \in Nat /\ m <= n
    BY LastReading
  <2> HIDE DEF m, n
  <2>2. m \div BytesPerMB <= n \div BytesPerMB
    BY <2>1, MegabytesOrdered, PeakAssumption
  <2> QED  BY <2>2 DEF UsedPeakMB, ReservedPeakMB, m, n
<1> QED  BY Invariance, <1>1, PTL DEF UsedWithinReserved

(* A reset leaves nothing of what was before it in any watermark.            *)
THEOREM ResetsForget == Spec => ResetForgets
<1> DEFINE Ends(t) == /\ call[t].todo # <<>> /\ call'[t].todo = <<>>
                      /\ Head(call[t].todo) \in {"resetUsed", "resetReserved", "resetTracked"}
           Forgot(t) == LET d == call[t].dev
                        IN  /\ g_allocation_stats'[d].high <= seen[t].recent.tracked
                            /\ pool'[d].usedHigh <= seen[t].recent.used
                            /\ pool'[d].reservedHigh <= seen[t].recent.reserved
<1>1. IInv /\ [Next]_vars => \A t \in Threads : Ends(t) => Forgot(t)
  <2> SUFFICES ASSUME IInv, [Next]_vars, NEW t \in Threads, Ends(t) PROVE Forgot(t)
    OBVIOUS
  <2>1. ~UNCHANGED call
    OBVIOUS
  <2>2. PICK u \in Threads : Step(u)
    BY <2>1 DEF Next, vars, Memory, TrackAllocation, UntrackAllocation, PoolAlloc, PoolFree,
                PoolRelease, Recorded
  <2>3. u = t
    BY <2>1, <2>2 DEF Step, ResetMemPoolHighWatermarks, GetMemPoolPeakMB, Begin, ResetUsed,
                      ResetReserved, ResetTracked, ReadUsed, ReadReserved, ReadTracked, Advance,
                      IInv, Types
  <2>4. /\ call[t] \in Calls /\ call[t].dev \in Devices /\ g_allocation_stats[call[t].dev] \in Stats
        /\ Head(call[t].todo) \notin {"readUsed", "readReserved", "readTracked"}
    BY DEF IInv, Types, Calls
  <2>5. ~ResetUsed(t) /\ ~ResetReserved(t)
    <3>1. ASSUME ResetUsed(t) PROVE FALSE
      <4>1. call[t].todo = Reset1
        BY <3>1, Places DEF ResetUsed, IInv
      <4>2. Advance(t, call[t]) /\ Tail(call[t].todo) = Reset2
        BY <3>1, <4>1, Steps DEF ResetUsed
      <4>3. call' = [call EXCEPT ![t] = Frame(call[t], Reset2)]
        BY <4>2, AdvanceFacts
      <4>4. Frame(call[t], Reset2).todo = Reset2
        BY <2>4, FrameFacts DEF Rests
      <4> QED  BY <4>3, <4>4, Different DEF IInv, Types
    <3>2. ASSUME ResetReserved(t) PROVE FALSE
      <4>1. call[t].todo = Reset2
        BY <3>2, Places DEF ResetReserved, IInv
      <4>2. Advance(t, call[t]) /\ Tail(call[t].todo) = Reset3
        BY <3>2, <4>1, Steps DEF ResetReserved
      <4>3. call' = [call EXCEPT ![t] = Frame(call[t], Reset3)]
        BY <4>2, AdvanceFacts
      <4>4. Frame(call[t], Reset3).todo = Reset3
        BY <2>4, FrameFacts DEF Rests
      <4> QED  BY <4>3, <4>4, Different DEF IInv, Types
    <3> QED  BY <3>1, <3>2
  <2>6. ResetTracked(t)
    BY <2>2, <2>3, <2>4, <2>5 DEF Step, ResetMemPoolHighWatermarks, GetMemPoolPeakMB, Begin,
                                  ReadUsed, ReadReserved, ReadTracked, At
  <2>7. call[t].todo = Reset3
    BY <2>6, Places DEF ResetTracked, IInv
  <2>8. SeenBounds(t, call[t].dev) /\ ResetBounds(t, call[t].dev)
    BY <2>7, Different DEF IInv, CallCovered
  <2>9. pool' = pool /\ g_allocation_stats'[call[t].dev].high = g_allocation_stats[call[t].dev].current
    BY <2>4, <2>6 DEF ResetTracked, HighAfterReset, IInv, Types, Stats
  <2>10. seen[t].recent \in Recents
    BY DEF IInv, Types, Views
  <2> QED  BY <2>4, <2>7, <2>8, <2>9, <2>10 DEF SeenBounds, ResetBounds, Recents, Stats
<1> QED  BY Invariance, <1>1, PTL DEF Spec, ResetForgets
================================================================================
