---------------------------- MODULE MacaEventsProofs ----------------------------
(***************************************************************************)
(* Proofs about MacaEvents, for any threads, devices, streams, events and  *)
(* bounds.                                                                 *)
(*                                                                         *)
(* What the calls promise (owed, cover, after) goes from hand to hand:     *)
(* every kernel that is put before an item is before an earlier item of    *)
(* its stream, or before the record that it waits for.  The driver keeps   *)
(* those two orders only, and that is enough for the whole promise.        *)
(***************************************************************************)
EXTENDS MacaEvents, SequenceTheorems, TLAPS

Ids == SUBSET Nat
StreamType == [device : Devices, priority : BOOLEAN, blocking : BOOLEAN, alive : BOOLEAN]
EventType == [device : Devices, flag : Flags, timing : BOOLEAN, last : Nat, alive : BOOLEAN]
ItemType == [kind : {"kernel", "record", "wait"}, stream : Nat, record : Nat, after : Ids]
CallType == [in : BOOLEAN, waits : Ids, promise : Ids]

Types ==
    /\ device \in [Threads -> Devices]
    /\ streams \in Seq(StreamType) /\ events \in Seq(EventType) /\ items \in Seq(ItemType)
    /\ owed \in Seq(Ids) /\ cover \in Seq(Ids)
    /\ Len(owed) = Len(streams) /\ Len(cover) = Len(events)
    /\ call \in [Threads -> CallType]

Within ==
    \A i \in 1 .. Len(items) : items[i].stream \in 1 .. Len(streams) /\ items[i].record \in 0 .. i - 1

(* Kernel k is item j or is put before it.                                   *)
Behind(k, j) == k = j \/ k \in items[j].after

BehindStream(k, s, n) == \E j \in 1 .. n : items[j].stream = s /\ Behind(k, j)

OwedComes == \A s \in 1 .. Len(streams), k \in Nat : k \in owed[s] => BehindStream(k, s, Len(items))

AfterComes ==
    \A i \in 1 .. Len(items) : \A k \in items[i].after :
        \/ BehindStream(k, items[i].stream, i - 1)
        \/ /\ items[i].kind = "wait" /\ items[i].record # 0
           /\ k \in items[items[i].record].after

(* What an event covers is what its last record comes after.                 *)
CoverOf(e) ==
    IF events[e].last = 0 THEN cover[e] = {}
    ELSE /\ events[e].last \in 1 .. Len(items)
         /\ cover[e] = items[events[e].last].after
         /\ items[events[e].last].kind = "record"
         /\ streams[items[events[e].last].stream].device = events[e].device

CoverComes == \A e \in 1 .. Len(events) : CoverOf(e)

BlockingComes == \A s \in 1 .. Len(streams) : streams[s].blocking = ~streams[s].priority

OrderHolds == done \subseteq 1 .. Len(items) /\ \A i \in done : items[i].after \subseteq done

PromiseOf(t) ==
    /\ call[t].waits \subseteq 1 .. Len(items)
    /\ \A k \in call[t].promise :
          k \in done \/ \E w \in call[t].waits : Behind(k, w)

IInv == Types /\ Within /\ OwedComes /\ AfterComes /\ CoverComes /\ BlockingComes /\ OrderHolds
        /\ \A t \in Threads : PromiseOf(t)

-----------------------------------------------------------------------------
LEMMA Domains ==
    ASSUME Types
    PROVE  /\ Len(items) \in Nat /\ Items = 1 .. Len(items) /\ DOMAIN items = 1 .. Len(items)
           /\ Len(streams) \in Nat /\ DOMAIN streams = 1 .. Len(streams)
           /\ Len(events) \in Nat /\ DOMAIN events = 1 .. Len(events)
           /\ DOMAIN owed = 1 .. Len(streams) /\ DOMAIN cover = 1 .. Len(events)
           /\ \A i \in 1 .. Len(items) : items[i] \in ItemType
           /\ \A s \in 1 .. Len(streams) : streams[s] \in StreamType /\ owed[s] \in Ids
           /\ \A e \in 1 .. Len(events) : events[e] \in EventType /\ cover[e] \in Ids
<1>1. /\ Len(items) \in Nat /\ DOMAIN items = 1 .. Len(items) /\ items \in [1 .. Len(items) -> ItemType]
  BY LenProperties DEF Types
<1>2. /\ Len(streams) \in Nat /\ DOMAIN streams = 1 .. Len(streams)
      /\ streams \in [1 .. Len(streams) -> StreamType]
  BY LenProperties DEF Types
<1>3. /\ Len(events) \in Nat /\ DOMAIN events = 1 .. Len(events)
      /\ events \in [1 .. Len(events) -> EventType]
  BY LenProperties DEF Types
<1>4. DOMAIN owed = 1 .. Len(streams) /\ owed \in [1 .. Len(streams) -> Ids]
  BY LenProperties DEF Types
<1>5. DOMAIN cover = 1 .. Len(events) /\ cover \in [1 .. Len(events) -> Ids]
  BY LenProperties DEF Types
<1> QED  BY <1>1, <1>2, <1>3, <1>4, <1>5 DEF Items

-----------------------------------------------------------------------------
(* Submitting.                                                               *)

(* An item may follow what is submitted when everything put before it comes  *)
(* before an item of its stream, or before the record that it waits for.     *)
MayFollow(r) ==
    /\ r \in ItemType /\ r.stream \in 1 .. Len(streams) /\ r.record \in 0 .. Len(items)
    /\ \A k \in r.after :
          \/ BehindStream(k, r.stream, Len(items))
          \/ r.kind = "wait" /\ r.record # 0 /\ k \in items[r.record].after

Follows(r) == items' = Append(items, r) /\ UNCHANGED <<device, streams, done, call>>

LEMMA FollowsFacts ==
    ASSUME Types, NEW r \in ItemType, Follows(r)
    PROVE  /\ items' \in Seq(ItemType) /\ Len(items) \in Nat /\ Len(items') = Len(items) + 1
           /\ items'[Len(items) + 1] = r
           /\ \A i \in 1 .. Len(items) : items'[i] = items[i]
BY AppendProperties, LenProperties DEF Types, Follows

(* What held of the submitted items still does.                              *)
LEMMA FollowsKeeps ==
    ASSUME IInv, NEW r, MayFollow(r), Follows(r)
    PROVE  /\ items' \in Seq(ItemType)
           /\ Within' /\ AfterComes' /\ OrderHolds' /\ BlockingComes'
           /\ \A t \in Threads : PromiseOf(t)'
           /\ \A k, s : BehindStream(k, s, Len(items)) => BehindStream(k, s, Len(items))'
<1> SUFFICES ASSUME NEW n, n = Len(items)
             PROVE  /\ items' \in Seq(ItemType)
                    /\ Within' /\ AfterComes' /\ OrderHolds' /\ BlockingComes'
                    /\ \A t \in Threads : PromiseOf(t)'
                    /\ \A k, s : BehindStream(k, s, n) => BehindStream(k, s, Len(items))'
  OBVIOUS
<1>1. /\ items' \in Seq(ItemType) /\ n \in Nat /\ Len(items') = n + 1 /\ items'[n + 1] = r
      /\ \A i \in 1 .. n : items'[i] = items[i]
      /\ streams' = streams /\ done' = done /\ call' = call
  BY FollowsFacts DEF IInv, MayFollow, Follows
<1>2. \A i \in 1 .. n + 1 : i \in 1 .. n \/ i = n + 1
  BY <1>1
<1>3. \A j \in 1 .. n : j \in 1 .. n + 1
  BY <1>1
<1>4. ASSUME NEW m \in 0 .. n, NEW k, NEW s, BehindStream(k, s, m)
      PROVE  \E j \in 1 .. m : items'[j].stream = s /\ (k = j \/ k \in items'[j].after)
  <2>1. PICK j \in 1 .. m : items[j].stream = s /\ Behind(k, j)
    BY <1>4 DEF BehindStream
  <2>2. j \in 1 .. n
    BY <1>1
  <2> QED  BY <1>1, <2>1, <2>2 DEF Behind
<1>5. Within'
  <2>1. ASSUME NEW i \in 1 .. n PROVE items'[i].stream \in 1 .. Len(streams) /\ items'[i].record \in 0 .. i - 1
    BY <1>1 DEF IInv, Within
  <2>2. items'[n + 1].stream \in 1 .. Len(streams) /\ items'[n + 1].record \in 0 .. (n + 1) - 1
    BY <1>1 DEF MayFollow
  <2> QED  BY <1>1, <1>2, <2>1, <2>2 DEF Within
<1>6. AfterComes'
  <2> SUFFICES ASSUME NEW i \in 1 .. n + 1, NEW k \in items'[i].after
               PROVE  \/ \E j \in 1 .. i - 1 : items'[j].stream = items'[i].stream
                                               /\ (k = j \/ k \in items'[j].after)
                      \/ /\ items'[i].kind = "wait" /\ items'[i].record # 0
                         /\ k \in items'[items'[i].record].after
    BY <1>1 DEF AfterComes, BehindStream, Behind
  <2>1. CASE i \in 1 .. n
    <3>1. items'[i] = items[i] /\ i - 1 \in 0 .. n /\ items[i].record \in 0 .. i - 1
      BY <1>1, <2>1 DEF IInv, Within
    <3>2. \/ BehindStream(k, items[i].stream, i - 1)
          \/ items[i].kind = "wait" /\ items[i].record # 0 /\ k \in items[items[i].record].after
      BY <2>1, <3>1 DEF IInv, AfterComes
    <3>3. CASE BehindStream(k, items[i].stream, i - 1)
      BY <1>4, <3>1, <3>3
    <3>4. CASE items[i].kind = "wait" /\ items[i].record # 0 /\ k \in items[items[i].record].after
      <4>1. items[i].record \in 1 .. n
        BY <1>1, <2>1, <3>1, <3>4
      <4> QED  BY <1>1, <3>1, <3>4, <4>1
    <3> QED  BY <3>2, <3>3, <3>4
  <2>2. CASE i = n + 1
    <3>1. items'[i] = r /\ i - 1 = n /\ r.record \in 0 .. n
      BY <1>1, <2>2 DEF MayFollow
    <3>2. \/ BehindStream(k, r.stream, n)
          \/ r.kind = "wait" /\ r.record # 0 /\ k \in items[r.record].after
      BY <3>1 DEF MayFollow
    <3>3. CASE BehindStream(k, r.stream, n)
      <4>1. n \in 0 .. n
        BY <1>1
      <4> QED  BY <1>4, <3>1, <3>3, <4>1
    <3>4. CASE r.kind = "wait" /\ r.record # 0 /\ k \in items[r.record].after
      <4>1. r.record \in 1 .. n
        BY <1>1, <3>1, <3>4
      <4> QED  BY <1>1, <3>1, <3>4, <4>1
    <3> QED  BY <3>2, <3>3, <3>4
  <2> QED  BY <1>2, <2>1, <2>2
<1>7. OrderHolds'
  BY <1>1, <1>3 DEF IInv, OrderHolds
<1>8. ASSUME NEW t \in Threads PROVE PromiseOf(t)'
  BY <1>1, <1>3 DEF IInv, PromiseOf, Behind
<1>9. BlockingComes'
  BY <1>1 DEF IInv, BlockingComes
<1>10. ASSUME NEW k, NEW s, BehindStream(k, s, n) PROVE BehindStream(k, s, Len(items))'
  <2>1. n \in 0 .. n
    BY <1>1
  <2>2. PICK j \in 1 .. n : items'[j].stream = s /\ (k = j \/ k \in items'[j].after)
    BY <1>4, <1>10, <2>1
  <2> QED  BY <1>1, <1>3, <2>2 DEF BehindStream, Behind
<1> QED  BY <1>1, <1>5, <1>6, <1>7, <1>8, <1>9, <1>10

(* The new item stands behind its stream.                                    *)
LEMMA NewBehind ==
    ASSUME Types, NEW r \in ItemType, Follows(r), NEW k, k = Len(items) + 1 \/ k \in r.after
    PROVE  BehindStream(k, r.stream, Len(items))'
<1> SUFFICES ASSUME NEW n, n = Len(items) PROVE BehindStream(k, r.stream, Len(items))'
  OBVIOUS
<1>1. n \in Nat /\ Len(items') = n + 1 /\ items'[n + 1] = r
  BY FollowsFacts
<1>2. n + 1 \in 1 .. n + 1
  BY <1>1
<1> QED  BY <1>1, <1>2 DEF BehindStream, Behind

(* An event that is not touched covers what it did.                          *)
LEMMA CoverKept ==
    ASSUME IInv, NEW r \in ItemType, Follows(r), NEW e \in 1 .. Len(events),
           events'[e].last = events[e].last, events'[e].device = events[e].device,
           cover'[e] = cover[e]
    PROVE  CoverOf(e)'
<1> SUFFICES ASSUME NEW n, n = Len(items), NEW last, last = events[e].last PROVE CoverOf(e)'
  OBVIOUS
<1>1. /\ n \in Nat /\ Len(items') = n + 1 /\ \A i \in 1 .. n : items'[i] = items[i]
      /\ streams' = streams
  BY FollowsFacts DEF IInv, Follows
<1>2. CoverOf(e)
  BY DEF IInv, CoverComes
<1>3. CASE last = 0
  BY <1>2, <1>3 DEF CoverOf
<1>4. CASE last # 0
  <2>1. /\ last \in 1 .. n /\ cover[e] = items[last].after /\ items[last].kind = "record"
        /\ streams[items[last].stream].device = events[e].device
    BY <1>2, <1>4 DEF CoverOf
  <2>2. last \in 1 .. n + 1 /\ items'[last] = items[last]
    BY <1>1, <2>1
  <2> QED  BY <1>1, <1>4, <2>1, <2>2 DEF CoverOf
<1> QED  BY <1>3, <1>4

(* What comes before the next item of a stream when the new one is added.    *)
LEMMA OwedGrows ==
    ASSUME IInv, NEW r, MayFollow(r), Follows(r), NEW more \in Ids,
           \A k \in more : k = Len(items) + 1 \/ k \in r.after,
           owed' = [owed EXCEPT ![r.stream] = @ \cup more]
    PROVE  /\ owed' \in Seq(Ids) /\ Len(owed') = Len(streams)
           /\ OwedComes'
<1> DEFINE s == r.stream
           all == owed[s] \cup more
<1>1. /\ r \in ItemType /\ s \in 1 .. Len(streams) /\ owed \in Seq(Ids) /\ Len(owed) = Len(streams)
      /\ streams' = streams /\ Types
  BY DEF IInv, Types, MayFollow, Follows
<1>2. owed[s] \in Ids /\ all \in Ids
  BY <1>1, Domains DEF Ids
<1> HIDE DEF s
<1>3. owed' = [owed EXCEPT ![s] = all]
  BY <1>1 DEF s
<1>4. /\ owed' \in Seq(Ids) /\ Len(owed') = Len(streams)
      /\ \A u \in 1 .. Len(streams) : owed'[u] = IF u = s THEN all ELSE owed[u]
  <2> HIDE DEF all
  <2>1. s \in 1 .. Len(owed)
    BY <1>1
  <2>2. owed \in Seq(Ids) /\ all \in Ids
    BY <1>1, <1>2
  <2>3. /\ owed' \in Seq(Ids) /\ Len(owed') = Len(owed)
        /\ \A u \in 1 .. Len(owed) : owed'[u] = IF u = s THEN all ELSE owed[u]
    <3>1. /\ [owed EXCEPT ![s] = all] \in Seq(Ids)
          /\ Len([owed EXCEPT ![s] = all]) = Len(owed)
          /\ \A u \in 1 .. Len(owed) : [owed EXCEPT ![s] = all][u] = IF u = s THEN all ELSE owed[u]
      BY <2>1, <2>2, ExceptSeq
    <3> QED  BY <1>3, <3>1
  <2> QED  BY <1>1, <2>3
<1>5. ASSUME NEW u \in 1 .. Len(streams), NEW k \in Nat, k \in owed'[u]
      PROVE  BehindStream(k, u, Len(items))'
  <2>1. CASE k \in owed[u]
    <3>1. BehindStream(k, u, Len(items))
      BY <2>1 DEF IInv, OwedComes
    <3> QED  BY <3>1, FollowsKeeps
  <2>2. CASE u = s /\ k \in more
    BY <1>1, <2>2, NewBehind DEF s
  <2> QED  BY <1>4, <1>5, <2>1, <2>2
<1>6. OwedComes'
  BY <1>1, <1>5 DEF OwedComes
<1> QED  BY <1>4, <1>6

LEMMA LaunchKeeps ==
    ASSUME IInv, NEW t \in Threads, NEW s \in Streams, Launch(t, s)
    PROVE  IInv'
<1> DEFINE r == [kind |-> "kernel", stream |-> s, record |-> 0, after |-> owed[s]]
<1>1. s \in 1 .. Len(streams) /\ owed[s] \in Ids /\ Len(items) \in Nat /\ Types
  BY Domains DEF IInv, Streams
<1>2. /\ Follows(r) /\ UNCHANGED <<events, cover>>
      /\ owed' = [owed EXCEPT ![s] = @ \cup {Len(items')}]
  BY DEF Launch, Submitted, Follows, made
<1>3. /\ r \in ItemType /\ r.stream = s /\ r.record = 0 /\ r.after = owed[s]
  BY <1>1 DEF ItemType
<1> HIDE DEF r
<1>4. MayFollow(r)
  BY <1>1, <1>3 DEF MayFollow, IInv, OwedComes, Ids
<1>5. Len(items') = Len(items) + 1
  BY <1>1, <1>2, <1>3, FollowsFacts
<1>6. /\ owed' \in Seq(Ids) /\ Len(owed') = Len(streams) /\ OwedComes'
  <2> DEFINE more == {Len(items')}
  <2>1. more \in Ids
    BY <1>1, <1>5 DEF Ids
  <2>2. \A k \in more : k = Len(items) + 1 \/ k \in r.after
    BY <1>5
  <2>3. owed' = [owed EXCEPT ![r.stream] = @ \cup more]
    BY <1>2, <1>3
  <2> HIDE DEF more
  <2> QED  BY <1>2, <1>4, <2>1, <2>2, <2>3, OwedGrows
<1>7. CoverComes'
  BY <1>2, <1>3, CoverKept DEF CoverComes
<1>8. /\ items' \in Seq(ItemType) /\ Within' /\ AfterComes' /\ OrderHolds' /\ BlockingComes'
      /\ \A u \in Threads : PromiseOf(u)'
  BY <1>2, <1>4, FollowsKeeps
<1>9. Types'
  BY <1>1, <1>2, <1>6, <1>8 DEF Types, Follows
<1> QED  BY <1>6, <1>7, <1>8, <1>9 DEF IInv

LEMMA StreamWaitEventKeeps ==
    ASSUME IInv, NEW t \in Threads, NEW s \in Streams, NEW e \in Events, StreamWaitEvent(t, s, e)
    PROVE  IInv'
<1> DEFINE r == [kind |-> "wait", stream |-> s, record |-> Awaited(e), after |-> owed'[s]]
<1>1. /\ s \in 1 .. Len(streams) /\ owed[s] \in Ids /\ Len(items) \in Nat /\ Types
      /\ e \in 1 .. Len(events) /\ cover[e] \in Ids /\ events[e] \in EventType
      /\ owed \in Seq(Ids) /\ Len(owed) = Len(streams)
  BY Domains DEF IInv, Streams, Events, Types
<1>2. /\ Follows(r) /\ UNCHANGED <<events, cover>>
      /\ owed' = [owed EXCEPT ![s] = @ \cup cover[e]]
  BY DEF StreamWaitEvent, Submitted, Follows, made
<1>3. owed'[s] = owed[s] \cup cover[e]
  <2>1. s \in DOMAIN owed
    BY <1>1, Domains
  <2> QED  BY <1>2, <2>1
<1>4. CoverOf(e)
  BY <1>1 DEF IInv, CoverComes
<1>5. Awaited(e) \in 0 .. Len(items) /\ Awaited(e) \in Nat
      /\ \A k \in cover[e] : Awaited(e) # 0 /\ k \in items[Awaited(e)].after
  BY <1>1, <1>4 DEF CoverOf, Awaited, EventType
<1>6. owed'[s] \in Ids
  BY <1>1, <1>3 DEF Ids
<1>7. /\ r \in ItemType /\ r.stream = s /\ r.record = Awaited(e) /\ r.after = owed'[s] /\ r.kind = "wait"
  BY <1>1, <1>5, <1>6 DEF ItemType
<1> HIDE DEF r
<1>8. MayFollow(r)
  <2>1. ASSUME NEW k \in r.after
        PROVE  \/ BehindStream(k, r.stream, Len(items))
               \/ r.kind = "wait" /\ r.record # 0 /\ k \in items[r.record].after
    <3>1. CASE k \in owed[s]
      BY <1>1, <1>7, <3>1 DEF IInv, OwedComes, Ids
    <3>2. CASE k \in cover[e]
      BY <1>5, <1>7, <3>2
    <3> QED  BY <1>3, <1>7, <2>1, <3>1, <3>2
  <2> QED  BY <1>1, <1>5, <1>7, <2>1 DEF MayFollow
<1>9. /\ owed' \in Seq(Ids) /\ Len(owed') = Len(streams) /\ OwedComes'
  <2>1. \A k \in cover[e] : k \in r.after
    BY <1>3, <1>7
  <2>2. owed' = [owed EXCEPT ![r.stream] = @ \cup cover[e]]
    BY <1>2, <1>7
  <2> QED  BY <1>1, <1>2, <1>8, <2>1, <2>2, OwedGrows
<1>10. CoverComes'
  BY <1>2, <1>7, CoverKept DEF CoverComes
<1>11. /\ items' \in Seq(ItemType) /\ Within' /\ AfterComes' /\ OrderHolds' /\ BlockingComes'
       /\ \A u \in Threads : PromiseOf(u)'
  BY <1>2, <1>8, FollowsKeeps
<1>12. Types'
  BY <1>1, <1>2, <1>9, <1>11 DEF Types, Follows
<1> QED  BY <1>9, <1>10, <1>11, <1>12 DEF IInv

-----------------------------------------------------------------------------
(* Steps that submit nothing.                                                *)

LEMMA QuietKeeps ==
    ASSUME IInv, UNCHANGED <<made, items, done, owed, cover, call>>,
           device' \in [Threads -> Devices]
    PROVE  IInv'
<1>1. Types' /\ Within' /\ BlockingComes' /\ OrderHolds'
  BY DEF IInv, made, Types, Within, BlockingComes, OrderHolds
<1>2. OwedComes' /\ AfterComes'
  BY DEF IInv, made, OwedComes, AfterComes, BehindStream, Behind
<1>3. CoverComes' /\ \A t \in Threads : PromiseOf(t)'
  BY DEF IInv, made, CoverComes, CoverOf, PromiseOf, Behind
<1> QED  BY <1>1, <1>2, <1>3 DEF IInv

LEMMA EventRecordKeeps ==
    ASSUME IInv, NEW t \in Threads, NEW e \in Events, NEW s \in Streams, EventRecord(t, e, s)
    PROVE  IInv'
<1>1. CASE events[e].device # streams[s].device
  BY <1>1, QuietKeeps DEF EventRecord, made, IInv, Types
<1>2. CASE events[e].device = streams[s].device
  <2> DEFINE r == [kind |-> "record", stream |-> s, record |-> 0, after |-> owed[s]]
             v == [events[e] EXCEPT !.last = Len(items')]
  <2>1. /\ s \in 1 .. Len(streams) /\ owed[s] \in Ids /\ Len(items) \in Nat /\ Types
        /\ e \in 1 .. Len(events) /\ events[e] \in EventType
        /\ events \in Seq(EventType) /\ cover \in Seq(Ids) /\ Len(cover) = Len(events)
    BY Domains DEF IInv, Streams, Events, Types
  <2>2. /\ Follows(r) /\ UNCHANGED owed
        /\ events' = [events EXCEPT ![e] = v]
        /\ cover' = [cover EXCEPT ![e] = owed[s]]
    BY <1>2, <2>1 DEF EventRecord, Submitted, Follows
  <2>3. /\ r \in ItemType /\ r.stream = s /\ r.record = 0 /\ r.after = owed[s] /\ r.kind = "record"
    BY <2>1 DEF ItemType
  <2> HIDE DEF r
  <2>4. MayFollow(r)
    BY <2>1, <2>3 DEF MayFollow, IInv, OwedComes, Ids
  <2>5. Len(items') = Len(items) + 1 /\ items'[Len(items) + 1] = r /\ Len(items) + 1 \in Nat
    BY <2>1, <2>2, <2>3, FollowsFacts
  <2>6. v \in EventType /\ v.last = Len(items) + 1 /\ v.device = events[e].device
    BY <2>1, <2>5 DEF EventType
  <2> HIDE DEF v
  <2>7. /\ events' \in Seq(EventType) /\ Len(events') = Len(events)
        /\ \A f \in 1 .. Len(events) : events'[f] = IF f = e THEN v ELSE events[f]
    <3>1. /\ [events EXCEPT ![e] = v] \in Seq(EventType)
          /\ Len([events EXCEPT ![e] = v]) = Len(events)
          /\ \A f \in 1 .. Len(events) : [events EXCEPT ![e] = v][f] = IF f = e THEN v ELSE events[f]
      BY <2>1, <2>6, ExceptSeq
    <3> QED  BY <2>2, <3>1
  <2>8. /\ cover' \in Seq(Ids) /\ Len(cover') = Len(events)
        /\ \A f \in 1 .. Len(events) : cover'[f] = IF f = e THEN owed[s] ELSE cover[f]
    <3>1. e \in 1 .. Len(cover)
      BY <2>1
    <3>2. /\ [cover EXCEPT ![e] = owed[s]] \in Seq(Ids)
          /\ Len([cover EXCEPT ![e] = owed[s]]) = Len(cover)
          /\ \A f \in 1 .. Len(cover) : [cover EXCEPT ![e] = owed[s]][f] = IF f = e THEN owed[s] ELSE cover[f]
      BY <2>1, <3>1, ExceptSeq
    <3> QED  BY <2>1, <2>2, <3>2
  <2>9. ASSUME NEW f \in 1 .. Len(events) PROVE CoverOf(f)'
    <3>1. CASE f = e
      <4> SUFFICES ASSUME NEW n, n = Len(items) PROVE CoverOf(f)'
        OBVIOUS
      <4>1. events'[f] = v /\ cover'[f] = owed[s] /\ v.last = n + 1 /\ items'[n + 1] = r
        BY <2>5, <2>6, <2>7, <2>8, <3>1
      <4>2. v.last # 0 /\ v.last \in 1 .. Len(items') /\ streams' = streams
        BY <2>1, <2>2, <2>5, <4>1 DEF Follows
      <4> QED  BY <1>2, <2>3, <2>6, <3>1, <4>1, <4>2 DEF CoverOf
    <3>2. CASE f # e
      <4>1. events'[f] = events[f] /\ cover'[f] = cover[f]
        BY <2>7, <2>8, <3>2
      <4> QED  BY <2>2, <2>3, <4>1, CoverKept
    <3> QED  BY <3>1, <3>2
  <2>10. /\ items' \in Seq(ItemType) /\ Within' /\ AfterComes' /\ OrderHolds' /\ BlockingComes'
         /\ \A u \in Threads : PromiseOf(u)'
    BY <2>2, <2>4, FollowsKeeps
  <2>11. OwedComes'
    <3>1. \A k, u : BehindStream(k, u, Len(items)) => BehindStream(k, u, Len(items))'
      BY <2>2, <2>4, FollowsKeeps
    <3>2. owed' = owed /\ streams' = streams
      BY <2>2 DEF Follows
    <3> QED  BY <3>1, <3>2 DEF IInv, OwedComes
  <2>12. Types'
    BY <2>1, <2>2, <2>7, <2>8, <2>10 DEF Types, Follows
  <2>13. CoverComes'
    BY <2>7, <2>9 DEF CoverComes
  <2> QED  BY <2>10, <2>11, <2>12, <2>13 DEF IInv
<1> QED  BY <1>1, <1>2

LEMMA EventCreateKeeps ==
    ASSUME IInv, NEW t \in Threads, NEW flag \in Flags, EventCreate(t, flag)
    PROVE  IInv'
<1>1. CASE ~Accepted(ToMacaEventFlags(flag))
  BY <1>1, QuietKeeps DEF EventCreate, made, IInv, Types
<1>2. CASE Accepted(ToMacaEventFlags(flag))
  <2> DEFINE v == [device |-> device[t], flag |-> flag,
                   timing |-> "mcEventDisableTiming" \notin ToMacaEventFlags(flag),
                   last |-> 0, alive |-> TRUE]
  <2>1. /\ events' = Append(events, v) /\ cover' = Append(cover, {})
        /\ UNCHANGED <<device, streams, items, done, owed, call>>
    BY <1>2 DEF EventCreate
  <2>2. v \in EventType /\ v.last = 0 /\ {} \in Ids /\ Types
    BY DEF IInv, Types, EventType, Ids
  <2> HIDE DEF v
  <2> SUFFICES ASSUME NEW m, m = Len(events) PROVE IInv'
    OBVIOUS
  <2>3. /\ events' \in Seq(EventType) /\ Len(events') = m + 1 /\ m \in Nat /\ events'[m + 1] = v
        /\ \A f \in 1 .. m : events'[f] = events[f]
    BY <2>1, <2>2, AppendProperties, LenProperties DEF Types
  <2>4. /\ cover' \in Seq(Ids) /\ Len(cover') = m + 1 /\ cover'[m + 1] = {}
        /\ \A f \in 1 .. m : cover'[f] = cover[f]
    <3>1. cover \in Seq(Ids) /\ Len(cover) = m
      BY <2>2 DEF Types
    <3> QED  BY <2>1, <2>2, <3>1, AppendProperties
  <2>5. \A f \in 1 .. m + 1 : f \in 1 .. m \/ f = m + 1
    BY <2>3
  <2>6. ASSUME NEW f \in 1 .. m + 1 PROVE CoverOf(f)'
    <3>1. CASE f \in 1 .. m
      <4>1. events'[f] = events[f] /\ cover'[f] = cover[f] /\ CoverOf(f)
        BY <2>3, <2>4, <3>1 DEF IInv, CoverComes
      <4> QED  BY <2>1, <4>1 DEF CoverOf
    <3>2. CASE f = m + 1
      <4>1. events'[f].last = 0 /\ cover'[f] = {}
        BY <2>2, <2>3, <2>4, <3>2
      <4> QED  BY <4>1 DEF CoverOf
    <3> QED  BY <2>5, <3>1, <3>2
  <2>7. CoverComes'
    BY <2>3, <2>6 DEF CoverComes
  <2>8. Types'
    BY <2>1, <2>2, <2>3, <2>4 DEF Types
  <2>9. Within' /\ BlockingComes' /\ OrderHolds' /\ OwedComes' /\ AfterComes'
    <3>1. Within' /\ BlockingComes' /\ OrderHolds'
      BY <2>1 DEF IInv, Within, BlockingComes, OrderHolds
    <3>2. OwedComes' /\ AfterComes'
      BY <2>1 DEF IInv, OwedComes, AfterComes, BehindStream, Behind
    <3> QED  BY <3>1, <3>2
  <2>10. \A u \in Threads : PromiseOf(u)'
    BY <2>1 DEF IInv, PromiseOf, Behind
  <2> QED  BY <2>7, <2>8, <2>9, <2>10 DEF IInv
<1> QED  BY <1>1, <1>2

LEMMA EventDestroyKeeps ==
    ASSUME IInv, NEW t \in Threads, NEW e \in Events, EventDestroy(t, e)
    PROVE  IInv'
<1> DEFINE v == [events[e] EXCEPT !.alive = FALSE]
<1>1. /\ e \in 1 .. Len(events) /\ events[e] \in EventType /\ events \in Seq(EventType) /\ Types
      /\ \A f \in 1 .. Len(events) : events[f] \in EventType
  BY Domains DEF IInv, Events, Types
<1>2. /\ events' = [events EXCEPT ![e] = v]
      /\ UNCHANGED <<device, streams, items, done, owed, cover, call>>
  BY <1>1 DEF EventDestroy
<1>3. v \in EventType /\ v.last = events[e].last /\ v.device = events[e].device
  BY <1>1 DEF EventType
<1> HIDE DEF v
<1>4. /\ events' \in Seq(EventType) /\ Len(events') = Len(events)
      /\ \A f \in 1 .. Len(events) : events'[f] = IF f = e THEN v ELSE events[f]
  <2>1. /\ [events EXCEPT ![e] = v] \in Seq(EventType)
        /\ Len([events EXCEPT ![e] = v]) = Len(events)
        /\ \A f \in 1 .. Len(events) : [events EXCEPT ![e] = v][f] = IF f = e THEN v ELSE events[f]
    BY <1>1, <1>3, ExceptSeq
  <2> QED  BY <1>2, <2>1
<1>5. CoverComes'
  <2>1. ASSUME NEW f \in 1 .. Len(events) PROVE CoverOf(f)'
    <3>1. events'[f].last = events[f].last /\ events'[f].device = events[f].device /\ CoverOf(f)
      BY <1>3, <1>4 DEF IInv, CoverComes
    <3> QED  BY <1>2, <3>1 DEF CoverOf
  <2> QED  BY <1>4, <2>1 DEF CoverComes
<1>6. Types'
  BY <1>1, <1>2, <1>4 DEF Types
<1>7. Within' /\ BlockingComes' /\ OrderHolds' /\ OwedComes' /\ AfterComes'
  BY <1>2 DEF IInv, Within, BlockingComes, OrderHolds, OwedComes, AfterComes, BehindStream, Behind
<1>8. \A u \in Threads : PromiseOf(u)'
  BY <1>2 DEF IInv, PromiseOf, Behind
<1> QED  BY <1>5, <1>6, <1>7, <1>8 DEF IInv

LEMMA CreateStreamKeeps ==
    ASSUME IInv, NEW t \in Threads, NEW d \in Devices, NEW priority \in BOOLEAN,
           CreateStream(t, d, priority)
    PROVE  IInv'
<1> DEFINE v == [device |-> d, priority |-> priority, blocking |-> Blocking(priority), alive |-> TRUE]
<1>1. /\ streams' = Append(streams, v) /\ owed' = Append(owed, {}) /\ events = <<>>
      /\ UNCHANGED <<device, events, items, done, cover, call>>
  BY DEF CreateStream
<1>2. /\ v \in StreamType /\ v.blocking = ~v.priority /\ v.device = d /\ {} \in Ids /\ Types
  BY DEF IInv, StreamType, Blocking, Ids
<1> HIDE DEF v
<1> SUFFICES ASSUME NEW m, m = Len(streams) PROVE IInv'
  OBVIOUS
<1>3. /\ streams' \in Seq(StreamType) /\ Len(streams') = m + 1 /\ m \in Nat /\ streams'[m + 1] = v
      /\ \A s \in 1 .. m : streams'[s] = streams[s]
  BY <1>1, <1>2, AppendProperties, LenProperties DEF Types
<1>4. /\ owed' \in Seq(Ids) /\ Len(owed') = m + 1 /\ owed'[m + 1] = {}
      /\ \A s \in 1 .. m : owed'[s] = owed[s]
  <2>1. owed \in Seq(Ids) /\ Len(owed) = m
    BY <1>2 DEF Types
  <2> QED  BY <1>1, <1>2, <2>1, AppendProperties
<1>5. /\ \A s \in 1 .. m + 1 : s \in 1 .. m \/ s = m + 1
      /\ \A s \in 1 .. m : s \in 1 .. m + 1
  BY <1>3
<1>6. Types'
  BY <1>1, <1>2, <1>3, <1>4 DEF Types
<1>7. Within' /\ OrderHolds' /\ AfterComes'
  BY <1>1, <1>3, <1>5 DEF IInv, Within, OrderHolds, AfterComes, BehindStream, Behind
<1>8. BlockingComes'
  BY <1>2, <1>3, <1>5 DEF IInv, BlockingComes
<1>9. OwedComes'
  <2> SUFFICES ASSUME NEW s \in 1 .. m + 1, NEW k \in Nat, k \in owed'[s]
               PROVE  BehindStream(k, s, Len(items))'
    BY <1>3 DEF OwedComes
  <2>1. s \in 1 .. m /\ k \in owed[s]
    BY <1>4, <1>5
  <2>2. BehindStream(k, s, Len(items))
    BY <2>1 DEF IInv, OwedComes
  <2> QED  BY <1>1, <2>2 DEF BehindStream, Behind
<1>10. CoverComes'
  <2>1. Len(events') = 0
    BY <1>1, EmptySeq
  <2> QED  BY <2>1 DEF CoverComes
<1>11. \A u \in Threads : PromiseOf(u)'
  BY <1>1 DEF IInv, PromiseOf, Behind
<1> QED  BY <1>6, <1>7, <1>8, <1>9, <1>10, <1>11 DEF IInv

LEMMA DestroyStreamKeeps ==
    ASSUME IInv, NEW t \in Threads, NEW s \in Streams, DestroyStream(t, s)
    PROVE  IInv'
<1> DEFINE v == [streams[s] EXCEPT !.alive = FALSE]
<1>1. /\ s \in 1 .. Len(streams) /\ streams[s] \in StreamType /\ streams \in Seq(StreamType) /\ Types
  BY Domains DEF IInv, Streams, Types
<1>2. /\ streams' = [streams EXCEPT ![s] = v]
      /\ UNCHANGED <<device, events, items, done, owed, cover, call>>
  BY <1>1 DEF DestroyStream
<1>3. /\ v \in StreamType /\ v.device = streams[s].device
      /\ v.blocking = streams[s].blocking /\ v.priority = streams[s].priority
  BY <1>1 DEF StreamType
<1> HIDE DEF v
<1>4. /\ streams' \in Seq(StreamType) /\ Len(streams') = Len(streams)
      /\ \A u \in 1 .. Len(streams) : streams'[u] = IF u = s THEN v ELSE streams[u]
  <2>1. /\ [streams EXCEPT ![s] = v] \in Seq(StreamType)
        /\ Len([streams EXCEPT ![s] = v]) = Len(streams)
        /\ \A u \in 1 .. Len(streams) : [streams EXCEPT ![s] = v][u] = IF u = s THEN v ELSE streams[u]
    BY <1>1, <1>3, ExceptSeq
  <2> QED  BY <1>2, <2>1
<1>5. \A u \in 1 .. Len(streams) : /\ streams'[u].device = streams[u].device
                                   /\ streams'[u].blocking = streams[u].blocking
                                   /\ streams'[u].priority = streams[u].priority
  BY <1>3, <1>4
<1>6. CoverComes'
  <2>1. ASSUME NEW e \in 1 .. Len(events) PROVE CoverOf(e)'
    <3>1. CoverOf(e)
      BY DEF IInv, CoverComes
    <3>2. CASE events[e].last = 0
      BY <1>2, <3>1, <3>2 DEF CoverOf
    <3>3. CASE events[e].last # 0
      <4>1. items[events[e].last].stream \in 1 .. Len(streams)
        BY <3>1, <3>3 DEF CoverOf, IInv, Within
      <4> QED  BY <1>2, <1>5, <3>1, <3>3, <4>1 DEF CoverOf
    <3> QED  BY <3>2, <3>3
  <2> QED  BY <1>2, <2>1 DEF CoverComes
<1>7. Types'
  BY <1>1, <1>2, <1>4 DEF Types
<1>8. Within' /\ OrderHolds' /\ OwedComes' /\ AfterComes'
  BY <1>2, <1>4 DEF IInv, Within, OrderHolds, OwedComes, AfterComes, BehindStream, Behind
<1>9. BlockingComes' /\ \A u \in Threads : PromiseOf(u)'
  BY <1>2, <1>4, <1>5 DEF IInv, BlockingComes, PromiseOf, Behind
<1> QED  BY <1>6, <1>7, <1>8, <1>9 DEF IInv

-----------------------------------------------------------------------------
(* Waiting, and what the driver carries out.                                 *)

LEMMA WaitKeeps ==
    ASSUME IInv, NEW t \in Threads, NEW waits, NEW promise, Wait(t, waits, promise),
           waits \subseteq 1 .. Len(items), promise \in Ids,
           \A k \in promise : \E w \in waits : Behind(k, w)
    PROVE  IInv'
<1> DEFINE c == [in |-> TRUE, waits |-> waits \ done, promise |-> promise \ done]
<1>1. /\ call' = [call EXCEPT ![t] = c]
      /\ UNCHANGED <<device, made, items, done, owed, cover>>
  BY DEF Wait
<1>2. Len(items) \in Nat /\ Types
  BY Domains DEF IInv
<1>3. c \in CallType /\ c.waits = waits \ done /\ c.promise = promise \ done
  <2>1. waits \ done \in Ids /\ promise \ done \in Ids
    <3>1. \A k \in waits : k \in Nat
      BY <1>2
    <3>2. \A k \in promise : k \in Nat
      BY DEF Ids
    <3> QED  BY <3>1, <3>2 DEF Ids
  <2> QED  BY <2>1 DEF CallType
<1> HIDE DEF c
<1>4. call' \in [Threads -> CallType] /\ \A u \in Threads : call'[u] = IF u = t THEN c ELSE call[u]
  BY <1>1, <1>2, <1>3 DEF Types
<1>5. Types' /\ Within' /\ BlockingComes' /\ OrderHolds'
  BY <1>1, <1>4 DEF IInv, made, Types, Within, BlockingComes, OrderHolds
<1>6. OwedComes' /\ AfterComes'
  BY <1>1 DEF IInv, made, OwedComes, AfterComes, BehindStream, Behind
<1>7. CoverComes'
  BY <1>1 DEF IInv, made, CoverComes, CoverOf
<1>8. ASSUME NEW u \in Threads PROVE PromiseOf(u)'
  <2>1. CASE u = t
    <3>1. ASSUME NEW k \in promise \ done PROVE \E w \in waits \ done : Behind(k, w)
      <4>1. PICK w \in waits : Behind(k, w)
        OBVIOUS
      <4>2. w \notin done
        BY <3>1, <4>1 DEF IInv, OrderHolds, Behind
      <4> QED  BY <4>1, <4>2
    <3> QED  BY <1>1, <1>3, <1>4, <2>1, <3>1 DEF PromiseOf, Behind
  <2>2. CASE u # t
    BY <1>1, <1>4, <2>2 DEF IInv, PromiseOf, Behind
  <2> QED  BY <2>1, <2>2
<1> QED  BY <1>5, <1>6, <1>7, <1>8 DEF IInv

(* Every kernel of a stream is among its items.                              *)
LEMMA KernelsWithin ==
    ASSUME IInv, NEW S, NEW R, R \subseteq S
    PROVE  /\ UNION {OfStream(s) : s \in S} \subseteq 1 .. Len(items)
           /\ KernelsOf(R) \in Ids
           /\ \A k \in KernelsOf(R) : \E w \in UNION {OfStream(s) : s \in S} : Behind(k, w)
<1>1. Items = 1 .. Len(items) /\ Len(items) \in Nat
  BY Domains DEF IInv
<1>2. UNION {OfStream(s) : s \in S} \subseteq 1 .. Len(items)
  BY <1>1 DEF OfStream
<1>3. KernelsOf(R) \subseteq UNION {OfStream(s) : s \in S}
  BY DEF KernelsOf
<1> QED  BY <1>1, <1>2, <1>3 DEF Ids, Behind

LEMMA CallAndWaitKeeps ==
    ASSUME IInv, NEW t \in Threads, CallAndWait(t)
    PROVE  IInv'
<1>1. ASSUME NEW d \in Devices, SetDevice(t, d) PROVE IInv'
  BY <1>1, QuietKeeps DEF SetDevice, IInv, Types
<1>2. ASSUME NEW d \in Devices, SynchronizeDevice(t, d) PROVE IInv'
  BY <1>2, KernelsWithin, WaitKeeps DEF SynchronizeDevice, SyncedDevice
<1>3. ASSUME NEW s \in Streams, SynchronizeStream(t, s) PROVE IInv'
  <2>1. UNION {OfStream(u) : u \in {s}} = OfStream(s)
    OBVIOUS
  <2>2. /\ OfStream(s) \subseteq 1 .. Len(items) /\ KernelsOf({s}) \in Ids
        /\ \A k \in KernelsOf({s}) : \E w \in OfStream(s) : Behind(k, w)
    BY <2>1, KernelsWithin
  <2> QED  BY <1>3, <2>2, WaitKeeps DEF SynchronizeStream
<1>4. ASSUME NEW e \in Events, EventSynchronize(t, e) PROVE IInv'
  <2>1. e \in 1 .. Len(events) /\ cover[e] \in Ids /\ events[e] \in EventType
    BY Domains DEF IInv, Events
  <2>2. CoverOf(e)
    BY <2>1 DEF IInv, CoverComes
  <2>3. /\ {events[e].last} \ {0} \subseteq 1 .. Len(items)
        /\ \A k \in cover[e] : \E w \in {events[e].last} \ {0} : Behind(k, w)
    BY <2>2 DEF CoverOf, Behind
  <2>4. \/ Wait(t, {events[e].last} \ {0}, cover[e])
        \/ Wait(t, {}, {})
    BY <1>4 DEF EventSynchronize, StatusOf
  <2>5. CASE Wait(t, {events[e].last} \ {0}, cover[e])
    BY <2>1, <2>3, <2>5, WaitKeeps
  <2>6. CASE Wait(t, {}, {})
    BY <2>6, WaitKeeps DEF Ids
  <2> QED  BY <2>4, <2>5, <2>6
<1>5. CASE Memcpy(t)
  <2> DEFINE here == StreamsOn(device[t])
             S == {r \in here : streams[r].blocking}
             R == {s \in here : ~streams[s].priority}
  <2>1. R \subseteq S
    BY Domains DEF IInv, BlockingComes, StreamsOn
  <2>2. Wait(t, UNION {OfStream(s) : s \in S}, KernelsOf(R))
    BY <1>5 DEF Memcpy
  <2> HIDE DEF S, R
  <2> QED  BY <2>1, <2>2, KernelsWithin, WaitKeeps
<1>6. CASE Return(t)
  <2>1. /\ call' = [call EXCEPT ![t] = Idle]
        /\ UNCHANGED <<device, made, items, done, owed, cover>>
    BY <1>6 DEF Return
  <2>2. Idle \in CallType /\ Idle.waits = {} /\ Idle.promise = {}
    BY DEF Idle, CallType, Ids
  <2>3. Types' /\ Within' /\ BlockingComes' /\ OrderHolds'
    BY <2>1, <2>2 DEF IInv, made, Types, Within, BlockingComes, OrderHolds
  <2>4. OwedComes' /\ AfterComes'
    BY <2>1 DEF IInv, made, OwedComes, AfterComes, BehindStream, Behind
  <2>5. CoverComes'
    BY <2>1 DEF IInv, made, CoverComes, CoverOf
  <2>6. ASSUME NEW u \in Threads PROVE PromiseOf(u)'
    <3>1. call'[u] = IF u = t THEN Idle ELSE call[u]
      BY <2>1 DEF IInv, Types
    <3> QED  BY <2>1, <2>2, <3>1 DEF IInv, PromiseOf, Behind
  <2> QED  BY <2>3, <2>4, <2>5, <2>6 DEF IInv
<1> QED  BY <1>1, <1>2, <1>3, <1>4, <1>5, <1>6 DEF CallAndWait

LEMMA CarryOutKeeps ==
    ASSUME IInv, NEW i \in Items, CarryOut(i)
    PROVE  IInv'
<1>1. /\ done' = done \cup {i}
      /\ UNCHANGED <<device, made, items, owed, cover, call>>
      /\ Items = 1 .. Len(items) /\ Len(items) \in Nat /\ items[i] \in ItemType
  BY Domains DEF IInv, CarryOut
<1>2. items[i].after \subseteq done
  <2> SUFFICES ASSUME NEW k \in items[i].after PROVE k \in done
    OBVIOUS
  <2>1. \/ BehindStream(k, items[i].stream, i - 1)
        \/ items[i].kind = "wait" /\ items[i].record # 0 /\ k \in items[items[i].record].after
    BY <1>1 DEF IInv, AfterComes
  <2>2. CASE BehindStream(k, items[i].stream, i - 1)
    <3>1. PICK j \in 1 .. i - 1 : items[j].stream = items[i].stream /\ Behind(k, j)
      BY <2>2 DEF BehindStream
    <3>2. j \in OfStream(items[i].stream) /\ j < i
      BY <1>1, <3>1 DEF OfStream
    <3>3. j \in done
      BY <3>2 DEF CarryOut
    <3> QED  BY <3>1, <3>3 DEF Behind, IInv, OrderHolds
  <2>3. CASE items[i].kind = "wait" /\ items[i].record # 0 /\ k \in items[items[i].record].after
    BY <2>3 DEF CarryOut, IInv, OrderHolds
  <2> QED  BY <2>1, <2>2, <2>3
<1>3. OrderHolds'
  BY <1>1, <1>2 DEF IInv, OrderHolds
<1>4. Types' /\ Within' /\ BlockingComes'
  BY <1>1 DEF IInv, made, Types, Within, BlockingComes
<1>5. OwedComes' /\ AfterComes'
  BY <1>1 DEF IInv, made, OwedComes, AfterComes, BehindStream, Behind
<1>6. CoverComes' /\ \A t \in Threads : PromiseOf(t)'
  BY <1>1 DEF IInv, made, CoverComes, CoverOf, PromiseOf, Behind
<1> QED  BY <1>3, <1>4, <1>5, <1>6 DEF IInv

-----------------------------------------------------------------------------
LEMMA InitInvariant == Init => IInv
<1> SUFFICES ASSUME Init PROVE IInv
  OBVIOUS
<1>1. 0 \in Devices
  BY EventsAssumption DEF Devices
<1>2. Len(streams) = 0 /\ Len(events) = 0 /\ Len(items) = 0 /\ Len(owed) = 0 /\ Len(cover) = 0
  BY DEF Init
<1>3. streams \in Seq(StreamType) /\ events \in Seq(EventType) /\ items \in Seq(ItemType)
      /\ owed \in Seq(Ids) /\ cover \in Seq(Ids)
  BY EmptySeq DEF Init
<1>4. Idle \in CallType /\ Idle.waits = {} /\ Idle.promise = {}
  BY DEF Idle, CallType, Ids
<1>5. Types
  BY <1>1, <1>2, <1>3, <1>4 DEF Init, Types
<1>6. Within /\ OwedComes /\ AfterComes /\ CoverComes /\ BlockingComes
  BY <1>2 DEF Within, OwedComes, AfterComes, CoverComes, BlockingComes
<1>7. OrderHolds /\ \A t \in Threads : PromiseOf(t)
  BY <1>4 DEF Init, OrderHolds, PromiseOf
<1> QED  BY <1>5, <1>6, <1>7 DEF IInv

LEMMA StepInvariant == IInv /\ [Next]_vars => IInv'
<1> SUFFICES ASSUME IInv, [Next]_vars PROVE IInv'
  OBVIOUS
<1>1. ASSUME NEW t \in Threads, Call(t) PROVE IInv'
  <2>1. ASSUME NEW e \in Events, NEW f \in Events, EventElapsedTime(t, e, f) PROVE IInv'
    BY <2>1, QuietKeeps DEF EventElapsedTime, IInv, Types
  <2> QED  BY <1>1, <2>1, CreateStreamKeeps, DestroyStreamKeeps, LaunchKeeps, EventCreateKeeps,
              EventDestroyKeeps, EventRecordKeeps, StreamWaitEventKeeps DEF Call
<1>2. ASSUME NEW t \in Waiters, CallAndWait(t) PROVE IInv'
  BY <1>2, CallAndWaitKeeps, EventsAssumption
<1>3. CASE Driver
  BY <1>3, CarryOutKeeps DEF Driver
<1>4. CASE UNCHANGED vars
  BY <1>4, QuietKeeps DEF vars, IInv, Types
<1> QED  BY <1>1, <1>2, <1>3, <1>4 DEF Next

(* What the calls promise is tied to what the streams and events hold, in    *)
(* every reachable state.                                                    *)
THEOREM Invariance == Spec => []IInv
BY InitInvariant, StepInvariant, PTL DEF Spec

LEMMA Typed == IInv => TypeOK
<1> SUFFICES ASSUME IInv PROVE TypeOK
  OBVIOUS
<1>1. /\ device \in [Threads -> Devices]
      /\ \A s \in DOMAIN streams : streams[s].device \in Devices
      /\ done \subseteq Items
      /\ Len(owed) = Len(streams) /\ Len(cover) = Len(events)
  BY Domains DEF IInv, Types, StreamType, OrderHolds
<1>2. \A e \in DOMAIN events :
         events[e].last # 0 => items[events[e].last].kind = "record"
                               /\ streams[items[events[e].last].stream].device = events[e].device
  BY Domains DEF IInv, CoverComes, CoverOf
<1>3. \A i \in Items : items[i].record \in 0 .. i - 1
  BY Domains DEF IInv, Within
<1> QED  BY <1>1, <1>2, <1>3 DEF TypeOK

(* Nothing is carried out before the kernels that are put before it.         *)
THEOREM OrderIsKept == Spec => []OrderKept
<1>1. IInv => OrderKept
  BY Typed DEF IInv, OrderHolds, OrderKept
<1> QED  BY Invariance, <1>1, PTL

(* What a thread is told is done is done.                                    *)
THEOREM WhatIsToldIsDone == Spec => []ToldIsDone
<1>1. IInv => ToldIsDone
  <2> SUFFICES ASSUME IInv PROVE ToldIsDone
    OBVIOUS
  <2>1. ASSUME NEW e \in Events, NEW answer \in Answers(e), StatusOf(answer) = "kSuccess"
        PROVE  cover[e] \subseteq done
    <3>1. CoverOf(e) /\ events[e].last \in done \cup {0}
      BY <2>1, Domains DEF IInv, CoverComes, Events, Answers, StatusOf, Complete
    <3> QED  BY <3>1 DEF CoverOf, IInv, OrderHolds
  <2>2. ASSUME NEW t \in Threads, call[t].waits \subseteq done PROVE call[t].promise \subseteq done
    BY <2>2 DEF IInv, PromiseOf, Behind, OrderHolds
  <2> QED  BY <2>1, <2>2 DEF ToldIsDone
<1> QED  BY Invariance, <1>1, PTL
================================================================================
