----------------------------- MODULE MacaCopyProofs -----------------------------
(***************************************************************************)
(* Proofs about MacaCopy, for any threads, devices, buffers, parts and     *)
(* metadata, with and without the workarounds, whatever the driver refuses.*)
(*                                                                         *)
(* As long as no unset pointer has met a buffer, a buffer that a call      *)
(* holds is used by no stream but that of the call's device, and by no     *)
(* other call: so what the streams have still to write there is decided,   *)
(* for every kernel that waits, by the works before it in its own stream   *)
(* (Holds).  What a call that checks is promised, and that the pool loses  *)
(* nothing, does not depend on that.                                       *)
(***************************************************************************)
EXTENDS MacaCopy, SequenceTheorems, TLAPS

(* What follows each step of a call.                                         *)
LEMMA MemcpySteps ==
    /\ MemcpyAsyncBody("idle") = IF MultithreadWorkarounds THEN "lock" ELSE "copyBegin"
    /\ MemcpyAsyncBody("lock") = "copyBegin"
    /\ MemcpyAsyncBody("copyBegin") = "copyEnd"
    /\ MemcpyAsyncBody("copyEnd") = IF MultithreadWorkarounds THEN "unlock" ELSE "idle"
    /\ MemcpyAsyncBody("unlock") = "idle"
BY DEF MemcpyAsyncBody

LEMMA KernelSteps ==
    ASSUME NEW more, NEW next, NEW last
    PROVE  /\ KernelBody("mcMallocAsync", more, next, last) = "copyBegin"
           /\ KernelBody("copyBegin", more, next, last) = "copyEnd"
           /\ KernelBody("copyEnd", more, next, last) =
                 IF more THEN "copyBegin" ELSE IF next THEN "mcMallocAsync" ELSE "launch"
           /\ KernelBody("launch", more, next, last) = "mcFreeAsync"
           /\ KernelBody("mcFreeAsync", more, next, last) = IF last THEN "idle" ELSE "mcFreeAsync"
BY DEF KernelBody

-----------------------------------------------------------------------------
(* The invariant.                                                            *)

Steps == {"idle", "lock", "copyBegin", "copyEnd", "unlock", "mcMallocAsync", "launch", "mcFreeAsync"}

Places == Pointers \X Parts

Types ==
    /\ g_memcpy_mutex \in Threads \cup {NoThread}
    /\ pc \in [Threads -> Steps]
    /\ call \in [Threads -> CallType \cup {NoCall}]
    /\ scratch \in [Threads -> Seq(Pointers)]
    /\ part \in [Threads -> Nat]
    /\ cells \in [Threads -> SUBSET Places]
    /\ refused \in [Threads -> SUBSET Places]
    /\ pool \subseteq Buffers
    /\ contents \in [Cells -> Metas \cup {NoMeta}]
    /\ queue \in [Devices -> Seq(Work)]
    /\ strayed \in BOOLEAN
    /\ status \in {"running", "aborted"}

Ptrs(s) == {s[i] : i \in 1 .. Len(s)}

(* Where a thread can be: in no call or in MemcpyAsync, or in a kernel's.    *)
Outside(t) ==
    /\ \/ pc[t] = "idle"
       \/ /\ pc[t] \in {"lock", "copyBegin", "copyEnd", "unlock"}
          /\ call[t] \in CallType /\ call[t].bufs = 0
    /\ scratch[t] = <<>> /\ cells[t] = {} /\ refused[t] = {}

Inside(t) ==
    /\ pc[t] \in {"mcMallocAsync", "copyBegin", "copyEnd", "launch", "mcFreeAsync"}
    /\ call[t] \in CallType /\ call[t].bufs \in {1, 2}
    /\ call[t].meta \in Metas /\ call[t].parts \in Parts
    /\ IF pc[t] = "mcMallocAsync" THEN Len(scratch[t]) < call[t].bufs
       ELSE Len(scratch[t]) \in 1 .. call[t].bufs
    /\ pc[t] = "copyBegin" => part[t] < call[t].parts
    /\ pc[t] = "mcFreeAsync" => cells[t] = {}
    /\ cells[t] \subseteq Ptrs(scratch[t]) \X Parts /\ refused[t] \subseteq cells[t]
    /\ call[t].checked => refused[t] = {} /\ Ptrs(scratch[t]) \subseteq Buffers
    /\ ~ call[t].checked => call[t].bufs = 1

Place(t) ==
    /\ Outside(t) \/ Inside(t)
    /\ pc[t] \in {"lock", "unlock"} => MultithreadWorkarounds
    /\ g_memcpy_mutex = t <=> /\ MultithreadWorkarounds /\ ~ InKernel(t)
                              /\ pc[t] \in {"copyBegin", "copyEnd", "unlock"}

(* What holds even when pointers have strayed.                               *)
PoolCovered == pool \subseteq UNION {Ptrs(scratch[t]) : t \in Threads}

KernelsChecked ==
    \A d \in Devices : \A i \in 1 .. Len(queue[d]) :
        queue[d][i].op = "kernel" /\ queue[d][i].checked => queue[d][i].refused = {}

(* The buffers that a call holds, and the parts that it has uploaded.        *)
Held(t) == Ptrs(scratch[t]) \cap Buffers
Filled(t) == cells[t] \ refused[t]

Distinct(t) == \A i, j \in 1 .. Len(scratch[t]) : i # j => scratch[t][i] # scratch[t][j]

(* A stream has work that uses a buffer.                                     *)
QueueUses(d, b) == \E i \in 1 .. Len(queue[d]) : Uses(queue[d][i], b)

(* After the first n works of stream d, part c holds m.                      *)
Holds(d, c, n, m) ==
    \/ contents[c] = m /\ \A i \in 1 .. n : ~Writes(queue[d][i], c)
    \/ \E j \in 1 .. n : /\ Writes(queue[d][j], c) /\ queue[d][j].meta = m
                         /\ \A i \in j + 1 .. n : ~Writes(queue[d][i], c)

PoolHeld ==
    /\ pool = UNION {Held(t) : t \in Threads}
    /\ \A t, u \in Threads : t # u => Held(t) \cap Held(u) = {}
    /\ \A t \in Threads : Distinct(t)

Alone ==
    /\ \A t \in Threads, b \in Buffers, e \in Devices :
          b \in Held(t) /\ QueueUses(e, b) => e = call[t].dev
    /\ \A b \in Buffers, d, e \in Devices : QueueUses(d, b) /\ QueueUses(e, b) => d = e

KernelsHold ==
    \A d \in Devices, i \in Nat, c \in Places :
        i \in 1 .. Len(queue[d]) /\ queue[d][i].op = "kernel"
        /\ c \in queue[d][i].cells /\ c \notin queue[d][i].refused =>
            c \in Cells /\ Holds(d, c, i - 1, queue[d][i].meta)

CallsHold ==
    \A t \in Threads : \A c \in Filled(t) :
        c \in Cells /\ c[1] \in Held(t) /\ Holds(call[t].dev, c, Len(queue[call[t].dev]), call[t].meta)

Core == PoolHeld /\ Alone /\ KernelsHold /\ CallsHold

IInv ==
    /\ Types
    /\ \A t \in Threads : Place(t)
    /\ PoolCovered /\ KernelsChecked
    /\ strayed \/ Core

-----------------------------------------------------------------------------
(* Sequences of pointers.                                                    *)

LEMMA PtrsAppend ==
    ASSUME NEW s \in Seq(Pointers), NEW b \in Pointers
    PROVE  /\ Append(s, b) \in Seq(Pointers) /\ Len(Append(s, b)) = Len(s) + 1
           /\ Ptrs(Append(s, b)) = Ptrs(s) \cup {b}
           /\ \A i \in 1 .. Len(s) : Append(s, b)[i] = s[i]
           /\ Append(s, b)[Len(s) + 1] = b
<1>1. /\ Append(s, b) \in Seq(Pointers) /\ Len(Append(s, b)) = Len(s) + 1 /\ Len(s) \in Nat
      /\ \A i \in 1 .. Len(s) : Append(s, b)[i] = s[i]
      /\ Append(s, b)[Len(s) + 1] = b
  BY AppendProperties
<1>2. \A i : i \in 1 .. Len(s) + 1 <=> i \in 1 .. Len(s) \/ i = Len(s) + 1
  BY <1>1
<1>3. Ptrs(Append(s, b)) = Ptrs(s) \cup {b}
  BY <1>1, <1>2 DEF Ptrs
<1> QED  BY <1>1, <1>3

LEMMA PtrsTail ==
    ASSUME NEW s \in Seq(Pointers), Len(s) >= 1
    PROVE  /\ Head(s) = s[1] /\ Head(s) \in Pointers /\ Tail(s) \in Seq(Pointers)
           /\ Len(Tail(s)) = Len(s) - 1
           /\ Ptrs(s) = {Head(s)} \cup Ptrs(Tail(s))
           /\ \A i \in 1 .. Len(s) - 1 : i + 1 \in 1 .. Len(s) /\ Tail(s)[i] = s[i + 1]
<1>1. s # <<>> /\ Len(s) \in Nat
  BY EmptySeq
<1>2. /\ Head(s) = s[1] /\ Tail(s) \in Seq(Pointers) /\ Len(Tail(s)) = Len(s) - 1
      /\ \A i \in 1 .. Len(Tail(s)) : Tail(s)[i] = s[i + 1]
  BY <1>1, HeadTailProperties
<1>3. s[1] \in Pointers
  BY <1>1, ElementOfSeq
<1>4. \A i \in 1 .. Len(s) : i = 1 \/ (i - 1 \in 1 .. Len(Tail(s)) /\ (i - 1) + 1 = i)
  BY <1>1, <1>2
<1>5. \A i \in 1 .. Len(Tail(s)) : i + 1 \in 1 .. Len(s)
  BY <1>1, <1>2
<1>6. Ptrs(s) = {Head(s)} \cup Ptrs(Tail(s))
  <2>1. ASSUME NEW x \in Ptrs(s) PROVE x \in {Head(s)} \cup Ptrs(Tail(s))
    <3>1. PICK i \in 1 .. Len(s) : x = s[i]
      BY DEF Ptrs
    <3>2. CASE i = 1
      BY <1>2, <3>1, <3>2
    <3>3. CASE i # 1
      <4>1. i - 1 \in 1 .. Len(Tail(s)) /\ Tail(s)[i - 1] = s[(i - 1) + 1] /\ (i - 1) + 1 = i
        BY <1>2, <1>4, <3>3
      <4> QED  BY <3>1, <4>1 DEF Ptrs
    <3> QED  BY <3>2, <3>3
  <2>2. ASSUME NEW x \in {Head(s)} \cup Ptrs(Tail(s)) PROVE x \in Ptrs(s)
    <3>1. 1 \in 1 .. Len(s)
      BY <1>1
    <3> QED  BY <1>2, <1>5, <2>2, <3>1 DEF Ptrs
  <2> QED  BY <2>1, <2>2
<1> QED  BY <1>2, <1>3, <1>5, <1>6

LEMMA PtrsFacts ==
    ASSUME NEW s \in Seq(Pointers)
    PROVE  /\ Len(s) \in Nat /\ Ptrs(s) \subseteq Pointers /\ Ptrs(<<>>) = {}
           /\ Len(s) >= 1 => s[Len(s)] \in Ptrs(s)
<1>1. Len(s) \in Nat /\ \A i \in 1 .. Len(s) : s[i] \in Pointers
  BY LenProperties, ElementOfSeq
<1>2. 1 .. Len(<<>>) = {}
  OBVIOUS
<1>3. Len(s) >= 1 => Len(s) \in 1 .. Len(s)
  BY <1>1
<1> QED  BY <1>1, <1>2, <1>3 DEF Ptrs

-----------------------------------------------------------------------------
(* Streams.                                                                  *)

LEMMA QueueFacts ==
    ASSUME Types, NEW d \in Devices
    PROVE  /\ queue[d] \in Seq(Work) /\ Len(queue[d]) \in Nat /\ DOMAIN queue[d] = 1 .. Len(queue[d])
           /\ \A i \in 1 .. Len(queue[d]) : queue[d][i] \in Work
<1>1. queue[d] \in Seq(Work)
  BY DEF Types
<1> QED  BY <1>1, LenProperties, ElementOfSeq

Appended(d, w) == queue' = [queue EXCEPT ![d] = Append(queue[d], w)] /\ contents' = contents

LEMMA AppendedFacts ==
    ASSUME Types, NEW d \in Devices, NEW w \in Work, Appended(d, w)
    PROVE  /\ queue' \in [Devices -> Seq(Work)]
           /\ Len(queue[d]) \in Nat /\ Len(queue'[d]) = Len(queue[d]) + 1
           /\ queue'[d][Len(queue[d]) + 1] = w
           /\ \A i \in 1 .. Len(queue[d]) : queue'[d][i] = queue[d][i]
           /\ \A e \in Devices \ {d} : queue'[e] = queue[e]
<1>1. queue[d] \in Seq(Work) /\ Len(queue[d]) \in Nat
  BY QueueFacts
<1>2. /\ Append(queue[d], w) \in Seq(Work) /\ Len(Append(queue[d], w)) = Len(queue[d]) + 1
      /\ \A i \in 1 .. Len(queue[d]) : Append(queue[d], w)[i] = queue[d][i]
      /\ Append(queue[d], w)[Len(queue[d]) + 1] = w
  BY <1>1, AppendProperties
<1>3. /\ queue' \in [Devices -> Seq(Work)] /\ queue'[d] = Append(queue[d], w)
      /\ \A e \in Devices \ {d} : queue'[e] = queue[e]
  BY <1>2 DEF Types, Appended
<1> QED  BY <1>1, <1>2, <1>3

(* What a part will hold does not change when work is added behind, unless   *)
(* that work writes to it.                                                   *)
LEMMA AppendHolds ==
    ASSUME Types, NEW d \in Devices, NEW w \in Work, Appended(d, w), NEW c \in Cells, NEW m
    PROVE  /\ \A e \in Devices, n \in Nat :
                 n <= Len(queue[e]) /\ Holds(e, c, n, m) => Holds(e, c, n, m)'
           /\ ~Writes(w, c) /\ Holds(d, c, Len(queue[d]), m) => Holds(d, c, Len(queue[d]), m)'
           /\ Writes(w, c) /\ w.meta = m => Holds(d, c, Len(queue[d]), m)'
<1> SUFFICES ASSUME NEW L, L = Len(queue[d])
             PROVE  /\ \A e \in Devices, n \in Nat :
                          n <= Len(queue[e]) /\ Holds(e, c, n, m) => Holds(e, c, n, m)'
                    /\ ~Writes(w, c) /\ Holds(d, c, L, m) => Holds(d, c, Len(queue[d]), m)'
                    /\ Writes(w, c) /\ w.meta = m => Holds(d, c, Len(queue[d]), m)'
  OBVIOUS
<1>1. /\ L \in Nat /\ Len(queue'[d]) = L + 1 /\ queue'[d][L + 1] = w
      /\ \A i \in 1 .. L : queue'[d][i] = queue[d][i]
      /\ \A e \in Devices \ {d} : queue'[e] = queue[e]
      /\ contents' = contents
  BY AppendedFacts DEF Appended
<1>2. ASSUME NEW n \in Nat, n <= L, Holds(d, c, n, m) PROVE Holds(d, c, n, m)'
  <2>1. \A i \in 1 .. n : queue'[d][i] = queue[d][i]
    BY <1>1, <1>2
  <2>2. CASE contents[c] = m /\ \A i \in 1 .. n : ~Writes(queue[d][i], c)
    BY <1>1, <2>1, <2>2 DEF Holds, Writes
  <2>3. ASSUME NEW j \in 1 .. n, Writes(queue[d][j], c), queue[d][j].meta = m,
               \A i \in j + 1 .. n : ~Writes(queue[d][i], c)
        PROVE  Holds(d, c, n, m)'
    <3>1. \A i \in j + 1 .. n : i \in 1 .. n
      BY <1>2
    <3> QED  BY <2>1, <2>3, <3>1 DEF Holds, Writes
  <2> QED  BY <1>2, <2>2, <2>3 DEF Holds
<1>3. ASSUME NEW e \in Devices, NEW n \in Nat, n <= Len(queue[e]), Holds(e, c, n, m)
      PROVE  Holds(e, c, n, m)'
  <2>1. CASE e = d
    BY <1>2, <1>3, <2>1
  <2>2. CASE e # d
    BY <1>1, <1>3, <2>2 DEF Holds, Writes
  <2> QED  BY <2>1, <2>2
<1>4. ASSUME ~Writes(w, c), Holds(d, c, L, m) PROVE Holds(d, c, Len(queue[d]), m)'
  <2>1. /\ \A i \in 1 .. L + 1 : i \in 1 .. L \/ i = L + 1
        /\ \A j \in 1 .. L : j \in 1 .. L + 1
    BY <1>1
  <2>2. CASE contents[c] = m /\ \A i \in 1 .. L : ~Writes(queue[d][i], c)
    <3>1. \A i \in 1 .. L + 1 : ~Writes(queue'[d][i], c)
      BY <1>1, <1>4, <2>1, <2>2
    <3> QED  BY <1>1, <2>2, <3>1 DEF Holds, Writes
  <2>3. ASSUME NEW j \in 1 .. L, Writes(queue[d][j], c), queue[d][j].meta = m,
               \A i \in j + 1 .. L : ~Writes(queue[d][i], c)
        PROVE  Holds(d, c, Len(queue[d]), m)'
    <3>1. \A i \in j + 1 .. L + 1 : i \in j + 1 .. L \/ i = L + 1
      BY <1>1
    <3>2. \A i \in j + 1 .. L : i \in 1 .. L
      BY <1>1
    <3>3. \A i \in j + 1 .. L + 1 : ~Writes(queue'[d][i], c)
      BY <1>1, <1>4, <2>3, <3>1, <3>2
    <3>4. j \in 1 .. L + 1 /\ queue'[d][j] = queue[d][j]
      BY <1>1, <2>1
    <3> QED  BY <1>1, <2>3, <3>3, <3>4 DEF Holds, Writes
  <2> QED  BY <1>4, <2>2, <2>3 DEF Holds
<1>5. ASSUME Writes(w, c), w.meta = m PROVE Holds(d, c, Len(queue[d]), m)'
  <2>1. L + 1 \in 1 .. L + 1 /\ (L + 1) + 1 .. L + 1 = {}
    BY <1>1
  <2> QED  BY <1>1, <1>5, <2>1 DEF Holds, Writes
<1> QED  BY <1>3, <1>4, <1>5

-----------------------------------------------------------------------------
(* A stream takes the next of its works.                                     *)

Popped(d) ==
    /\ queue[d] # <<>>
    /\ queue' = [queue EXCEPT ![d] = Tail(queue[d])]
    /\ contents' = [c \in Cells |-> IF Writes(queue[d][1], c) THEN queue[d][1].meta ELSE contents[c]]

LEMMA PoppedFacts ==
    ASSUME Types, NEW d \in Devices, Popped(d)
    PROVE  /\ queue' \in [Devices -> Seq(Work)]
           /\ Len(queue[d]) \in Nat \ {0} /\ Len(queue'[d]) = Len(queue[d]) - 1
           /\ \A i \in 1 .. Len(queue[d]) - 1 : queue'[d][i] = queue[d][i + 1]
           /\ \A e \in Devices \ {d} : queue'[e] = queue[e]
           /\ contents' \in [Cells -> Metas \cup {NoMeta}]
<1>1. queue[d] \in Seq(Work) /\ queue[d] # <<>> /\ Len(queue[d]) \in Nat
  BY QueueFacts DEF Popped
<1>2. Len(queue[d]) \in Nat \ {0}
  BY <1>1, EmptySeq
<1>3. /\ Tail(queue[d]) \in Seq(Work) /\ Len(Tail(queue[d])) = Len(queue[d]) - 1
      /\ \A i \in 1 .. Len(queue[d]) - 1 : Tail(queue[d])[i] = queue[d][i + 1]
  BY <1>1, HeadTailProperties
<1>4. /\ queue' \in [Devices -> Seq(Work)] /\ queue'[d] = Tail(queue[d])
      /\ \A e \in Devices \ {d} : queue'[e] = queue[e]
  BY <1>3 DEF Types, Popped
<1>5. queue[d][1] \in Work
  BY <1>2, QueueFacts
<1>6. contents' \in [Cells -> Metas \cup {NoMeta}]
  BY <1>5 DEF Types, Popped, Work
<1> QED  BY <1>2, <1>3, <1>4, <1>6

LEMMA PopHolds ==
    ASSUME Types, NEW d \in Devices, Popped(d), NEW c \in Cells, NEW m, NEW n \in Nat,
           n >= 1, n <= Len(queue[d]), Holds(d, c, n, m)
    PROVE  Holds(d, c, n - 1, m)'
<1>1. /\ Len(queue[d]) \in Nat \ {0}
      /\ \A i \in 1 .. n - 1 : queue'[d][i] = queue[d][i + 1]
      /\ contents'[c] = IF Writes(queue[d][1], c) THEN queue[d][1].meta ELSE contents[c]
  <2>1. Len(queue[d]) \in Nat \ {0} /\ \A i \in 1 .. Len(queue[d]) - 1 : queue'[d][i] = queue[d][i + 1]
    BY PoppedFacts
  <2>2. \A i \in 1 .. n - 1 : i \in 1 .. Len(queue[d]) - 1
    BY <2>1
  <2>3. contents'[c] = IF Writes(queue[d][1], c) THEN queue[d][1].meta ELSE contents[c]
    BY DEF Popped
  <2> QED  BY <2>1, <2>2, <2>3
<1>2. n - 1 \in Nat /\ 1 \in 1 .. n /\ \A i \in 1 .. n - 1 : i + 1 \in 1 .. n
  OBVIOUS
<1>3. CASE contents[c] = m /\ \A i \in 1 .. n : ~Writes(queue[d][i], c)
  <2>1. contents'[c] = m
    BY <1>1, <1>2, <1>3
  <2>2. \A i \in 1 .. n - 1 : ~Writes(queue[d][i + 1], c)
    BY <1>2, <1>3
  <2> QED  BY <1>1, <2>1, <2>2 DEF Holds, Writes
<1>4. ASSUME NEW j \in 1 .. n, Writes(queue[d][j], c), queue[d][j].meta = m,
             \A i \in j + 1 .. n : ~Writes(queue[d][i], c)
      PROVE  Holds(d, c, n - 1, m)'
  <2>1. \A i \in j .. n - 1 : ~Writes(queue[d][i + 1], c)
    <3>1. \A i \in j .. n - 1 : i + 1 \in j + 1 .. n
      OBVIOUS
    <3> QED  BY <1>4, <3>1
  <2>2. CASE j = 1
    <3>1. contents'[c] = m /\ \A i \in 1 .. n - 1 : ~Writes(queue[d][i + 1], c)
      BY <1>1, <1>4, <2>1, <2>2
    <3> QED  BY <1>1, <3>1 DEF Holds, Writes
  <2>3. CASE j # 1
    <3> SUFFICES ASSUME NEW k \in 1 .. n - 1, j = k + 1 PROVE Holds(d, c, n - 1, m)'
      <4>1. j - 1 \in 1 .. n - 1 /\ j = (j - 1) + 1
        BY <2>3
      <4> QED  BY <4>1
    <3>1. queue'[d][k] = queue[d][j]
      BY <1>1
    <3>2. \A i \in k + 1 .. n - 1 : i \in 1 .. n - 1 /\ ~Writes(queue[d][i + 1], c)
      BY <2>1
    <3>3. \A i \in k + 1 .. n - 1 : queue'[d][i] = queue[d][i + 1]
      BY <1>1, <3>2
    <3>4. \A i \in k + 1 .. n - 1 : ~Writes(queue'[d][i], c)
      BY <3>2, <3>3
    <3>5. Writes(queue'[d][k], c) /\ queue'[d][k].meta = m
      BY <1>4, <3>1
    <3> QED  BY <3>4, <3>5 DEF Holds, Writes
  <2> QED  BY <2>2, <2>3
<1> QED  BY <1>3, <1>4 DEF Holds

LEMMA PopChecked ==
    ASSUME Types, KernelsChecked, NEW d \in Devices, Popped(d)
    PROVE  KernelsChecked'
<1>1. /\ Len(queue[d]) \in Nat \ {0} /\ Len(queue'[d]) = Len(queue[d]) - 1
      /\ \A i \in 1 .. Len(queue[d]) - 1 : queue'[d][i] = queue[d][i + 1]
      /\ \A e \in Devices \ {d} : queue'[e] = queue[e]
  BY PoppedFacts
<1> SUFFICES ASSUME NEW e \in Devices, NEW i \in 1 .. Len(queue'[e]), queue'[e][i].op = "kernel",
                    queue'[e][i].checked
             PROVE  queue'[e][i].refused = {}
  BY DEF KernelsChecked
<1>2. CASE e = d
  <2>1. i + 1 \in 1 .. Len(queue[d]) /\ queue'[d][i] = queue[d][i + 1]
    BY <1>1, <1>2
  <2> QED  BY <1>2, <2>1 DEF KernelsChecked
<1>3. CASE e # d
  BY <1>1, <1>3 DEF KernelsChecked
<1> QED  BY <1>2, <1>3

(* A work that writes to a part uses its buffer.                             *)
LEMMA WritesUses == ASSUME NEW w, NEW c, Writes(w, c) PROVE Uses(w, c[1])
BY DEF Writes, Uses

(* The invariant about buffers and streams survives it.                      *)
LEMMA PopKeeps ==
    ASSUME Types, Core, NEW d \in Devices, Popped(d), UNCHANGED <<call, scratch, cells, refused, pool>>,
           \A t \in Threads : Filled(t) # {} => call[t] \in CallType
    PROVE  Core'
<1>1. /\ Len(queue[d]) \in Nat \ {0} /\ Len(queue'[d]) = Len(queue[d]) - 1
      /\ \A i \in 1 .. Len(queue[d]) - 1 : queue'[d][i] = queue[d][i + 1]
      /\ \A e \in Devices \ {d} : queue'[e] = queue[e]
  BY PoppedFacts
<1>2. \A t \in Threads : Held(t)' = Held(t) /\ Filled(t)' = Filled(t) /\ Distinct(t)' = Distinct(t)
  BY DEF Held, Filled, Distinct
<1>3. PoolHeld'
  BY <1>2 DEF Core, PoolHeld
<1>4. ASSUME NEW e \in Devices, NEW b, QueueUses(e, b)' PROVE QueueUses(e, b)
  <2>1. CASE e = d
    <3>1. PICK i \in 1 .. Len(queue[d]) - 1 : Uses(queue'[d][i], b)
      BY <1>1, <1>4, <2>1 DEF QueueUses, Uses
    <3>2. i + 1 \in 1 .. Len(queue[d]) /\ Uses(queue[d][i + 1], b)
      BY <1>1, <3>1
    <3> QED  BY <2>1, <3>2 DEF QueueUses
  <2>2. CASE e # d
    BY <1>1, <1>4, <2>2 DEF QueueUses, Uses
  <2> QED  BY <2>1, <2>2
<1>5. Alone'
  BY <1>2, <1>4 DEF Core, Alone
<1>6. ASSUME NEW e \in Devices, e # d, NEW c \in Cells, ~QueueUses(d, c[1]),
             NEW n \in Nat, NEW m, Holds(e, c, n, m)
      PROVE  Holds(e, c, n, m)'
  <2>2. ~Writes(queue[d][1], c)
    BY <1>1, <1>6, WritesUses DEF QueueUses
  <2>3. contents'[c] = contents[c] /\ queue'[e] = queue[e]
    BY <1>1, <1>6, <2>2 DEF Popped
  <2> QED  BY <1>6, <2>3 DEF Holds, Writes
<1>7. ASSUME NEW e \in Devices, NEW i \in Nat, NEW c \in Places, i \in 1 .. Len(queue'[e]),
             queue'[e][i].op = "kernel", c \in queue'[e][i].cells, c \notin queue'[e][i].refused
      PROVE  c \in Cells /\ \E m : m = queue'[e][i].meta /\ Holds(e, c, i - 1, m)'
  <2>1. CASE e = d
    <3>1. i + 1 \in 1 .. Len(queue[d]) /\ queue'[d][i] = queue[d][i + 1] /\ (i + 1) - 1 = i
      BY <1>1, <1>7, <2>1
    <3>2. c \in Cells /\ Holds(d, c, i, queue[d][i + 1].meta)
      BY <1>7, <2>1, <3>1 DEF Core, KernelsHold
    <3> SUFFICES ASSUME NEW m, m = queue[d][i + 1].meta PROVE Holds(d, c, i - 1, m)'
      BY <2>1, <3>1, <3>2
    <3>3. Holds(d, c, i, m) /\ i >= 1 /\ i <= Len(queue[d])
      <4>1. i >= 1 /\ i <= Len(queue[d])
        BY <1>1, <1>7, <2>1
      <4> QED  BY <3>2, <4>1
    <3> QED  BY <3>2, <3>3, PopHolds
  <2>2. CASE e # d
    <3>1. queue'[e] = queue[e] /\ i \in 1 .. Len(queue[e])
      BY <1>1, <1>7, <2>2
    <3>2. c \in Cells /\ QueueUses(e, c[1]) /\ Holds(e, c, i - 1, queue[e][i].meta) /\ i - 1 \in Nat
      BY <1>7, <3>1 DEF Core, KernelsHold, QueueUses, Uses
    <3>3. ~QueueUses(d, c[1]) 
      BY <2>2, <3>2 DEF Core, Alone, Cells
    <3> SUFFICES ASSUME NEW m, m = queue[e][i].meta PROVE Holds(e, c, i - 1, m)'
      BY <3>1, <3>2
    <3>4. Holds(e, c, i - 1, m)
      BY <3>2
    <3> QED  BY <1>6, <2>2, <3>2, <3>3, <3>4
  <2> QED  BY <2>1, <2>2
<1>8. KernelsHold'
  <2> SUFFICES ASSUME NEW e \in Devices, NEW i \in Nat, NEW c \in Places, i \in 1 .. Len(queue'[e]),
                      queue'[e][i].op = "kernel", c \in queue'[e][i].cells, c \notin queue'[e][i].refused
               PROVE  c \in Cells /\ Holds(e, c, i - 1, queue[e][i].meta)'
    BY DEF KernelsHold
  <2>1. PICK m : m = queue'[e][i].meta /\ Holds(e, c, i - 1, m)'
    BY <1>7
  <2>2. c \in Cells
    BY <1>7
  <2> QED  BY <2>1, <2>2 DEF Holds
<1>9. ASSUME NEW t \in Threads, NEW c \in Filled(t)
      PROVE  c \in Cells /\ c[1] \in Held(t) /\ Holds(call[t].dev, c, Len(queue[call[t].dev]), call[t].meta)'
  <2> SUFFICES ASSUME NEW e, e = call[t].dev, NEW m, m = call[t].meta
               PROVE  /\ c \in Cells /\ c[1] \in Held(t)
                      /\ Holds(call[t].dev, c, Len(queue[call[t].dev]), call[t].meta)'
    OBVIOUS
  <2>1. /\ c \in Cells /\ c[1] \in Held(t) /\ Holds(e, c, Len(queue[e]), m)
        /\ e \in Devices /\ call'[t].dev = e /\ call'[t].meta = m
    BY <1>9 DEF Core, CallsHold, CallType
  <2>3. e # d => ~QueueUses(d, c[1])
    BY <2>1 DEF Core, Alone, Cells
  <2>4. CASE e = d
    <3> SUFFICES ASSUME NEW L, L = Len(queue[d])
                 PROVE  Holds(call[t].dev, c, Len(queue[call[t].dev]), call[t].meta)'
      BY <2>1
    <3>1. L \in Nat /\ L >= 1 /\ L <= Len(queue[d]) /\ Len(queue'[d]) = L - 1
      BY <1>1
    <3>2. Holds(d, c, L - 1, m)'
      BY <2>1, <2>4, <3>1, PopHolds
    <3> QED  BY <2>1, <2>4, <3>1, <3>2 DEF Holds, Writes
  <2>5. CASE e # d
    <3> SUFFICES ASSUME NEW L, L = Len(queue[e])
                 PROVE  Holds(call[t].dev, c, Len(queue[call[t].dev]), call[t].meta)'
      BY <2>1
    <3>1. L \in Nat /\ queue'[e] = queue[e]
      BY <1>1, <2>1, <2>5, QueueFacts
    <3>2. Holds(e, c, L, m)'
      BY <1>6, <2>1, <2>3, <2>5, <3>1
    <3>3. Len(queue'[call'[t].dev]) = L
      BY <2>1, <3>1
    <3> QED  BY <2>1, <3>2, <3>3 DEF Holds, Writes
  <2> QED  BY <2>4, <2>5
<1>10. CallsHold'
  BY <1>2, <1>9 DEF CallsHold
<1> QED  BY <1>3, <1>5, <1>8, <1>10 DEF Core

-----------------------------------------------------------------------------
(* Steps of the threads.                                                     *)

(* What the other threads have is left alone.                                *)
OthersKept(t) ==
    \A u \in Threads \ {t} : /\ pc'[u] = pc[u] /\ call'[u] = call[u] /\ scratch'[u] = scratch[u]
                             /\ part'[u] = part[u] /\ cells'[u] = cells[u] /\ refused'[u] = refused[u]
                             /\ g_memcpy_mutex' = u <=> g_memcpy_mutex = u

LEMMA OthersHold ==
    ASSUME NEW t \in Threads, OthersKept(t), NEW u \in Threads \ {t}
    PROVE  /\ Held(u)' = Held(u) /\ Filled(u)' = Filled(u) /\ Distinct(u)' = Distinct(u)
           /\ Place(u)' = Place(u) /\ call'[u] = call[u]
<1>1. /\ pc'[u] = pc[u] /\ call'[u] = call[u] /\ scratch'[u] = scratch[u]
      /\ part'[u] = part[u] /\ cells'[u] = cells[u] /\ refused'[u] = refused[u]
      /\ g_memcpy_mutex' = u <=> g_memcpy_mutex = u
  BY DEF OthersKept
<1>2. Held(u)' = Held(u) /\ Filled(u)' = Filled(u) /\ Distinct(u)' = Distinct(u)
  BY <1>1 DEF Held, Filled, Distinct
<1>3. Outside(u)' = Outside(u) /\ Inside(u)' = Inside(u)
  BY <1>1 DEF Outside, Inside
<1> QED  BY <1>1, <1>2, <1>3 DEF Place, InKernel

(* The pool, when one thread's scratch changes.                              *)
LEMMA CoveredKept ==
    ASSUME PoolCovered, NEW t \in Threads, OthersKept(t),
           pool' \subseteq (pool \ Ptrs(scratch[t])) \cup Ptrs(scratch'[t])
    PROVE  PoolCovered'
<1> SUFFICES ASSUME NEW b \in pool' PROVE \E u \in Threads : b \in Ptrs(scratch'[u])
  BY DEF PoolCovered
<1>1. CASE b \in Ptrs(scratch'[t])
  BY <1>1
<1>2. CASE b \in pool /\ b \notin Ptrs(scratch[t])
  <2>1. PICK u \in Threads : b \in Ptrs(scratch[u])
    BY <1>2 DEF PoolCovered
  <2>2. scratch'[u] = scratch[u]
    BY <1>2, <2>1 DEF OthersKept
  <2> QED  BY <2>1, <2>2
<1> QED  BY <1>1, <1>2

LEMMA PoolHeldKept ==
    ASSUME PoolHeld, NEW t \in Threads, OthersKept(t),
           (Held(t)' \ Held(t)) \cap pool = {}, pool' = (pool \ Held(t)) \cup Held(t)', Distinct(t)'
    PROVE  PoolHeld'
<1>1. ASSUME NEW u \in Threads \ {t} PROVE Held(t)' \cap Held(u) = {} /\ Held(u)' = Held(u) /\ Distinct(u)'
  BY <1>1, OthersHold DEF PoolHeld
<1>2. \A u, v \in Threads : u # v => Held(u)' \cap Held(v)' = {}
  BY <1>1 DEF PoolHeld
<1>3. pool' = UNION {Held(u)' : u \in Threads}
  <2>1. ASSUME NEW b \in pool' PROVE \E u \in Threads : b \in Held(u)'
    BY <1>1, <2>1 DEF PoolHeld
  <2>2. ASSUME NEW u \in Threads, NEW b \in Held(u)' PROVE b \in pool'
    <3>1. CASE u = t
      BY <2>2, <3>1
    <3>2. CASE u # t
      BY <1>1, <2>2, <3>2 DEF PoolHeld
    <3> QED  BY <3>1, <3>2
  <2> QED  BY <2>1, <2>2
<1> QED  BY <1>1, <1>2, <1>3 DEF PoolHeld

(* Steps that give the streams nothing: a thread may be given buffers that   *)
(* no call holds and no other stream uses.                                   *)
LEMMA ThreadKeeps ==
    ASSUME Types, Core, NEW t \in Threads, OthersKept(t), UNCHANGED <<queue, contents>>,
           (Held(t)' \ Held(t)) \cap pool = {}, pool' = (pool \ Held(t)) \cup Held(t)', Distinct(t)',
           \A b \in Buffers, e \in Devices :
               b \in Held(t)' /\ b \notin Held(t) /\ QueueUses(e, b) => e = call'[t].dev,
           Held(t)' # {} => call'[t] = call[t],
           Filled(t)' \subseteq Filled(t), \A c \in Filled(t)' : c[1] \in Held(t)'
    PROVE  Core'
<1>1. PoolHeld'
  BY PoolHeldKept DEF Core
<1>2. \A e \in Devices : \A b : QueueUses(e, b)' = QueueUses(e, b)
  BY DEF QueueUses, Uses
<1>3. Alone'
  <2>1. ASSUME NEW u \in Threads, NEW b \in Buffers, NEW e \in Devices, b \in Held(u)', QueueUses(e, b)
        PROVE  e = call'[u].dev
    <3>1. CASE u = t
      BY <2>1, <3>1 DEF Core, Alone
    <3>2. CASE u # t
      BY <2>1, <3>2, OthersHold DEF Core, Alone
    <3> QED  BY <3>1, <3>2
  <2> QED  BY <1>2, <2>1 DEF Core, Alone
<1>4. KernelsHold'
  <2>1. queue' = queue /\ contents' = contents
    OBVIOUS
  <2>2. KernelsHold
    BY DEF Core
  <2> SUFFICES ASSUME NEW d \in Devices, NEW i \in Nat, NEW c \in Places,
                      i \in 1 .. Len(queue[d]), queue[d][i].op = "kernel",
                      c \in queue[d][i].cells, c \notin queue[d][i].refused
               PROVE  c \in Cells /\ Holds(d, c, i - 1, queue[d][i].meta)
    BY <2>1 DEF KernelsHold, Holds
  <2> QED  BY <2>2 DEF KernelsHold
<1>5. CallsHold'
  <2> SUFFICES ASSUME NEW u \in Threads, NEW c \in Filled(u)'
               PROVE  c \in Filled(u) /\ c[1] \in Held(u)' /\ call'[u] = call[u]
    <3>1. queue' = queue /\ contents' = contents
      OBVIOUS
    <3> QED  BY <3>1 DEF Core, CallsHold, Holds
  <2>1. CASE u = t
    BY <2>1
  <2>2. CASE u # t
    BY <2>2, OthersHold DEF Core, CallsHold
  <2> QED  BY <2>1, <2>2
<1> QED  BY <1>1, <1>3, <1>4, <1>5 DEF Core

(* Steps that give the stream of the thread's device a work that uses only   *)
(* what the thread holds.                                                    *)
LEMMA SubmitKeeps ==
    ASSUME Types, Core, NEW t \in Threads, OthersKept(t), call[t] \in CallType,
           NEW w \in Work, Appended(call[t].dev, w),
           Held(t)' \subseteq Held(t), pool' = (pool \ Held(t)) \cup Held(t)', Distinct(t)',
           Held(t)' # {} => call'[t] = call[t],
           \A b \in Buffers : Uses(w, b) => b \in Held(t),
           w.op = "kernel" => w.meta = call[t].meta /\ w.cells \ w.refused \subseteq Filled(t),
           \A c \in Filled(t)' :
               /\ c \in Cells /\ c[1] \in Held(t)'
               /\ \/ c \in Filled(t) /\ ~Writes(w, c)
                  \/ Writes(w, c) /\ w.meta = call[t].meta
    PROVE  Core'
<1> SUFFICES ASSUME NEW d, d = call[t].dev, NEW L, L = Len(queue[d]) PROVE Core'
  OBVIOUS
<1>0. Appended(d, w) /\ d \in Devices
  BY DEF CallType
<1>1. /\ L \in Nat /\ Len(queue'[d]) = L + 1 /\ queue'[d][L + 1] = w
      /\ \A i \in 1 .. L : queue'[d][i] = queue[d][i]
      /\ \A e \in Devices \ {d} : queue'[e] = queue[e]
  BY <1>0, AppendedFacts
<1>2. PoolHeld'
  BY PoolHeldKept DEF Core
<1>3. ASSUME NEW e \in Devices, NEW b, QueueUses(e, b)' PROVE QueueUses(e, b) \/ (e = d /\ Uses(w, b))
  <2>1. CASE e = d
    <3>1. PICK i \in 1 .. L + 1 : Uses(queue'[d][i], b)
      BY <1>1, <1>3, <2>1 DEF QueueUses, Uses
    <3>2. i \in 1 .. L \/ i = L + 1
      BY <1>1
    <3> QED  BY <1>1, <2>1, <3>1, <3>2 DEF QueueUses
  <2>2. CASE e # d
    BY <1>1, <1>3, <2>2 DEF QueueUses, Uses
  <2> QED  BY <2>1, <2>2
<1>4. Alone'
  <2>1. ASSUME NEW u \in Threads, NEW b \in Buffers, NEW e \in Devices, b \in Held(u)', QueueUses(e, b)'
        PROVE  e = call'[u].dev
    <3>1. b \in Held(u) /\ call'[u] = call[u]
      <4>1. CASE u = t
        BY <2>1, <4>1
      <4>2. CASE u # t
        BY <2>1, <4>2, OthersHold
      <4> QED  BY <4>1, <4>2
    <3>2. CASE QueueUses(e, b)
      BY <3>1, <3>2 DEF Core, Alone
    <3>3. CASE e = d /\ Uses(w, b)
      BY <3>1, <3>3 DEF Core, PoolHeld
    <3> QED  BY <1>3, <2>1, <3>2, <3>3
  <2>2. ASSUME NEW b \in Buffers, NEW e \in Devices, NEW f \in Devices, QueueUses(e, b)', QueueUses(f, b)'
        PROVE  e = f
    <3>1. CASE QueueUses(e, b) /\ QueueUses(f, b)
      BY <3>1 DEF Core, Alone
    <3>2. CASE Uses(w, b)
      <4>1. b \in Held(t)
        BY <3>2
      <4>2. \A g \in Devices : QueueUses(g, b) => g = d
        BY <4>1 DEF Core, Alone
      <4> QED  BY <1>3, <2>2, <4>2
    <3> QED  BY <1>3, <2>2, <3>1, <3>2
  <2> QED  BY <2>1, <2>2 DEF Alone
<1>5. ASSUME NEW e \in Devices, NEW i \in Nat, NEW c \in Places, i \in 1 .. Len(queue'[e]),
             queue'[e][i].op = "kernel", c \in queue'[e][i].cells, c \notin queue'[e][i].refused
      PROVE  c \in Cells /\ \E m : m = queue'[e][i].meta /\ Holds(e, c, i - 1, m)'
  <2>1. CASE e = d /\ i = L + 1
    <3>1. w.op = "kernel" /\ w.meta = call[t].meta /\ c \in Filled(t) /\ i - 1 = L
      BY <1>1, <1>5, <2>1
    <3> SUFFICES ASSUME NEW m, m = call[t].meta PROVE c \in Cells /\ Holds(d, c, L, m)'
      BY <1>1, <2>1, <3>1
    <3>2. c \in Cells /\ Holds(d, c, L, m)
      BY <3>1 DEF Core, CallsHold
    <3>3. L <= Len(queue[d])
      BY <1>1
    <3> QED  BY <1>0, <1>1, <3>2, <3>3, AppendHolds
  <2>2. CASE e # d \/ i # L + 1
    <3>1. i \in 1 .. Len(queue[e]) /\ queue'[e][i] = queue[e][i]
      BY <1>1, <1>5, <2>2
    <3> SUFFICES ASSUME NEW m, m = queue[e][i].meta PROVE c \in Cells /\ Holds(e, c, i - 1, m)'
      BY <3>1
    <3>2. c \in Cells /\ Holds(e, c, i - 1, m)
      BY <1>5, <3>1 DEF Core, KernelsHold
    <3>3. i - 1 \in Nat /\ i - 1 <= Len(queue[e])
      BY <3>1, QueueFacts
    <3> QED  BY <1>0, <3>2, <3>3, AppendHolds
  <2> QED  BY <2>1, <2>2
<1>6. KernelsHold'
  <2> SUFFICES ASSUME NEW e \in Devices, NEW i \in Nat, NEW c \in Places, i \in 1 .. Len(queue'[e]),
                      queue'[e][i].op = "kernel", c \in queue'[e][i].cells, c \notin queue'[e][i].refused
               PROVE  c \in Cells /\ Holds(e, c, i - 1, queue[e][i].meta)'
    BY DEF KernelsHold
  <2>1. PICK m : m = queue'[e][i].meta /\ Holds(e, c, i - 1, m)'
    BY <1>5
  <2>2. c \in Cells
    BY <1>5
  <2> QED  BY <2>1, <2>2 DEF Holds
<1>7. ASSUME NEW u \in Threads, NEW c \in Filled(u)'
      PROVE  /\ c \in Cells /\ c[1] \in Held(u)'
             /\ Holds(call[u].dev, c, Len(queue[call[u].dev]), call[u].meta)'
  <2>1. CASE u = t
    <3>1. c \in Cells /\ c[1] \in Held(t)' /\ call'[t] = call[t]
      BY <1>7, <2>1
    <3> SUFFICES ASSUME NEW m, m = call[t].meta PROVE Holds(d, c, Len(queue[d]), m)'
      BY <2>1, <3>1 DEF Holds
    <3>2. CASE c \in Filled(t) /\ ~Writes(w, c)
      <4>1. Holds(d, c, L, m)
        BY <3>2 DEF Core, CallsHold
      <4> QED  BY <1>0, <3>1, <3>2, <4>1, AppendHolds
    <3>3. CASE Writes(w, c) /\ w.meta = call[t].meta
      BY <1>0, <3>1, <3>3, AppendHolds
    <3> QED  BY <1>7, <2>1, <3>2, <3>3
  <2>2. CASE u # t
    <3>1. c \in Filled(u) /\ call'[u] = call[u] /\ Held(u)' = Held(u)
      BY <1>7, <2>2, OthersHold
    <3>2. /\ c \in Cells /\ c[1] \in Held(u) /\ c[1] \in Buffers
          /\ Holds(call[u].dev, c, Len(queue[call[u].dev]), call[u].meta)
      BY <3>1 DEF Core, CallsHold, Held
    <3>3. ~Writes(w, c)
      BY <2>2, <3>2, WritesUses DEF Core, PoolHeld
    <3> SUFFICES ASSUME NEW e, e = call[u].dev, NEW m, m = call[u].meta, NEW n, n = Len(queue[e])
                 PROVE  Holds(e, c, Len(queue[e]), m)'
      BY <3>1, <3>2 DEF Holds
    <3>4. Holds(e, c, n, m)
      BY <3>2
    <3>5. CASE e = d
      BY <1>0, <3>2, <3>3, <3>4, <3>5, AppendHolds
    <3>6. CASE e # d
      <4>1. e \in Devices \/ queue'[e] = queue[e]
        <5>1. queue' = [queue EXCEPT ![d] = Append(queue[d], w)]
          BY <1>0 DEF Appended
        <5> QED  BY <3>6, <5>1 DEF Types
      <4>2. queue'[e] = queue[e]
        BY <1>1, <3>6, <4>1
      <4>3. contents' = contents
        BY <1>0 DEF Appended
      <4>4. Holds(e, c, n, m)' /\ Len(queue'[e]) = n
        BY <3>4, <4>2, <4>3 DEF Holds
      <4> QED  BY <4>4 DEF Holds
    <3> QED  BY <3>5, <3>6
  <2> QED  BY <2>1, <2>2
<1>8. CallsHold'
  BY <1>7 DEF CallsHold
<1> QED  BY <1>2, <1>4, <1>6, <1>8 DEF Core

LEMMA AppendChecked ==
    ASSUME Types, KernelsChecked, NEW d \in Devices, NEW w \in Work, Appended(d, w),
           w.op = "kernel" /\ w.checked => w.refused = {}
    PROVE  KernelsChecked'
<1>1. /\ Len(queue[d]) \in Nat /\ Len(queue'[d]) = Len(queue[d]) + 1 /\ queue'[d][Len(queue[d]) + 1] = w
      /\ \A i \in 1 .. Len(queue[d]) : queue'[d][i] = queue[d][i]
      /\ \A e \in Devices \ {d} : queue'[e] = queue[e]
  BY AppendedFacts
<1> SUFFICES ASSUME NEW e \in Devices, NEW i \in 1 .. Len(queue'[e]), queue'[e][i].op = "kernel",
                    queue'[e][i].checked
             PROVE  queue'[e][i].refused = {}
  BY DEF KernelsChecked
<1>2. CASE e = d
  <2>1. i \in 1 .. Len(queue[d]) \/ i = Len(queue[d]) + 1
    BY <1>1, <1>2
  <2> QED  BY <1>1, <1>2, <2>1 DEF KernelsChecked
<1>3. CASE e # d
  BY <1>1, <1>3 DEF KernelsChecked
<1> QED  BY <1>2, <1>3

-----------------------------------------------------------------------------
(* One step of one thread.                                                   *)

LEMMA Closing ==
    ASSUME IInv, NEW t \in Threads, OthersKept(t), Types', Place(t)', PoolCovered', KernelsChecked',
           strayed' \/ Core'
    PROVE  IInv'
<1>1. \A u \in Threads : Place(u)'
  BY OthersHold DEF IInv
<1> QED  BY <1>1 DEF IInv

LEMMA OutsideFacts ==
    ASSUME NEW t \in Threads, Outside(t)
    PROVE  /\ Held(t) = {} /\ Filled(t) = {} /\ Distinct(t) /\ ~InKernel(t)
           /\ Ptrs(scratch[t]) = {} /\ Following(t) = MemcpyAsyncBody(pc[t])
<1>1. 1 .. Len(<<>>) = {}
  OBVIOUS
<1>2. Ptrs(scratch[t]) = {} /\ Distinct(t)
  BY <1>1 DEF Outside, Ptrs, Distinct
<1>3. ~InKernel(t)
  BY DEF Outside, InKernel
<1> QED  BY <1>2, <1>3 DEF Outside, Held, Filled, Following

LEMMA InsideFacts ==
    ASSUME Types, NEW t \in Threads, Inside(t)
    PROVE  /\ InKernel(t) /\ scratch[t] \in Seq(Pointers) /\ Len(scratch[t]) \in Nat
           /\ Ptrs(scratch[t]) \subseteq Pointers /\ part[t] \in Nat
           /\ call[t].dev \in Devices /\ call[t].parts \in Nat /\ call[t].checked \in BOOLEAN
           /\ call[t].meta \in Metas \cup {NoMeta}
           /\ Following(t) = KernelBody(pc[t], part[t] < call[t].parts,
                                        Len(scratch[t]) < call[t].bufs, Len(scratch[t]) = 1)
<1>1. InKernel(t)
  BY DEF Inside, InKernel
<1>2. scratch[t] \in Seq(Pointers) /\ part[t] \in Nat
  BY DEF Types
<1>3. call[t].dev \in Devices /\ call[t].parts \in Nat /\ call[t].checked \in BOOLEAN /\ call[t].meta \in Metas \cup {NoMeta}
  BY DEF Inside, CallType
<1> QED  BY <1>1, <1>2, <1>3, PtrsFacts DEF Following

LEMMA AdvanceFacts ==
    ASSUME Types, NEW t \in Threads, Advance(t)
    PROVE  /\ pc' \in [Threads -> Steps] /\ call' \in [Threads -> CallType \cup {NoCall}]
           /\ pc'[t] = Following(t)
           /\ Following(t) # "idle" => call'[t] = call[t]
           /\ \A u \in Threads \ {t} : pc'[u] = pc[u] /\ call'[u] = call[u]
<1>1. Following(t) \in Steps
  BY DEF Following, KernelBody, MemcpyAsyncBody, Steps
<1> QED  BY <1>1 DEF Types, Advance

LEMMA MemcpyAsyncKeeps ==
    ASSUME IInv, NEW t \in Threads, MemcpyAsync(t) PROVE IInv'
<1>1. Types /\ Place(t) /\ pc[t] = "idle" /\ Outside(t)
  BY DEF IInv, MemcpyAsync, Idle, Place, Inside
<1>2. PICK d \in Devices :
        call' = [call EXCEPT ![t] = [dev |-> d, checked |-> TRUE, bufs |-> 0, parts |-> 1, meta |-> NoMeta]]
  BY DEF MemcpyAsync
<1>3. /\ pc' = [pc EXCEPT ![t] = MemcpyAsyncBody("idle")]
      /\ UNCHANGED <<g_memcpy_mutex, scratch, part, cells, refused, pool, contents, queue, strayed, status>>
  BY DEF MemcpyAsync
<1>4. /\ call'[t] = [dev |-> d, checked |-> TRUE, bufs |-> 0, parts |-> 1, meta |-> NoMeta]
      /\ call'[t] \in CallType /\ call' \in [Threads -> CallType \cup {NoCall}]
      /\ pc'[t] = (IF MultithreadWorkarounds THEN "lock" ELSE "copyBegin")
      /\ pc' \in [Threads -> Steps]
  BY <1>1, <1>2, <1>3, MemcpySteps DEF Types, CallType, Steps
<1>5. OthersKept(t)
  BY <1>1, <1>2, <1>3 DEF OthersKept, Types
<1>6. Types'
  BY <1>1, <1>3, <1>4 DEF Types
<1>7. Outside(t)' /\ Place(t)'
  <2>1. Outside(t)' /\ ~InKernel(t)'
    BY <1>1, <1>3, <1>4 DEF Outside, InKernel
  <2>2. g_memcpy_mutex # t
    BY <1>1 DEF Place
  <2> QED  BY <1>3, <1>4, <2>1, <2>2 DEF Place
<1>8. /\ Held(t) = {} /\ Filled(t) = {} /\ Held(t)' = {} /\ Filled(t)' = {} /\ Distinct(t)'
      /\ Ptrs(scratch[t]) = {}
  <2>1. Held(t) = {} /\ Filled(t) = {} /\ Distinct(t) /\ Ptrs(scratch[t]) = {}
    BY <1>1, OutsideFacts
  <2> QED  BY <1>3, <2>1 DEF Held, Filled, Distinct
<1>9. PoolCovered' /\ KernelsChecked'
  <2>1. PoolCovered'
    BY <1>3 DEF IInv, PoolCovered
  <2> QED  BY <1>3, <2>1 DEF IInv, KernelsChecked
<1>10. strayed' \/ Core'
  <2> SUFFICES ASSUME Core PROVE Core'
    BY <1>3 DEF IInv
  <2> QED  BY <1>1, <1>3, <1>5, <1>8, ThreadKeeps
<1> QED  BY <1>5, <1>6, <1>7, <1>9, <1>10, Closing

LEMMA KernelKeeps ==
    ASSUME IInv, NEW t \in Threads, Kernel(t) PROVE IInv'
<1>1. Types /\ Place(t) /\ pc[t] = "idle" /\ Outside(t)
  BY DEF IInv, Kernel, Idle, Place, Inside
<1>2. PICK d \in Devices, k \in BOOLEAN, b \in 1 .. 2, n \in Parts, m \in Metas :
        /\ b = 2 => k
        /\ call' = [call EXCEPT ![t] = [dev |-> d, checked |-> k, bufs |-> b, parts |-> n, meta |-> m]]
  BY DEF Kernel
<1>3. /\ pc' = [pc EXCEPT ![t] = "mcMallocAsync"]
      /\ UNCHANGED <<g_memcpy_mutex, scratch, part, cells, refused, pool, contents, queue, strayed, status>>
  BY DEF Kernel
<1>4. /\ call'[t] = [dev |-> d, checked |-> k, bufs |-> b, parts |-> n, meta |-> m]
      /\ call'[t] \in CallType /\ call' \in [Threads -> CallType \cup {NoCall}]
      /\ pc'[t] = "mcMallocAsync" /\ pc' \in [Threads -> Steps]
  BY <1>1, <1>2, <1>3 DEF Types, CallType, Steps, Parts
<1>5. OthersKept(t)
  BY <1>1, <1>2, <1>3 DEF OthersKept, Types
<1>6. Types'
  BY <1>1, <1>3, <1>4 DEF Types
<1>7. Inside(t)' /\ Place(t)'
  <2>1. scratch'[t] = <<>> /\ Len(<<>>) = 0 /\ cells'[t] = {} /\ refused'[t] = {}
    BY <1>1, <1>3 DEF Outside
  <2>2. Ptrs(scratch[t]) = {} /\ Ptrs(scratch'[t]) = {}
    BY <1>1, <1>3, OutsideFacts
  <2>3. Inside(t)' /\ InKernel(t)'
    BY <1>2, <1>4, <2>1, <2>2 DEF Inside, InKernel
  <2>4. g_memcpy_mutex # t
    BY <1>1 DEF Place
  <2> QED  BY <1>3, <1>4, <2>3, <2>4 DEF Place
<1>8. /\ Held(t) = {} /\ Filled(t) = {} /\ Held(t)' = {} /\ Filled(t)' = {} /\ Distinct(t)'
      /\ Ptrs(scratch[t]) = {}
  <2>1. Held(t) = {} /\ Filled(t) = {} /\ Distinct(t) /\ Ptrs(scratch[t]) = {}
    BY <1>1, OutsideFacts
  <2> QED  BY <1>3, <2>1 DEF Held, Filled, Distinct
<1>9. PoolCovered' /\ KernelsChecked'
  <2>1. PoolCovered'
    BY <1>3 DEF IInv, PoolCovered
  <2> QED  BY <1>3, <2>1 DEF IInv, KernelsChecked
<1>10. strayed' \/ Core'
  <2> SUFFICES ASSUME Core PROVE Core'
    BY <1>3 DEF IInv
  <2> QED  BY <1>1, <1>3, <1>5, <1>8, ThreadKeeps
<1> QED  BY <1>5, <1>6, <1>7, <1>9, <1>10, Closing

(* Steps after which a thread has what it had, perhaps in another place.     *)
LEMMA MoveKeeps ==
    ASSUME IInv, NEW t \in Threads, Advance(t), OthersKept(t), Place(t)',
           UNCHANGED <<scratch, part, cells, refused, pool, contents, queue, strayed, status>>,
           g_memcpy_mutex' \in Threads \cup {NoThread},
           Following(t) = "idle" => Held(t) = {}
    PROVE  IInv'
<1>1. Types /\ Types'
  BY AdvanceFacts DEF IInv, Types
<1>2. Held(t)' = Held(t) /\ Filled(t)' = Filled(t) /\ Ptrs(scratch'[t]) = Ptrs(scratch[t])
  BY DEF Held, Filled
<1>3. PoolCovered' /\ KernelsChecked'
  <2>1. PoolCovered'
    BY DEF IInv, PoolCovered
  <2> QED  BY <2>1 DEF IInv, KernelsChecked
<1>4. Held(t) # {} => call'[t] = call[t]
  BY <1>1, AdvanceFacts
<1>5. strayed' \/ Core'
  <2> SUFFICES ASSUME Core PROVE Core'
    BY DEF IInv
  <2>1. Distinct(t)' /\ \A c \in Filled(t) : c[1] \in Held(t)
    BY DEF Core, PoolHeld, Distinct, CallsHold
  <2>2. pool' = (pool \ Held(t)) \cup Held(t)'
    BY <1>2 DEF Core, PoolHeld
  <2> QED  BY <1>1, <1>2, <1>4, <2>1, <2>2, ThreadKeeps
<1> QED  BY <1>1, <1>3, <1>5, Closing

LEMMA LockKeeps ==
    ASSUME IInv, NEW t \in Threads, Lock(t) PROVE IInv'
<1>1. Types /\ Place(t) /\ pc[t] = "lock" /\ Outside(t)
  BY DEF IInv, Lock, At, Place, Inside
<1>2. /\ Advance(t) /\ g_memcpy_mutex = NoThread /\ g_memcpy_mutex' = t
      /\ UNCHANGED <<scratch, part, cells, refused, pool, contents, queue, strayed, status>>
  BY DEF Lock
<1>3. Following(t) = "copyBegin" /\ Held(t) = {} /\ ~InKernel(t)
  BY <1>1, OutsideFacts, MemcpySteps
<1>4. pc'[t] = "copyBegin" /\ call'[t] = call[t]
  BY <1>1, <1>2, <1>3, AdvanceFacts
<1>5. OthersKept(t)
  BY <1>1, <1>2, AdvanceFacts, CopyAssumption DEF OthersKept
<1>6. Place(t)'
  <2>1. Outside(t)' /\ ~InKernel(t)'
    BY <1>1, <1>2, <1>4 DEF Outside, InKernel
  <2> QED  BY <1>1, <1>2, <1>4, <2>1 DEF Place
<1> QED  BY <1>2, <1>3, <1>5, <1>6, MoveKeeps

LEMMA UnlockKeeps ==
    ASSUME IInv, NEW t \in Threads, Unlock(t) PROVE IInv'
<1>1. Types /\ Place(t) /\ pc[t] = "unlock" /\ Outside(t)
  BY DEF IInv, Unlock, At, Place, Inside
<1>2. /\ Advance(t) /\ g_memcpy_mutex' = NoThread
      /\ UNCHANGED <<scratch, part, cells, refused, pool, contents, queue, strayed, status>>
  BY DEF Unlock
<1>3. Following(t) = "idle" /\ Held(t) = {} /\ g_memcpy_mutex = t
  <2>1. Following(t) = "idle" /\ Held(t) = {} /\ ~InKernel(t)
    BY <1>1, OutsideFacts, MemcpySteps
  <2> QED  BY <1>1, <2>1 DEF Place
<1>4. pc'[t] = "idle"
  BY <1>1, <1>2, <1>3, AdvanceFacts
<1>5. OthersKept(t)
  BY <1>1, <1>2, <1>3, AdvanceFacts, CopyAssumption DEF OthersKept
<1>6. Place(t)'
  <2>1. Outside(t)' /\ ~InKernel(t)'
    BY <1>1, <1>2, <1>4 DEF Outside, InKernel
  <2> QED  BY <1>2, <1>4, <2>1, CopyAssumption DEF Place
<1> QED  BY <1>2, <1>3, <1>5, <1>6, MoveKeeps

LEMMA CopyEndKeeps ==
    ASSUME IInv, NEW t \in Threads, CopyEnd(t) PROVE IInv'
<1>1. Types /\ Place(t) /\ pc[t] = "copyEnd" /\ (Outside(t) \/ Inside(t))
  BY DEF IInv, CopyEnd, At, Place
<1>2. /\ Advance(t)
      /\ UNCHANGED <<g_memcpy_mutex, scratch, part, cells, refused, pool, contents, queue, strayed, status>>
  BY DEF CopyEnd
<1>3. OthersKept(t)
  BY <1>1, <1>2, AdvanceFacts DEF OthersKept
<1>4. CASE Outside(t)
  <2>1. /\ Following(t) = (IF MultithreadWorkarounds THEN "unlock" ELSE "idle")
        /\ Held(t) = {} /\ ~InKernel(t)
    BY <1>1, <1>4, OutsideFacts, MemcpySteps
  <2>2. pc'[t] = Following(t) /\ (Following(t) # "idle" => call'[t] = call[t])
    BY <1>1, <1>2, AdvanceFacts
  <2>3. Place(t)'
    <3>1. Outside(t)' /\ ~InKernel(t)'
      BY <1>1, <1>2, <1>4, <2>1, <2>2 DEF Outside, InKernel
    <3> QED  BY <1>1, <1>2, <2>1, <2>2, <3>1 DEF Place
  <2> QED  BY <1>1, <1>2, <1>3, <2>1, <2>3, MoveKeeps DEF Types
<1>5. CASE Inside(t)
  <2>1. Following(t) = IF part[t] < call[t].parts THEN "copyBegin"
                       ELSE IF Len(scratch[t]) < call[t].bufs THEN "mcMallocAsync" ELSE "launch"
    <3>1. Following(t) = KernelBody("copyEnd", part[t] < call[t].parts,
                                    Len(scratch[t]) < call[t].bufs, Len(scratch[t]) = 1)
      BY <1>1, <1>5, InsideFacts
    <3> QED  BY <3>1 DEF KernelBody
  <2>2. pc'[t] = Following(t) /\ call'[t] = call[t]
    BY <1>1, <1>2, <2>1, AdvanceFacts
  <2>3. Inside(t)' /\ InKernel(t)'
    BY <1>1, <1>2, <1>5, <2>1, <2>2 DEF Inside, InKernel
  <2>4. Place(t)'
    BY <1>1, <1>2, <1>5, <2>1, <2>2, <2>3, InsideFacts DEF Place
  <2> QED  BY <1>1, <1>2, <1>3, <2>1, <2>4, MoveKeeps DEF Types
<1> QED  BY <1>1, <1>4, <1>5

(* Steps that allocate: the pointer goes behind those the call has.          *)
LEMMA AllocKeeps ==
    ASSUME IInv, NEW t \in Threads, pc[t] = "mcMallocAsync", NEW b \in Pointers,
           Advance(t), scratch' = [scratch EXCEPT ![t] = Append(scratch[t], b)],
           part' = [part EXCEPT ![t] = 0],
           UNCHANGED <<g_memcpy_mutex, cells, refused, contents, queue, status>>,
           call[t].checked => b \in Buffers,
           strayed' = strayed \/ strayed' = TRUE,
           pool \subseteq pool', pool' \subseteq pool \cup {b}, pool' \subseteq Buffers,
           ~strayed' /\ b \in Buffers =>
               /\ b \notin pool /\ b \in pool' /\ \A e \in Devices : QueueUses(e, b) => e = call[t].dev
    PROVE  IInv'
<1>1. Types /\ Place(t) /\ Inside(t)
  BY DEF IInv, Place, Outside
<1> SUFFICES ASSUME NEW s, s = scratch[t] PROVE IInv'
  OBVIOUS
<1>2. /\ s \in Seq(Pointers) /\ Len(s) \in Nat /\ InKernel(t) /\ Len(s) < call[t].bufs
      /\ call[t].bufs \in {1, 2} /\ cells[t] \subseteq Ptrs(s) \X Parts /\ call[t].parts \in Parts
      /\ call[t].parts \in Nat
  BY <1>1, InsideFacts DEF Inside
<1>3. /\ scratch'[t] = Append(s, b) /\ Append(s, b) \in Seq(Pointers) /\ Len(Append(s, b)) = Len(s) + 1
      /\ Ptrs(Append(s, b)) = Ptrs(s) \cup {b}
      /\ \A i \in 1 .. Len(s) : Append(s, b)[i] = s[i]
      /\ Append(s, b)[Len(s) + 1] = b
  BY <1>1, <1>2, PtrsAppend DEF Types
<1>4. pc'[t] = "copyBegin" /\ call'[t] = call[t]
  <2>1. Following(t) = KernelBody("mcMallocAsync", part[t] < call[t].parts,
                                  Len(scratch[t]) < call[t].bufs, Len(scratch[t]) = 1)
    BY <1>1, InsideFacts
  <2>2. Following(t) = "copyBegin"
    BY <2>1 DEF KernelBody
  <2> QED  BY <1>1, <2>2, AdvanceFacts
<1>5. OthersKept(t)
  BY <1>1, AdvanceFacts DEF OthersKept, Types
<1>6. Types'
  <2>1. scratch' \in [Threads -> Seq(Pointers)] /\ part' \in [Threads -> Nat] /\ part'[t] = 0
    BY <1>1, <1>3 DEF Types
  <2>2. strayed' \in BOOLEAN
    BY <1>1 DEF Types
  <2> QED  BY <1>1, <2>1, <2>2, AdvanceFacts DEF Types
<1>7. Place(t)'
  <2>1. Inside(t)'
    <3>1. Len(scratch'[t]) \in 1 .. call[t].bufs
      BY <1>2, <1>3
    <3>2. part'[t] < call[t].parts
      BY <1>1, <1>2 DEF Types, Parts
    <3>3. cells'[t] \subseteq Ptrs(scratch'[t]) \X Parts /\ refused'[t] \subseteq cells'[t]
      BY <1>1, <1>2, <1>3 DEF Inside
    <3>4. call[t].checked => refused'[t] = {} /\ Ptrs(scratch'[t]) \subseteq Buffers
      BY <1>1, <1>3 DEF Inside
    <3>5. /\ pc'[t] \in {"mcMallocAsync", "copyBegin", "copyEnd", "launch", "mcFreeAsync"}
          /\ pc'[t] # "mcMallocAsync" /\ pc'[t] # "mcFreeAsync"
          /\ call'[t] \in CallType /\ call'[t].bufs \in {1, 2} /\ call'[t].meta \in Metas
          /\ call'[t].parts \in Parts /\ (~ call'[t].checked => call'[t].bufs = 1)
      BY <1>1, <1>4 DEF Inside
    <3> QED  BY <1>4, <3>1, <3>2, <3>3, <3>4, <3>5 DEF Inside
  <2>2. InKernel(t)'
    BY <1>4, <2>1 DEF Inside, InKernel
  <2> QED  BY <1>1, <1>2, <1>4, <2>1, <2>2 DEF Place
<1>8. PoolCovered' /\ KernelsChecked'
  <2>1. ASSUME NEW x \in pool' PROVE \E u \in Threads : x \in Ptrs(scratch'[u])
    <3>1. CASE x = b
      BY <1>3, <3>1
    <3>2. CASE x # b
      <4>1. PICK u \in Threads : x \in Ptrs(scratch[u])
        BY <2>1, <3>2 DEF IInv, PoolCovered
      <4> QED  BY <1>3, <1>5, <4>1 DEF OthersKept
    <3> QED  BY <3>1, <3>2
  <2>2. PoolCovered'
    BY <2>1 DEF PoolCovered
  <2> QED  BY <2>2 DEF IInv, KernelsChecked
<1>9. strayed' \/ Core'
  <2> SUFFICES ASSUME ~strayed', Core PROVE Core'
    BY <1>1 DEF IInv, Types
  <2>1. Held(t)' = Held(t) \cup ({b} \cap Buffers) /\ Filled(t)' = Filled(t)
    BY <1>3 DEF Held, Filled
  <2>2. Held(t) \subseteq pool
    BY DEF Core, PoolHeld
  <2>3. b \in Buffers => b \notin pool /\ b \in pool'
    OBVIOUS
  <2>4. pool' = (pool \ Held(t)) \cup Held(t)' /\ (Held(t)' \ Held(t)) \cap pool = {}
    BY <2>1, <2>2, <2>3
  <2>5. Distinct(t)'
    <3>1. \A i, j \in 1 .. Len(s) : i # j => s[i] # s[j]
      BY DEF Core, PoolHeld, Distinct
    <3>2. ASSUME NEW i \in 1 .. Len(s) PROVE s[i] # b
      <4>1. CASE b \in Buffers
        <5>1. s[i] \in Ptrs(s)
          BY DEF Ptrs
        <5>2. s[i] \in Buffers => s[i] \in pool
          BY <2>2, <5>1 DEF Held
        <5> QED  BY <2>3, <4>1, <5>2
      <4>2. CASE b \notin Buffers
        <5>1. call[t].bufs = 1
          BY <1>1, <4>2 DEF Inside
        <5> QED  BY <1>2, <5>1
      <4> QED  BY <4>1, <4>2
    <3>3. \A i \in 1 .. Len(s) + 1 : i \in 1 .. Len(s) \/ i = Len(s) + 1
      BY <1>2
    <3> QED  BY <1>3, <3>1, <3>2, <3>3 DEF Distinct
  <2>6. \A c \in Filled(t)' : c[1] \in Held(t)'
    BY <2>1 DEF Core, CallsHold
  <2>7. \A x \in Buffers, e \in Devices :
            x \in Held(t)' /\ x \notin Held(t) /\ QueueUses(e, x) => e = call'[t].dev
    BY <1>4, <2>1
  <2> QED  BY <1>1, <1>4, <1>5, <2>1, <2>4, <2>5, <2>6, <2>7, ThreadKeeps
<1> QED  BY <1>5, <1>6, <1>7, <1>8, <1>9, Closing

LEMMA McMallocAsyncKeeps ==
    ASSUME IInv, NEW t \in Threads, McMallocAsync(t) PROVE IInv'
<1>1. PICK b \in Buffers : /\ Available(b, call[t].dev) /\ pool' = pool \cup {b}
                           /\ scratch' = [scratch EXCEPT ![t] = Append(scratch[t], b)]
  BY DEF McMallocAsync
<1>2. /\ pc[t] = "mcMallocAsync" /\ Advance(t) /\ part' = [part EXCEPT ![t] = 0]
      /\ UNCHANGED <<g_memcpy_mutex, cells, refused, contents, queue, strayed, status>>
  BY DEF McMallocAsync, At
<1>3. b \in Pointers /\ pool' \subseteq Buffers
  BY <1>1 DEF Pointers, IInv, Types
<1>4. b \notin pool /\ \A e \in Devices : QueueUses(e, b) => e = call[t].dev
  BY <1>1, QueueFacts DEF Available, QueueUses, IInv
<1> QED  BY <1>1, <1>2, <1>3, <1>4, AllocKeeps

LEMMA OutOfMemoryKeeps ==
    ASSUME IInv, NEW t \in Threads, OutOfMemoryUnchecked(t) PROVE IInv'
<1>1. PICK b \in Buffers \cup {NoBuffer} :
          /\ scratch' = [scratch EXCEPT ![t] = Append(scratch[t], b)]
          /\ strayed' = (strayed \/ b \in Buffers)
  BY DEF OutOfMemoryUnchecked
<1>2. /\ pc[t] = "mcMallocAsync" /\ ~ call[t].checked /\ Advance(t) /\ part' = [part EXCEPT ![t] = 0]
      /\ UNCHANGED <<g_memcpy_mutex, cells, refused, pool, contents, queue, status>>
  BY DEF OutOfMemoryUnchecked, At
<1>3. b \in Pointers /\ pool' \subseteq Buffers /\ strayed \in BOOLEAN
  BY <1>2 DEF Pointers, IInv, Types
<1>4. (strayed' = strayed \/ strayed' = TRUE) /\ ~(~strayed' /\ b \in Buffers)
  BY <1>1, <1>3
<1> QED  BY <1>1, <1>2, <1>3, <1>4, AllocKeeps

(* Steps that tell the kernel of a part.                                     *)
LEMMA ToldFacts ==
    ASSUME IInv, NEW t \in Threads, pc[t] = "copyBegin", Inside(t), Told(t)
    PROVE  /\ Newest(t) \in Ptrs(scratch[t]) /\ part[t] + 1 \in Parts
           /\ Target(t) = {<<Newest(t), part[t] + 1>>} /\ Target(t) \subseteq Ptrs(scratch[t]) \X Parts
           /\ Target(t) \subseteq Places
           /\ cells' \in [Threads -> SUBSET Places] /\ cells'[t] = cells[t] \cup Target(t)
           /\ part' \in [Threads -> Nat]
           /\ \A u \in Threads \ {t} : cells'[u] = cells[u] /\ part'[u] = part[u]
<1>1. Types
  BY DEF IInv
<1>2. /\ InKernel(t) /\ scratch[t] \in Seq(Pointers) /\ Ptrs(scratch[t]) \subseteq Pointers /\ part[t] \in Nat
      /\ Len(scratch[t]) \in Nat /\ call[t].parts \in Nat
  BY <1>1, InsideFacts
<1>3. Len(scratch[t]) >= 1 /\ part[t] < call[t].parts /\ call[t].parts \in Parts
  <2>1. Len(scratch[t]) \in 1 .. call[t].bufs /\ call[t].bufs \in {1, 2}
    BY DEF Inside
  <2> QED  BY <2>1 DEF Inside
<1>4. Newest(t) \in Ptrs(scratch[t])
  BY <1>2, <1>3, PtrsFacts DEF Newest
<1>5. part[t] + 1 \in Parts
  BY <1>2, <1>3, CopyAssumption DEF Parts
<1>6. Target(t) = {<<Newest(t), part[t] + 1>>}
  BY <1>2 DEF Target
<1>7. Target(t) \subseteq Ptrs(scratch[t]) \X Parts /\ Target(t) \subseteq Places
  BY <1>2, <1>4, <1>5, <1>6 DEF Places
<1>8. /\ cells' = [cells EXCEPT ![t] = cells[t] \cup Target(t)] /\ part' = [part EXCEPT ![t] = part[t] + 1]
  BY <1>2 DEF Told
<1>9. cells[t] \cup Target(t) \in SUBSET Places /\ part[t] + 1 \in Nat
  <2>1. cells[t] \subseteq Places
    BY <1>1 DEF Types
  <2> QED  BY <1>2, <1>7, <2>1
<1>10. /\ cells' \in [Threads -> SUBSET Places] /\ cells'[t] = cells[t] \cup Target(t)
       /\ \A u \in Threads \ {t} : cells'[u] = cells[u]
  BY <1>1, <1>8, <1>9 DEF Types
<1>11. part' \in [Threads -> Nat] /\ \A u \in Threads \ {t} : part'[u] = part[u]
  BY <1>1, <1>8, <1>9 DEF Types
<1> QED  BY <1>4, <1>5, <1>6, <1>7, <1>10, <1>11

LEMMA ToldPlace ==
    ASSUME IInv, NEW t \in Threads, pc[t] = "copyBegin", Inside(t), Told(t), Advance(t),
           UNCHANGED <<g_memcpy_mutex, scratch>>,
           \A u \in Threads \ {t} : refused'[u] = refused[u],
           refused'[t] = refused[t] \/ (refused'[t] = refused[t] \cup Target(t) /\ ~ call[t].checked)
    PROVE  /\ OthersKept(t) /\ Place(t)' /\ pc'[t] = "copyEnd" /\ call'[t] = call[t]
<1>1. Types /\ Place(t)
  BY DEF IInv
<1>2. pc'[t] = "copyEnd" /\ call'[t] = call[t]
  <2>1. Following(t) = KernelBody("copyBegin", part[t] < call[t].parts,
                                  Len(scratch[t]) < call[t].bufs, Len(scratch[t]) = 1)
    BY <1>1, InsideFacts
  <2>2. Following(t) = "copyEnd"
    BY <2>1 DEF KernelBody
  <2> QED  BY <1>1, <2>2, AdvanceFacts
<1>3. OthersKept(t)
  BY <1>1, AdvanceFacts, ToldFacts DEF OthersKept
<1>4. Inside(t)'
  <2>1. cells'[t] \subseteq Ptrs(scratch'[t]) \X Parts /\ refused'[t] \subseteq cells'[t]
    BY ToldFacts DEF Inside
  <2> QED  BY <1>2, <2>1 DEF Inside
<1>5. InKernel(t) /\ InKernel(t)'
  BY <1>2, <1>4 DEF Inside, InKernel
<1> QED  BY <1>1, <1>2, <1>3, <1>4, <1>5 DEF Place

LEMMA CopyRefusedKeeps ==
    ASSUME IInv, NEW t \in Threads, CopyRefused(t) PROVE IInv'
<1>1. Types /\ Place(t) /\ pc[t] = "copyBegin" /\ (Outside(t) \/ Inside(t)) /\ ~ call[t].checked
  BY DEF IInv, CopyRefused, At, Place
<1>2. /\ Advance(t) /\ Told(t) /\ refused' = [refused EXCEPT ![t] = refused[t] \cup Target(t)]
      /\ UNCHANGED <<g_memcpy_mutex, scratch, pool, contents, queue, strayed, status>>
  BY DEF CopyRefused
<1>3. CASE Outside(t)
  <2>1. Following(t) = "copyEnd" /\ Held(t) = {} /\ ~InKernel(t)
    BY <1>1, <1>3, OutsideFacts, MemcpySteps
  <2>2. UNCHANGED <<part, cells, refused>>
    BY <1>1, <1>2, <2>1 DEF Told, Target, Types
  <2>3. pc'[t] = "copyEnd" /\ call'[t] = call[t] /\ OthersKept(t)
    BY <1>1, <1>2, <2>1, <2>2, AdvanceFacts DEF OthersKept
  <2>4. Place(t)'
    <3>1. Outside(t)' /\ ~InKernel(t)'
      BY <1>1, <1>2, <1>3, <2>1, <2>2, <2>3 DEF Outside, InKernel
    <3> QED  BY <1>1, <1>2, <2>1, <2>3, <3>1 DEF Place
  <2> QED  BY <1>1, <1>2, <2>1, <2>2, <2>3, <2>4, MoveKeeps DEF Types
<1>4. CASE Inside(t)
  <2>1. /\ Target(t) \subseteq Places /\ cells' \in [Threads -> SUBSET Places]
        /\ cells'[t] = cells[t] \cup Target(t) /\ part' \in [Threads -> Nat]
    BY <1>1, <1>2, <1>4, ToldFacts
  <2>2. /\ refused' \in [Threads -> SUBSET Places] /\ refused'[t] = refused[t] \cup Target(t)
        /\ \A u \in Threads \ {t} : refused'[u] = refused[u]
    BY <1>1, <1>2, <2>1 DEF Types
  <2>3. OthersKept(t) /\ Place(t)' /\ pc'[t] = "copyEnd" /\ call'[t] = call[t]
    BY <1>1, <1>2, <1>4, <2>2, ToldPlace
  <2>4. Types'
    BY <1>1, <1>2, <2>1, <2>2, AdvanceFacts DEF Types
  <2>5. Held(t)' = Held(t) /\ Filled(t)' \subseteq Filled(t) /\ Distinct(t)' = Distinct(t)
    BY <1>2, <2>1, <2>2 DEF Held, Filled, Distinct
  <2>6. PoolCovered' /\ KernelsChecked'
    <3>1. PoolCovered'
      BY <1>2 DEF IInv, PoolCovered
    <3> QED  BY <1>2, <3>1 DEF IInv, KernelsChecked
  <2>7. strayed' \/ Core'
    <3> SUFFICES ASSUME Core PROVE Core'
      BY <1>2 DEF IInv
    <3>1. Distinct(t)' /\ \A c \in Filled(t)' : c[1] \in Held(t)'
      BY <2>5 DEF Core, PoolHeld, CallsHold
    <3>2. pool' = (pool \ Held(t)) \cup Held(t)'
      BY <1>2, <2>5 DEF Core, PoolHeld
    <3> QED  BY <1>1, <1>2, <2>3, <2>5, <3>1, <3>2, ThreadKeeps
  <2> QED  BY <2>3, <2>4, <2>6, <2>7, Closing
<1> QED  BY <1>1, <1>3, <1>4

LEMMA CopyBeginKeeps ==
    ASSUME IInv, NEW t \in Threads, CopyBegin(t) PROVE IInv'
<1>1. Types /\ Place(t) /\ pc[t] = "copyBegin" /\ (Outside(t) \/ Inside(t)) /\ call[t] \in CallType
  BY DEF IInv, CopyBegin, At, Place, Outside, Inside
<1> SUFFICES ASSUME NEW w, w = [op |-> "copy", cells |-> Target(t), meta |-> call[t].meta,
                                checked |-> call[t].checked, refused |-> {}]
             PROVE  IInv'
  OBVIOUS
<1>2. /\ Advance(t) /\ Told(t) /\ Target(t) \subseteq Cells
      /\ UNCHANGED <<g_memcpy_mutex, scratch, refused, pool, contents, strayed, status>>
      /\ Appended(call[t].dev, w)
  BY DEF CopyBegin, Submit, Appended
<1>3. w \in Work /\ w.op = "copy" /\ w.cells = Target(t) /\ w.meta = call[t].meta
  <2>1. Target(t) \in SUBSET (Pointers \X Parts)
    BY <1>2 DEF Cells, Pointers
  <2>2. call[t].meta \in Metas \cup {NoMeta} /\ call[t].checked \in BOOLEAN
    BY <1>1 DEF CallType
  <2> QED  BY <2>1, <2>2 DEF Work
<1>4. queue' \in [Devices -> Seq(Work)] /\ KernelsChecked'
  <2>1. call[t].dev \in Devices
    BY <1>1 DEF CallType
  <2> QED  BY <1>1, <1>2, <1>3, <2>1, AppendedFacts, AppendChecked DEF IInv
<1>5. PoolCovered'
  BY <1>2 DEF IInv, PoolCovered
<1>6. CASE Outside(t)
  <2>1. Following(t) = "copyEnd" /\ Held(t) = {} /\ Filled(t) = {} /\ Distinct(t) /\ ~InKernel(t)
    BY <1>1, <1>6, OutsideFacts, MemcpySteps
  <2>2. UNCHANGED <<part, cells>> /\ Target(t) = {}
    BY <1>1, <1>2, <2>1 DEF Told, Target, Types
  <2>3. pc'[t] = "copyEnd" /\ call'[t] = call[t] /\ OthersKept(t)
    BY <1>1, <1>2, <2>1, <2>2, AdvanceFacts DEF OthersKept
  <2>4. Place(t)'
    <3>1. Outside(t)' /\ ~InKernel(t)'
      BY <1>1, <1>2, <1>6, <2>1, <2>2, <2>3 DEF Outside, InKernel
    <3> QED  BY <1>1, <1>2, <2>1, <2>3, <3>1 DEF Place
  <2>5. Types'
    BY <1>1, <1>2, <1>4, <2>2, AdvanceFacts DEF Types
  <2>6. Held(t)' = {} /\ Filled(t)' = {} /\ Distinct(t)'
    BY <1>2, <2>1, <2>2 DEF Held, Filled, Distinct
  <2>7. \A b : ~Uses(w, b)
    BY <1>3, <2>2 DEF Uses
  <2>8. strayed' \/ Core'
    <3> SUFFICES ASSUME Core PROVE Core'
      BY <1>2 DEF IInv
    <3> QED  BY <1>1, <1>2, <1>3, <2>1, <2>3, <2>6, <2>7, SubmitKeeps
  <2> QED  BY <1>4, <1>5, <2>3, <2>4, <2>5, <2>8, Closing
<1>7. CASE Inside(t)
  <2>1. /\ Newest(t) \in Ptrs(scratch[t]) /\ Target(t) = {<<Newest(t), part[t] + 1>>}
        /\ cells' \in [Threads -> SUBSET Places]
        /\ cells'[t] = cells[t] \cup Target(t) /\ part' \in [Threads -> Nat]
    BY <1>1, <1>2, <1>7, ToldFacts
  <2>2. OthersKept(t) /\ Place(t)' /\ pc'[t] = "copyEnd" /\ call'[t] = call[t]
    BY <1>1, <1>2, <1>7, ToldPlace
  <2>3. Types'
    BY <1>1, <1>2, <1>4, <2>1, AdvanceFacts DEF Types
  <2>4. Held(t)' = Held(t) /\ Distinct(t)' = Distinct(t) /\ Filled(t)' \subseteq Filled(t) \cup Target(t)
    BY <1>2, <2>1 DEF Held, Filled, Distinct
  <2>5. \A c \in Target(t) : c \in Cells /\ c[1] \in Held(t) /\ Writes(w, c)
    <3>1. \A c \in Target(t) : c[1] = Newest(t) /\ c \in Cells
      BY <1>2, <2>1
    <3>2. \A c \in Target(t) : c[1] \in Held(t)
      BY <2>1, <3>1 DEF Cells, Held
    <3> QED  BY <1>3, <3>1, <3>2 DEF Writes
  <2>6. \A b \in Buffers : Uses(w, b) => b \in Held(t)
    BY <1>3, <2>5 DEF Uses
  <2>7. strayed' \/ Core'
    <3> SUFFICES ASSUME Core PROVE Core'
      BY <1>2 DEF IInv
    <3>1. Distinct(t)' /\ pool' = (pool \ Held(t)) \cup Held(t)'
      BY <1>2, <2>4 DEF Core, PoolHeld
    <3>2. \A c \in Filled(t)' :
             /\ c \in Cells /\ c[1] \in Held(t)'
             /\ \/ c \in Filled(t) /\ ~Writes(w, c)
                \/ Writes(w, c) /\ w.meta = call[t].meta
      <4>1. \A c \in Filled(t) : c \in Cells /\ c[1] \in Held(t)
        BY DEF Core, CallsHold
      <4> QED  BY <1>3, <2>4, <2>5, <4>1
    <3> QED  BY <1>1, <1>2, <1>3, <2>2, <2>4, <2>6, <3>1, <3>2, SubmitKeeps
  <2> QED  BY <1>4, <1>5, <2>2, <2>3, <2>7, Closing
<1> QED  BY <1>1, <1>6, <1>7

LEMMA LaunchKeeps ==
    ASSUME IInv, NEW t \in Threads, Launch(t) PROVE IInv'
<1>1. Types /\ Place(t) /\ pc[t] = "launch" /\ Inside(t) /\ call[t] \in CallType
  BY DEF IInv, Launch, At, Place, Outside, Inside
<1> SUFFICES ASSUME NEW w, w = [op |-> "kernel", cells |-> cells[t], meta |-> call[t].meta,
                                checked |-> call[t].checked, refused |-> refused[t]]
             PROVE  IInv'
  OBVIOUS
<1>2. /\ Advance(t) /\ part' = [part EXCEPT ![t] = 0] /\ cells' = [cells EXCEPT ![t] = {}]
      /\ refused' = [refused EXCEPT ![t] = {}]
      /\ UNCHANGED <<g_memcpy_mutex, scratch, pool, contents, strayed, status>>
      /\ Appended(call[t].dev, w)
  BY DEF Launch, Submit, Appended
<1>3. /\ w \in Work /\ w.op = "kernel" /\ w.cells = cells[t] /\ w.refused = refused[t]
      /\ w.meta = call[t].meta /\ w.checked = call[t].checked
  <2>1. cells[t] \in SUBSET (Pointers \X Parts) /\ refused[t] \in SUBSET (Pointers \X Parts)
    BY <1>1 DEF Types, Places
  <2>2. call[t].meta \in Metas \cup {NoMeta} /\ call[t].checked \in BOOLEAN
    BY <1>1 DEF CallType
  <2> QED  BY <2>1, <2>2 DEF Work
<1>4. queue' \in [Devices -> Seq(Work)] /\ KernelsChecked'
  <2>1. call[t].dev \in Devices /\ (w.checked => w.refused = {})
    BY <1>1, <1>3 DEF CallType, Inside
  <2> QED  BY <1>1, <1>2, <1>3, <2>1, AppendedFacts, AppendChecked DEF IInv
<1>5. PoolCovered'
  BY <1>2 DEF IInv, PoolCovered
<1>6. pc'[t] = "mcFreeAsync" /\ call'[t] = call[t]
  <2>1. Following(t) = KernelBody("launch", part[t] < call[t].parts,
                                  Len(scratch[t]) < call[t].bufs, Len(scratch[t]) = 1)
    BY <1>1, InsideFacts
  <2>2. Following(t) = "mcFreeAsync"
    BY <2>1 DEF KernelBody
  <2> QED  BY <1>1, <1>2, <2>2, AdvanceFacts
<1>7. cells'[t] = {} /\ refused'[t] = {}
  BY <1>1, <1>2 DEF Types
<1>8. Types'
  BY <1>1, <1>2, <1>4, AdvanceFacts DEF Types
<1>9. OthersKept(t)
  BY <1>1, <1>2, AdvanceFacts DEF OthersKept, Types
<1>10. Place(t)'
  <2>1. Inside(t)'
    BY <1>1, <1>2, <1>6, <1>7 DEF Inside
  <2>2. InKernel(t) /\ InKernel(t)'
    BY <1>1, <1>6, <2>1 DEF Inside, InKernel
  <2> QED  BY <1>1, <1>2, <1>6, <2>1, <2>2 DEF Place
<1>11. Held(t)' = Held(t) /\ Distinct(t)' = Distinct(t) /\ Filled(t)' = {}
  BY <1>2, <1>7 DEF Held, Filled, Distinct
<1>12. \A b \in Buffers : Uses(w, b) => b \in Held(t)
  BY <1>1, <1>3 DEF Uses, Held, Inside
<1>13. strayed' \/ Core'
  <2> SUFFICES ASSUME Core PROVE Core'
    BY <1>2 DEF IInv
  <2>1. Distinct(t)' /\ pool' = (pool \ Held(t)) \cup Held(t)'
    BY <1>2, <1>11 DEF Core, PoolHeld
  <2>2. w.cells \ w.refused \subseteq Filled(t)
    BY <1>3 DEF Filled
  <2> QED  BY <1>1, <1>2, <1>3, <1>6, <1>9, <1>11, <1>12, <2>1, <2>2, SubmitKeeps
<1> QED  BY <1>4, <1>5, <1>8, <1>9, <1>10, <1>13, Closing

LEMMA McFreeAsyncKeeps ==
    ASSUME IInv, NEW t \in Threads, McFreeAsync(t) PROVE IInv'
<1>1. Types /\ Place(t) /\ pc[t] = "mcFreeAsync" /\ Inside(t) /\ call[t] \in CallType
  BY DEF IInv, McFreeAsync, At, Place, Outside, Inside
<1> SUFFICES ASSUME NEW s, s = scratch[t], NEW b, b = Head(s),
                    NEW w, w = [op |-> "free", cells |-> {b} \X Parts, meta |-> NoMeta,
                                checked |-> call[t].checked, refused |-> {}]
             PROVE  IInv'
  OBVIOUS
<1>2. /\ Advance(t) /\ pool' = pool \ {b} /\ scratch' = [scratch EXCEPT ![t] = Tail(s)]
      /\ UNCHANGED <<g_memcpy_mutex, part, cells, refused, contents, strayed, status>>
      /\ Appended(call[t].dev, w)
  BY DEF McFreeAsync, Submit, Appended
<1>3. s \in Seq(Pointers) /\ Len(s) \in 1 .. call[t].bufs /\ Len(s) \in Nat /\ Len(s) >= 1 /\ call[t].bufs \in {1, 2}
  <2>1. s \in Seq(Pointers) /\ Len(s) \in Nat /\ Len(s) \in 1 .. call[t].bufs /\ call[t].bufs \in {1, 2}
    BY <1>1, InsideFacts DEF Inside
  <2> QED  BY <2>1
<1>4. /\ b = s[1] /\ b \in Pointers /\ Tail(s) \in Seq(Pointers) /\ Len(Tail(s)) = Len(s) - 1
      /\ Ptrs(s) = {b} \cup Ptrs(Tail(s))
      /\ \A i \in 1 .. Len(s) - 1 : i + 1 \in 1 .. Len(s) /\ Tail(s)[i] = s[i + 1]
  BY <1>3, PtrsTail
<1>5. w \in Work /\ w.op = "free" /\ w.cells = {b} \X Parts /\ \A x : Uses(w, x) => x = b
  <2>1. {b} \X Parts \in SUBSET (Pointers \X Parts) /\ call[t].checked \in BOOLEAN
    BY <1>1, <1>4 DEF CallType
  <2> QED  BY <2>1 DEF Work, Uses
<1>6. queue' \in [Devices -> Seq(Work)] /\ KernelsChecked'
  <2>1. call[t].dev \in Devices
    BY <1>1 DEF CallType
  <2> QED  BY <1>1, <1>2, <1>5, <2>1, AppendedFacts, AppendChecked DEF IInv
<1>7. pc'[t] = Following(t) /\ Following(t) = IF Len(s) = 1 THEN "idle" ELSE "mcFreeAsync"
  <2>1. Following(t) = KernelBody("mcFreeAsync", part[t] < call[t].parts,
                                  Len(scratch[t]) < call[t].bufs, Len(scratch[t]) = 1)
    BY <1>1, InsideFacts
  <2>2. Following(t) = IF Len(s) = 1 THEN "idle" ELSE "mcFreeAsync"
    BY <2>1 DEF KernelBody
  <2> QED  BY <1>1, <1>2, <2>2, AdvanceFacts
<1>8. scratch'[t] = Tail(s) /\ scratch' \in [Threads -> Seq(Pointers)]
  BY <1>1, <1>2, <1>4 DEF Types
<1>9. Types'
  <2>1. pool' \subseteq Buffers
    BY <1>1, <1>2 DEF Types
  <2> QED  BY <1>1, <1>2, <1>6, <1>8, <2>1, AdvanceFacts DEF Types
<1>10. OthersKept(t)
  BY <1>1, <1>2, AdvanceFacts DEF OthersKept, Types
<1>11. PoolCovered'
  <2>1. pool' \subseteq (pool \ Ptrs(scratch[t])) \cup Ptrs(scratch'[t])
    BY <1>2, <1>4, <1>8
  <2> QED  BY <1>10, <2>1, CoveredKept DEF IInv
<1>12. cells[t] = {} /\ refused[t] = {} /\ cells'[t] = {} /\ refused'[t] = {}
  BY <1>1, <1>2 DEF Inside
<1>13. Place(t)'
  <2>1. InKernel(t) /\ g_memcpy_mutex # t
    BY <1>1, InsideFacts DEF Place
  <2>2. CASE Len(s) = 1
    <3>1. pc'[t] = "idle" /\ scratch'[t] = <<>>
      <4>1. Len(Tail(s)) = 0
        BY <1>4, <2>2
      <4>2. Tail(s) = <<>>
        BY <1>4, <4>1, EmptySeq
      <4> QED  BY <1>7, <1>8, <2>2, <4>2
    <3>2. Outside(t)' /\ ~InKernel(t)'
      BY <1>12, <3>1 DEF Outside, InKernel
    <3> QED  BY <1>2, <2>1, <3>1, <3>2 DEF Place
  <2>3. CASE Len(s) # 1
    <3>1. pc'[t] = "mcFreeAsync" /\ call'[t] = call[t]
      BY <1>1, <1>2, <1>7, <2>3, AdvanceFacts
    <3>2. Len(scratch'[t]) \in 1 .. call[t].bufs
      <4>1. Len(s) \in Nat /\ Len(s) >= 1 /\ Len(s) <= call[t].bufs /\ call[t].bufs <= 2
        BY <1>3, <1>4
      <4>2. Len(s) = 2 /\ call[t].bufs = 2
        <5>1. \A n \in Nat, m \in {1, 2} : n >= 1 /\ n <= m /\ n # 1 => n = 2 /\ m = 2
          OBVIOUS
        <5> QED  BY <1>3, <2>3, <4>1, <5>1
      <4>3. Len(Tail(s)) = 1
        BY <1>4, <4>2
      <4> QED  BY <1>8, <4>2, <4>3
    <3>3. Inside(t)'
      BY <1>1, <1>4, <1>8, <1>12, <3>1, <3>2 DEF Inside
    <3>4. InKernel(t)'
      BY <3>1, <3>3 DEF Inside, InKernel
    <3> QED  BY <1>2, <2>1, <3>1, <3>3, <3>4 DEF Place
  <2> QED  BY <2>2, <2>3
<1>14. strayed' \/ Core'
  <2> SUFFICES ASSUME Core PROVE Core'
    BY <1>2 DEF IInv
  <2>1. \A i, j \in 1 .. Len(s) : i # j => s[i] # s[j]
    BY DEF Core, PoolHeld, Distinct
  <2>2. b \notin Ptrs(Tail(s))
    <3> SUFFICES ASSUME NEW i \in 1 .. Len(s) - 1 PROVE Tail(s)[i] # b
      BY <1>4 DEF Ptrs
    <3>1. i + 1 \in 1 .. Len(s) /\ 1 \in 1 .. Len(s) /\ i + 1 # 1 /\ Tail(s)[i] = s[i + 1]
      BY <1>3, <1>4
    <3> QED  BY <1>4, <2>1, <3>1
  <2>3. Distinct(t)'
    <3> SUFFICES ASSUME NEW i \in 1 .. Len(s) - 1, NEW j \in 1 .. Len(s) - 1, i # j
                 PROVE  Tail(s)[i] # Tail(s)[j]
      BY <1>4, <1>8 DEF Distinct
    <3>1. i + 1 # j + 1
      BY <1>3
    <3> QED  BY <1>4, <2>1, <3>1
  <2>4. Held(t) = ({b} \cup Ptrs(Tail(s))) \cap Buffers /\ Held(t)' = Ptrs(Tail(s)) \cap Buffers
    BY <1>4, <1>8 DEF Held
  <2>5. Held(t) \subseteq pool
    BY DEF Core, PoolHeld
  <2>6. pool' = (pool \ Held(t)) \cup Held(t)' /\ Held(t)' \subseteq Held(t)
    BY <1>1, <1>2, <2>2, <2>4, <2>5 DEF Types
  <2>7. \A x \in Buffers : Uses(w, x) => x \in Held(t)
    BY <1>5, <2>4
  <2>8. Held(t)' # {} => call'[t] = call[t]
    <3>1. Held(t)' # {} => Len(s) # 1
      <4>1. Len(s) = 1 => 1 .. Len(Tail(s)) = {}
        <5>1. Len(s) = 1 => Len(Tail(s)) = 0
          BY <1>4
        <5>2. 1 .. 0 = {}
          OBVIOUS
        <5> QED  BY <5>1, <5>2
      <4> QED  BY <2>4, <4>1 DEF Ptrs
    <3> QED  BY <1>1, <1>2, <1>7, <3>1, AdvanceFacts
  <2>9. Filled(t)' = {}
    BY <1>12 DEF Filled
  <2> QED  BY <1>1, <1>2, <1>5, <1>10, <2>3, <2>6, <2>7, <2>8, <2>9, SubmitKeeps
<1> QED  BY <1>6, <1>9, <1>10, <1>11, <1>13, <1>14, Closing

LEMMA StreamRunKeeps ==
    ASSUME IInv, NEW d \in Devices, StreamRun(d) PROVE IInv'
<1>1. Types /\ \A t \in Threads : Place(t)
  BY DEF IInv
<1>2. queue[d] \in Seq(Work) /\ queue[d] # <<>> /\ Head(queue[d]) = queue[d][1]
  <2>1. queue[d] \in Seq(Work) /\ queue[d] # <<>>
    BY <1>1, QueueFacts DEF StreamRun
  <2> QED  BY <2>1, HeadTailProperties
<1>3. Popped(d)
  BY <1>2 DEF StreamRun, Popped
<1>4. UNCHANGED <<g_memcpy_mutex, pc, call, scratch, part, cells, refused, pool, strayed, status>>
  BY DEF StreamRun
<1>5. Types'
  BY <1>1, <1>3, <1>4, PoppedFacts DEF Types
<1>6. \A t \in Threads : Filled(t) # {} => call[t] \in CallType
  BY <1>1 DEF Place, Outside, Inside, Filled
<1>7. strayed' \/ Core'
  BY <1>1, <1>3, <1>4, <1>6, PopKeeps DEF IInv
<1>8. \A t \in Threads : Place(t)'
  BY <1>1, <1>4 DEF Place, Outside, Inside, InKernel
<1>9. PoolCovered' /\ KernelsChecked'
  BY <1>1, <1>3, <1>4, PopChecked DEF IInv, PoolCovered
<1> QED  BY <1>5, <1>7, <1>8, <1>9 DEF IInv

(* Nothing runs and nothing waits.                                           *)
Quiet ==
    /\ g_memcpy_mutex = NoThread
    /\ pc = [t \in Threads |-> "idle"] /\ call = [t \in Threads |-> NoCall]
    /\ scratch = [t \in Threads |-> <<>>] /\ part = [t \in Threads |-> 0]
    /\ cells = [t \in Threads |-> {}] /\ refused = [t \in Threads |-> {}]
    /\ pool = {} /\ contents = [c \in Cells |-> NoMeta] /\ queue = [d \in Devices |-> <<>>]
    /\ strayed \in BOOLEAN /\ status \in {"running", "aborted"}

LEMMA QuietInvariant == Quiet => IInv
<1> SUFFICES ASSUME Quiet PROVE IInv
  OBVIOUS
<1>1. Types
  <2>1. <<>> \in Seq(Pointers) /\ <<>> \in Seq(Work) /\ "idle" \in Steps
    BY DEF Steps
  <2> QED  BY <2>1 DEF Quiet, Types
<1>2. \A t \in Threads : Outside(t) /\ pc[t] = "idle"
  BY DEF Quiet, Outside
<1>3. \A t \in Threads : Place(t)
  BY <1>2, CopyAssumption DEF Quiet, Place
<1>4. \A d \in Devices : 1 .. Len(queue[d]) = {}
  BY DEF Quiet
<1>5. PoolCovered /\ KernelsChecked
  BY <1>4 DEF Quiet, PoolCovered, KernelsChecked
<1>6. \A t \in Threads : Held(t) = {} /\ Filled(t) = {} /\ Distinct(t)
  BY <1>2, OutsideFacts
<1>7. Core
  BY <1>4, <1>6 DEF Core, PoolHeld, Alone, KernelsHold, CallsHold, QueueUses, Quiet
<1> QED  BY <1>1, <1>3, <1>5, <1>7 DEF IInv

LEMMA RefusedCheckedKeeps ==
    ASSUME IInv, NEW t \in Threads, RefusedChecked(t) PROVE IInv'
<1>1. Quiet'
  BY DEF IInv, Types, RefusedChecked, Quiet
<1> QED  BY <1>1, QuietInvariant, PTL

LEMMA StutterKeeps == IInv /\ UNCHANGED vars => IInv'
<1> SUFFICES ASSUME IInv, UNCHANGED vars PROVE IInv'
  OBVIOUS
<1>1. Types' /\ \A t \in Threads : Place(t)'
  BY DEF vars, IInv, Types, Place, Outside, Inside, InKernel
<1>2. \A t \in Threads : Held(t)' = Held(t) /\ Filled(t)' = Filled(t) /\ Distinct(t)' = Distinct(t)
  BY DEF vars, Held, Filled, Distinct
<1>3. queue' = queue /\ contents' = contents /\ call' = call /\ pool' = pool /\ strayed' = strayed /\ scratch' = scratch
  BY DEF vars
<1>4. PoolCovered' /\ KernelsChecked'
  BY <1>3 DEF IInv, PoolCovered, KernelsChecked
<1>5. strayed' \/ Core'
  <2> SUFFICES ASSUME Core PROVE Core'
    BY <1>3 DEF IInv
  <2>1. PoolHeld'
    BY <1>2, <1>3 DEF Core, PoolHeld
  <2>2. Alone'
    BY <1>2, <1>3 DEF Core, Alone, QueueUses
  <2>3. KernelsHold'
    BY <1>3 DEF Core, KernelsHold, Holds
  <2>4. CallsHold'
    BY <1>2, <1>3 DEF Core, CallsHold, Holds
  <2> QED  BY <2>1, <2>2, <2>3, <2>4 DEF Core
<1> QED  BY <1>1, <1>4, <1>5 DEF IInv

LEMMA InitInvariant == Init => IInv
<1>1. Init => Quiet
  BY DEF Init, Quiet
<1> QED  BY <1>1, QuietInvariant

LEMMA StepInvariant == IInv /\ [Next]_vars => IInv'
<1> SUFFICES ASSUME IInv, [Next]_vars PROVE IInv'
  OBVIOUS
<1>1. ASSUME NEW t \in Threads, MemcpyAsync(t) \/ Kernel(t) \/ Step(t) PROVE IInv'
  BY <1>1, MemcpyAsyncKeeps, KernelKeeps, LockKeeps, UnlockKeeps, CopyBeginKeeps, CopyRefusedKeeps,
     CopyEndKeeps, McMallocAsyncKeeps, OutOfMemoryKeeps, RefusedCheckedKeeps, LaunchKeeps,
     McFreeAsyncKeeps DEF Step
<1> QED  BY <1>1, StutterKeeps, StreamRunKeeps DEF Next

-----------------------------------------------------------------------------
(* Theorems.                                                                 *)

(* The invariant always holds: the pool has nothing out that no call will    *)
(* free, no kernel that checks waits without all of its uploads, and, until  *)
(* an unset pointer has met a buffer, every buffer out is held by one call   *)
(* and what the streams have still to do leaves in each uploaded part what   *)
(* its kernel must find.                                                     *)
THEOREM Invariance == Spec => []IInv
<1> QED  BY InitInvariant, StepInvariant, PTL DEF Spec

LEMMA TypesAreOK == IInv => TypeOK
<1> SUFFICES ASSUME IInv PROVE TypeOK
  OBVIOUS
<1>1. Types /\ \A t \in Threads : Place(t)
  BY DEF IInv
<1>2. ASSUME NEW t \in Threads
      PROVE  /\ pc[t] # "idle" => call[t] \in CallType
             /\ scratch[t] \in Seq(Pointers)
             /\ pc[t] = "idle" => scratch[t] = <<>> /\ cells[t] = {}
             /\ refused[t] \subseteq cells[t] /\ cells[t] \subseteq Pointers \X Parts
  <2>1. CASE Outside(t)
    BY <1>1, <2>1 DEF Outside, Types
  <2>2. CASE Inside(t)
    <3>1. refused[t] \subseteq cells[t] /\ pc[t] # "idle" /\ call[t] \in CallType
      BY <2>2 DEF Inside
    <3> QED  BY <1>1, <3>1 DEF Types, Places
  <2> QED  BY <1>1, <2>1, <2>2 DEF Place
<1>3. \A d \in Devices : \A i \in DOMAIN queue[d] : queue[d][i] \in Work
  BY <1>1, QueueFacts
<1> QED  BY <1>1, <1>2, <1>3 DEF TypeOK, Types

(* A kernel that a stream is about to run finds its own metadata in each     *)
(* part of its scratch buffers that was uploaded, whatever other calls have  *)
(* done with them since; if it checks what the driver returns, every part    *)
(* was.                                                                      *)
THEOREM KernelsFindTheirMetadata == Spec => []KernelsReadTheirMetadata
<1>1. IInv => KernelsReadTheirMetadata
  <2> SUFFICES ASSUME IInv, NEW d \in Devices, queue[d] # <<>>, NEW w, w = Head(queue[d]),
                      w.op = "kernel"
               PROVE  /\ w.checked => w.refused = {}
                      /\ ~ strayed => \A c \in w.cells \ w.refused : c \in Cells /\ contents[c] = w.meta
    BY TypesAreOK DEF KernelsReadTheirMetadata
  <2>1. Types /\ queue[d] \in Seq(Work) /\ Len(queue[d]) \in Nat
    BY QueueFacts DEF IInv
  <2>2. w = queue[d][1] /\ 1 \in 1 .. Len(queue[d]) /\ w \in Work
    BY <2>1, EmptySeq, HeadTailProperties
  <2>3. w.checked => w.refused = {}
    BY <2>2 DEF IInv, KernelsChecked
  <2>4. ASSUME ~ strayed, NEW c \in w.cells \ w.refused PROVE c \in Cells /\ contents[c] = w.meta
    <3>1. c \in Places
      BY <2>2 DEF Work, Places
    <3>2. c \in Cells /\ Holds(d, c, 1 - 1, w.meta)
      BY <2>2, <2>4, <3>1 DEF IInv, Core, KernelsHold
    <3>3. 1 .. 1 - 1 = {}
      OBVIOUS
    <3> QED  BY <3>2, <3>3 DEF Holds
  <2> QED  BY <2>3, <2>4
<1> QED  BY <1>1, Invariance, PTL

(* While no call runs, no scratch buffer is out, even after an unset pointer *)
(* was freed.                                                                *)
THEOREM AllScratchComesBack == Spec => []ScratchReturned
<1>1. IInv => ScratchReturned
  <2> SUFFICES ASSUME IInv, \A t \in Threads : Idle(t) PROVE pool = {}
    BY DEF ScratchReturned
  <2>1. ASSUME NEW t \in Threads PROVE Ptrs(scratch[t]) = {}
    <3>1. Place(t) /\ pc[t] = "idle"
      BY DEF IInv, Idle
    <3>2. Outside(t)
      BY <3>1 DEF Place, Inside
    <3> QED  BY <3>2, OutsideFacts
  <2> QED  BY <2>1 DEF IInv, PoolCovered
<1> QED  BY <1>1, Invariance, PTL

(* With the workarounds on, two MemcpyAsync calls are never in the driver    *)
(* together, and no call returns with the mutex.                             *)
THEOREM CopiesOneByOne == Spec => []GuardCopiesSerialized
<1>1. IInv => GuardCopiesSerialized
  <2> SUFFICES ASSUME IInv, MultithreadWorkarounds, NEW t \in Threads, NEW u \in Threads
               PROVE  /\ Copying(t) /\ Copying(u) /\ t # u => InKernel(t) \/ InKernel(u)
                      /\ Idle(t) => g_memcpy_mutex # t
    BY DEF GuardCopiesSerialized
  <2>1. \A v \in Threads : Copying(v) => InKernel(v) \/ g_memcpy_mutex = v
    BY DEF Copying, At, IInv, Place
  <2>2. Idle(t) => g_memcpy_mutex # t
    BY DEF Idle, IInv, Place
  <2> QED  BY <2>1, <2>2
<1> QED  BY <1>1, Invariance, PTL
=============================================================================
