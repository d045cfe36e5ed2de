------------------------------- MODULE MacaCopy -------------------------------
(***************************************************************************)
(* Asynchronous copies and the kernels that upload their own metadata.     *)
(*                                                                         *)
(* MacaGuardImpl::MemcpyAsync holds g_memcpy_mutex around mcMemcpyAsync    *)
(* when the multithread workarounds are on.  Slice, gather, concat, split, *)
(* stack and transpose (kernels/ *.maca) allocate scratch memory on the    *)
(* stream of their device, upload shapes or pointers to it part by part,   *)
(* launch and free it, all in the stream's order and without waiting for   *)
(* it; they call the driver themselves.  Gather and concat check what the  *)
(* driver returns, the others go on, whatever it was.                      *)
(***************************************************************************)
EXTENDS Integers, Sequences, FiniteSets

CONSTANTS
    Threads,                    \* host threads
    Devices,                    \* devices, each with its default stream
    Buffers,                    \* scratch addresses of the driver's pool
    Metas,                      \* what a kernel may be told about its tensors
    MaxParts,                   \* bound on the uploads to one buffer (5 in slice)
    MaxQueue,                   \* bound on the work waiting in a stream
    MultithreadWorkarounds,     \* g_multithread_workarounds
    NoThread, NoBuffer, NoMeta, NoCall

ASSUME CopyAssumption ==
    /\ MultithreadWorkarounds \in BOOLEAN
    /\ MaxParts \in Nat /\ MaxQueue \in Nat
    /\ NoThread \notin Threads /\ NoBuffer \notin Buffers /\ NoMeta \notin Metas

Parts == 1 .. MaxParts
Cells == Buffers \X Parts       \* the parts of the scratch buffers

VARIABLES
    g_memcpy_mutex,     \* the thread that holds it, or NoThread
    pc,                 \* thread -> the step its call makes next, or "idle"
    call,               \* thread -> what its call is about
    scratch,            \* thread -> pointers its call has still to free, in order
    part,               \* thread -> parts uploaded to the newest of them
    cells,              \* thread -> parts its kernel is told to read
    refused,            \* thread -> those of them whose upload failed unchecked
    pool,               \* driver: buffers handed out and not freed by a call
    contents,           \* driver: part of a buffer -> metadata it holds
    queue,              \* driver: device -> work waiting in its stream
    strayed,            \* an unset pointer happened to be a buffer's address
    status              \* "running" or "aborted"

vars == <<g_memcpy_mutex, pc, call, scratch, part, cells, refused, pool, contents,
          queue, strayed, status>>

-----------------------------------------------------------------------------
(* The order of a call's steps: what follows a step.  A driver call that     *)
(* copies is two steps, since other threads may enter the driver before it   *)
(* has returned.                                                             *)

MemcpyAsyncBodyUnlocked(step) ==
    CASE step = "idle"      -> "copyBegin"
      [] step = "copyBegin" -> "copyEnd"
      [] OTHER              -> "idle"

MemcpyAsyncBody(step) ==
    CASE step = "idle"      -> IF MultithreadWorkarounds THEN "lock" ELSE "copyBegin"
      [] step = "lock"      -> "copyBegin"
      [] step = "copyBegin" -> "copyEnd"
      [] step = "copyEnd"   -> IF MultithreadWorkarounds THEN "unlock" ELSE "idle"
      [] OTHER              -> "idle"

(* more: parts left to upload to the buffer; next: buffers left to allocate; *)
(* last: the free at hand is the last.                                       *)
KernelBodyFreedFirst(step, more, next, last) ==
    CASE step = "mcMallocAsync" -> "copyBegin"
      [] step = "copyBegin"     -> "copyEnd"
      [] step = "copyEnd"       -> IF more THEN "copyBegin"
                                   ELSE IF next THEN "mcMallocAsync" ELSE "mcFreeAsync"
      [] step = "mcFreeAsync"   -> IF last THEN "launch" ELSE "mcFreeAsync"
      [] OTHER                  -> "idle"

KernelBodyLeak(step, more, next, last) ==
    CASE step = "mcMallocAsync" -> "copyBegin"
      [] step = "copyBegin"     -> "copyEnd"
      [] step = "copyEnd"       -> IF more THEN "copyBegin"
                                   ELSE IF next THEN "mcMallocAsync" ELSE "launch"
      [] step = "launch"        -> "mcFreeAsync"
      [] OTHER                  -> "idle"

KernelBody(step, more, next, last) ==
    CASE step = "mcMallocAsync" -> "copyBegin"
      [] step = "copyBegin"     -> "copyEnd"
      [] step = "copyEnd"       -> IF more THEN "copyBegin"
                                   ELSE IF next THEN "mcMallocAsync" ELSE "launch"
      [] step = "launch"        -> "mcFreeAsync"
      [] OTHER                  -> IF last THEN "idle" ELSE "mcFreeAsync"

-----------------------------------------------------------------------------
Init ==
    /\ g_memcpy_mutex = NoThread
    /\ pc = [t \in Threads |-> "idle"]
    /\ call = [t \in Threads |-> NoCall]
    /\ scratch = [t \in Threads |-> <<>>]
    /\ part = [t \in Threads |-> 0]
    /\ cells = [t \in Threads |-> {}]
    /\ refused = [t \in Threads |-> {}]
    /\ pool = {}
    /\ contents = [c \in Cells |-> NoMeta]
    /\ queue = [d \in Devices |-> <<>>]
    /\ strayed = FALSE
    /\ status = "running"

Idle(t) == status = "running" /\ pc[t] = "idle"

At(t, step) == status = "running" /\ pc[t] = step

InKernel(t) == pc[t] # "idle" /\ call[t].bufs > 0

Following(t) ==
    IF InKernel(t) THEN KernelBody(pc[t], part[t] < call[t].parts,
                                   Len(scratch[t]) < call[t].bufs, Len(scratch[t]) = 1)
    ELSE MemcpyAsyncBody(pc[t])

Advance(t) ==
    /\ pc' = [pc EXCEPT ![t] = Following(t)]
    /\ call' = IF Following(t) = "idle" THEN [call EXCEPT ![t] = NoCall] ELSE call

Submit(d, work) ==
    /\ Len(queue[d]) < MaxQueue
    /\ queue' = [queue EXCEPT ![d] = Append(@, work)]

-----------------------------------------------------------------------------
(* Calls.                                                                    *)

MemcpyAsync(t) ==
    /\ Idle(t)
    /\ pc' = [pc EXCEPT ![t] = MemcpyAsyncBody("idle")]
    /\ \E d \in Devices :
         call' = [call EXCEPT ![t] = [dev |-> d, checked |-> TRUE, bufs |-> 0, parts |-> 1,
                                      meta |-> NoMeta]]
    /\ UNCHANGED <<g_memcpy_mutex, scratch, part, cells, refused, pool, contents, queue,
                   strayed, status>>

(* Concat checks and uploads pointers and offsets to two buffers; gather     *)
(* checks and uploads to each part of one; the others do not check, and      *)
(* upload to one buffer in one part (stack, transpose) or several.           *)
Kernel(t) ==
    /\ Idle(t)
    /\ pc' = [pc EXCEPT ![t] = "mcMallocAsync"]
    /\ \E d \in Devices, c \in BOOLEAN, b \in 1 .. 2, n \in Parts, m \in Metas :
         /\ b = 2 => c /\ n = 1
         /\ b = 1 /\ c => n = MaxParts
         /\ call' = [call EXCEPT ![t] = [dev |-> d, checked |-> c, bufs |-> b, parts |-> n,
                                         meta |-> m]]
    /\ UNCHANGED <<g_memcpy_mutex, scratch, part, cells, refused, pool, contents, queue,
                   strayed, status>>

-----------------------------------------------------------------------------
(* Steps.                                                                    *)

Lock(t) ==
    /\ At(t, "lock")
    /\ g_memcpy_mutex = NoThread
    /\ g_memcpy_mutex' = t
    /\ Advance(t)
    /\ UNCHANGED <<scratch, part, cells, refused, pool, contents, queue, strayed, status>>

Unlock(t) ==
    /\ At(t, "unlock")
    /\ g_memcpy_mutex' = NoThread
    /\ Advance(t)
    /\ UNCHANGED <<scratch, part, cells, refused, pool, contents, queue, strayed, status>>

(* The copy of a kernel fills the next part of its newest buffer; that of    *)
(* MemcpyAsync is about tensors, which are not modelled.                     *)
Newest(t) == scratch[t][Len(scratch[t])]

Target(t) == IF InKernel(t) THEN {<<Newest(t), part[t] + 1>>} ELSE {}

(* The kernel will be told of the part, whatever became of its upload.       *)
Told(t) ==
    /\ cells' = [cells EXCEPT ![t] = @ \cup Target(t)]
    /\ part' = IF InKernel(t) THEN [part EXCEPT ![t] = @ + 1] ELSE part

CopyBegin(t) ==
    /\ At(t, "copyBegin")
    /\ Target(t) \subseteq Cells
    /\ Submit(call[t].dev, [op |-> "copy", cells |-> Target(t), meta |-> call[t].meta,
                            checked |-> call[t].checked, refused |-> {}])
    /\ Told(t)
    /\ Advance(t)
    /\ UNCHANGED <<g_memcpy_mutex, scratch, refused, pool, contents, strayed, status>>

(* The driver may refuse a copy, and has no other choice when it is given no *)
(* buffer.  Where the result is not checked the call goes on.                *)
CopyRefused(t) ==
    /\ At(t, "copyBegin") /\ ~ call[t].checked
    /\ refused' = [refused EXCEPT ![t] = @ \cup Target(t)]
    /\ Told(t)
    /\ Advance(t)
    /\ UNCHANGED <<g_memcpy_mutex, scratch, pool, contents, queue, strayed, status>>

CopyEnd(t) ==
    /\ At(t, "copyEnd")
    /\ Advance(t)
    /\ UNCHANGED <<g_memcpy_mutex, scratch, part, cells, refused, pool, contents, queue,
                   strayed, status>>

(* The pool hands out a buffer that a call has freed at once to the stream   *)
(* it was freed on, to another when that stream has no work on it any more.  *)
Uses(work, b) == \E c \in work.cells : c[1] = b

Available(b, d) ==
    /\ b \notin pool
    /\ \A e \in Devices \ {d} : \A i \in DOMAIN queue[e] : ~ Uses(queue[e][i], b)

McMallocAsync(t) ==
    /\ At(t, "mcMallocAsync")
    /\ \E b \in Buffers :
         /\ Available(b, call[t].dev)
         /\ pool' = pool \cup {b}
         /\ scratch' = [scratch EXCEPT ![t] = Append(@, b)]
    /\ part' = [part EXCEPT ![t] = 0]
    /\ Advance(t)
    /\ UNCHANGED <<g_memcpy_mutex, cells, refused, contents, queue, strayed, status>>

(* Where the result is not checked, the pointer keeps what the stack held    *)
(* where it was declared: some address, which may be that of a buffer.       *)
OutOfMemoryUnchecked(t) ==
    /\ At(t, "mcMallocAsync") /\ ~ call[t].checked
    /\ \E b \in Buffers \cup {NoBuffer} :
         /\ scratch' = [scratch EXCEPT ![t] = Append(@, b)]
         /\ strayed' = (strayed \/ b \in Buffers)
    /\ part' = [part EXCEPT ![t] = 0]
    /\ Advance(t)
    /\ UNCHANGED <<g_memcpy_mutex, cells, refused, pool, contents, queue, status>>

(* Whatever the driver refuses aborts the process where it is checked, and   *)
(* all that the process had is gone with it.                                 *)
RefusedChecked(t) ==
    /\ At(t, "mcMallocAsync") \/ At(t, "copyBegin")
    /\ call[t].checked
    /\ status' = "aborted"
    /\ g_memcpy_mutex' = NoThread
    /\ pc' = [u \in Threads |-> "idle"] /\ call' = [u \in Threads |-> NoCall]
    /\ scratch' = [u \in Threads |-> <<>>] /\ part' = [u \in Threads |-> 0]
    /\ cells' = [u \in Threads |-> {}] /\ refused' = [u \in Threads |-> {}]
    /\ pool' = {} /\ contents' = [c \in Cells |-> NoMeta]
    /\ queue' = [d \in Devices |-> <<>>]
    /\ UNCHANGED strayed

Launch(t) ==
    /\ At(t, "launch")
    /\ Submit(call[t].dev, [op |-> "kernel", cells |-> cells[t], meta |-> call[t].meta,
                            checked |-> call[t].checked, refused |-> refused[t]])
    /\ part' = [part EXCEPT ![t] = 0]
    /\ cells' = [cells EXCEPT ![t] = {}] /\ refused' = [refused EXCEPT ![t] = {}]
    /\ Advance(t)
    /\ UNCHANGED <<g_memcpy_mutex, scratch, pool, contents, strayed, status>>

(* The stream's own free is work too.                                        *)
McFreeAsync(t) ==
    /\ At(t, "mcFreeAsync")
    /\ LET b == Head(scratch[t])
       IN  /\ Submit(call[t].dev, [op |-> "free", cells |-> {b} \X Parts, meta |-> NoMeta,
                                   checked |-> call[t].checked, refused |-> {}])
           /\ pool' = pool \ {b}
    /\ scratch' = [scratch EXCEPT ![t] = Tail(@)]
    /\ Advance(t)
    /\ UNCHANGED <<g_memcpy_mutex, part, cells, refused, contents, strayed, status>>

(* A stream does its work in order.  What a freed buffer holds is nobody's.  *)
Writes(work, c) == work.op \in {"copy", "free"} /\ c \in work.cells

StreamRun(d) ==
    /\ status = "running"
    /\ queue[d] # <<>>
    /\ LET work == Head(queue[d])
       IN  contents' = [c \in Cells |-> IF Writes(work, c) THEN work.meta ELSE contents[c]]
    /\ queue' = [queue EXCEPT ![d] = Tail(@)]
    /\ UNCHANGED <<g_memcpy_mutex, pc, call, scratch, part, cells, refused, pool, strayed, status>>

-----------------------------------------------------------------------------
Step(t) == \/ Lock(t) \/ Unlock(t) \/ CopyBegin(t) \/ CopyRefused(t) \/ CopyEnd(t)
           \/ McMallocAsync(t) \/ OutOfMemoryUnchecked(t) \/ RefusedChecked(t)
           \/ Launch(t) \/ McFreeAsync(t)

Next == \/ \E t \in Threads : MemcpyAsync(t) \/ Kernel(t) \/ Step(t)
        \/ \E d \in Devices : StreamRun(d)

Spec == Init /\ [][Next]_vars
-----------------------------------------------------------------------------
(* Properties.                                                               *)

Pointers == Buffers \cup {NoBuffer}

Work == [op : {"copy", "kernel", "free"}, cells : SUBSET (Pointers \X Parts),
         meta : Metas \cup {NoMeta}, checked : BOOLEAN, refused : SUBSET (Pointers \X Parts)]

CallType == [dev : Devices, checked : BOOLEAN, bufs : 0 .. 2, parts : Nat,
             meta : Metas \cup {NoMeta}]

(* Every variable has its type; scratch belongs to calls that launch.        *)
TypeOK ==
    /\ g_memcpy_mutex \in Threads \cup {NoThread}
    /\ \A t \in Threads :
         /\ pc[t] # "idle" => call[t] \in CallType
         /\ scratch[t] \in Seq(Pointers)
         /\ pc[t] = "idle" => scratch[t] = <<>> /\ cells[t] = {}
         /\ refused[t] \subseteq cells[t] /\ cells[t] \subseteq Pointers \X Parts
    /\ pool \subseteq Buffers
    /\ contents \in [Cells -> Metas \cup {NoMeta}]
    /\ \A d \in Devices : \A i \in DOMAIN queue[d] : queue[d][i] \in Work
    /\ strayed \in BOOLEAN /\ status \in {"running", "aborted"}

(* A kernel that a stream is about to run finds in every part it was told to *)
(* read the metadata of its own launch, although its call has returned and   *)
(* freed the buffers, and other calls have been given them since.  One that  *)
(* checks what the driver returns never runs without its metadata; one that  *)
(* does not may run over the parts whose upload was refused, and only over   *)
(* those, until an unset pointer has met another call's buffer.              *)
KernelsReadTheirMetadata ==
    /\ TypeOK
    /\ \A d \in Devices :
         queue[d] # <<>> /\ Head(queue[d]).op = "kernel" =>
             LET work == Head(queue[d])
             IN  /\ work.checked => work.refused = {}
                 /\ ~ strayed => \A c \in work.cells \ work.refused :
                                      c \in Cells /\ contents[c] = work.meta

(* No call leaves a scratch buffer behind: while no call runs, the pool has  *)
(* handed out nothing.                                                       *)
ScratchReturned == (\A t \in Threads : Idle(t)) => pool = {}

Copying(t) == At(t, "copyEnd")

(* With the workarounds on, two MemcpyAsync calls are never in the driver    *)
(* together, and no thread keeps the mutex when its call returns.            *)
GuardCopiesSerialized ==
    MultithreadWorkarounds =>
        \A t, u \in Threads :
            /\ Copying(t) /\ Copying(u) /\ t # u => InKernel(t) \/ InKernel(u)
            /\ Idle(t) => g_memcpy_mutex # t

(* With the workarounds on, asynchronous copies are serialized across        *)
(* threads: no two threads are in mcMemcpyAsync together.                    *)
AllCopiesSerialized ==
    MultithreadWorkarounds =>
        \A t, u \in Threads : Copying(t) /\ Copying(u) => t = u
=============================================================================
