--------------------------- MODULE MacaDeviceContext ---------------------------
(***************************************************************************)
(* The lazily built context of the MACA runtime                            *)
(* (runtime/maca_guard_impl.cc): Initialize, the default stream and the    *)
(* BLAS handle of each device, and the current device of each host thread. *)
(*                                                                         *)
(* todo[t] holds the steps a thread has still to make.  std::call_once     *)
(* puts the steps of its function in front of them in the one thread that  *)
(* runs it; the others wait until it is done.  A driver call that depends  *)
(* on the current device sees the calling thread's.                        *)
(*                                                                         *)
(* Nothing but Initialize initialises: the other calls look at the vectors *)
(* as they are, in the middle of Initialize of another thread too, and a   *)
(* check that fails or an at() out of range aborts the process.            *)
(***************************************************************************)
EXTENDS Integers, Sequences, FiniteSets

CONSTANTS
    Threads,            \* host threads
    DeviceCount         \* number of MACA devices

ASSUME ContextAssumption == DeviceCount \in Nat \ {0}

VARIABLES
    FLAGS,              \* --maca_multithread_workarounds, --maca_retain_async_pool
    captured,           \* g_multithread_workarounds, g_retain_async_pool
    once,               \* call_once flag -> "fresh", "running" or "done"
    g_maca_streams,     \* vector: device -> its default stream, or Null
    g_maca_blas_handles,\* vector: device -> its BLAS handle, or Null
    threshold,          \* driver: device -> release threshold of its pool
    device,             \* thread -> its current device
    todo,               \* thread -> steps still to make
    target,             \* thread -> device its call is about
    created,            \* thread -> stream CreateStream is about to return
    saved,              \* thread -> devices to go back to, innermost first
    chosen,             \* history: thread -> device its caller put it on
    given,              \* history: a caller has been given a stream
    modes,              \* history: allocator modes that calls have used
    aborted             \* the process has aborted

state == <<FLAGS, captured, once, g_maca_streams, g_maca_blas_handles, threshold,
           device, todo, target, created, saved, chosen, given, modes>>
vars == <<state, aborted>>

Devices == 0 .. DeviceCount - 1

Null == [dev |-> -1]

Streams == [dev : Devices]

Flags == [workarounds : BOOLEAN, retain : BOOLEAN]

(* The call_once flags: one of the process, two of each device, which there  *)
(* are none of ("none") until Initialize has made them.                      *)
InitFlag == <<"initialize", 0>>
StreamFlag(d) == <<"stream", d>>
HandleFlag(d) == <<"handle", d>>
OnceFlags == {InitFlag} \cup ({"stream", "handle"} \X Devices)

-----------------------------------------------------------------------------
(* Bodies.  "enter" saves the current device and sets the target's,          *)
(* "restore" sets the saved one.                                             *)

InitializeBodyCapturesLast == <<"resize", "makeFlags", "capture", "initialized">>
InitializeBody == <<"capture", "resize", "makeFlags", "initialized">>

InitSingleStreamBodyCircular ==
    <<"enter", "createDefault", "onceHandle", "retainPool", "restore", "streamReady">>
InitSingleStreamBodyHere == <<"createDefault", "retainPool", "streamReady">>
InitSingleStreamBody ==
    <<"enter", "createDefault", "retainPool", "restore", "streamReady">>

InitSingleHandleBodyEager ==
    <<"enter", "onceStream", "createHandle", "handleReady">>
InitSingleHandleBody ==
    <<"enter", "onceStream", "createHandle", "restore", "handleReady">>

GetStreamBodyUnready == <<"gotStream">>
GetStreamBody == <<"onceStream", "gotStream">>

GetBlasHandleBody == <<"onceHandle", "gotHandle">>

CreateStreamBody == <<"enter", "create", "restore", "gotCreated">>

(* ResetMemPoolHighWatermarks and GetMemPoolPeakMB switch in the same way.   *)
SynchronizeDeviceBody == <<"enter", "restore">>

-----------------------------------------------------------------------------
Init ==
    /\ FLAGS \in Flags
    /\ captured = [workarounds |-> FALSE, retain |-> FALSE]
    /\ once = [f \in OnceFlags |-> IF f = InitFlag THEN "fresh" ELSE "none"]
    /\ g_maca_streams = [d \in {} |-> Null]
    /\ g_maca_blas_handles = [d \in {} |-> Null]
    /\ threshold = [d \in Devices |-> 0]
    /\ device = [t \in Threads |-> 0]
    /\ todo = [t \in Threads |-> <<>>]
    /\ target = [t \in Threads |-> 0]
    /\ created = [t \in Threads |-> Null]
    /\ saved = [t \in Threads |-> <<>>]
    /\ chosen = [t \in Threads |-> 0]
    /\ given = FALSE
    /\ modes = {}
    /\ aborted = FALSE

At(t, step) == todo[t] # <<>> /\ Head(todo[t]) = step

(* The step is done; a call that has no step left returns.                   *)
Advance(t) ==
    /\ todo' = [todo EXCEPT ![t] = Tail(@)]
    /\ target' = IF Tail(todo[t]) = <<>> THEN [target EXCEPT ![t] = 0] ELSE target

(* Variables most steps leave alone.                                         *)
objects == <<g_maca_streams, g_maca_blas_handles, threshold, created>>
history == <<chosen, given, modes>>

-----------------------------------------------------------------------------
(* Calls.                                                                    *)

Initialize(t) ==
    /\ todo[t] = <<>>
    /\ todo' = [todo EXCEPT ![t] = <<"onceInitialize">>]
    /\ UNCHANGED <<FLAGS, captured, once, objects, device, target, saved, history>>

(* CheckMacaDevice.                                                          *)
Known(d) == d \in DOMAIN g_maca_streams

Begin(t, body) ==
    /\ todo[t] = <<>>
    /\ todo' = [todo EXCEPT ![t] = body]
    /\ \E d \in Devices : Known(d) /\ target' = [target EXCEPT ![t] = d]
    /\ UNCHANGED <<FLAGS, captured, once, objects, device, saved, history>>

GetStream(t) == Begin(t, GetStreamBody)

GetBlasHandle(t) == Begin(t, GetBlasHandleBody)

CreateStream(t) == Begin(t, CreateStreamBody)

SynchronizeDevice(t) == Begin(t, SynchronizeDeviceBody)

SetDevice(t) ==
    /\ todo[t] = <<>>
    /\ \E d \in Devices : /\ Known(d)
                          /\ device' = [device EXCEPT ![t] = d]
                          /\ chosen' = [chosen EXCEPT ![t] = d]
    /\ UNCHANGED <<FLAGS, captured, once, objects, todo, target, saved, given, modes>>

(* MallocAsync and FreeAsync choose their implementation by the captured     *)
(* flag.  MallocAsync has no use for the stream under the workarounds, and   *)
(* neither asks whether Initialize has run.                                  *)
AllocatorMode == captured.workarounds

UseMode(t) ==
    /\ todo[t] = <<>>
    /\ modes' = modes \cup {AllocatorMode}
    /\ UNCHANGED <<FLAGS, captured, once, objects, device, todo, target, saved,
                   chosen, given>>

MallocAsync(t) == (AllocatorMode \/ given) /\ UseMode(t)

FreeAsync(t) == given /\ UseMode(t)

(* A device out of the vector's range, no stream where one is needed, a      *)
(* call_once flag that is not made yet.                                      *)
Abort(t) ==
    /\ \/ todo[t] = <<>> /\ \E d \in Devices : ~Known(d)
       \/ todo[t] = <<>> /\ ~AllocatorMode
       \/ At(t, "onceStream") /\ once[StreamFlag(target[t])] = "none"
       \/ At(t, "onceHandle") /\ once[HandleFlag(target[t])] = "none"
    /\ aborted' = TRUE
    /\ UNCHANGED state

(* The application assigns a flag, before or after the first use.            *)
AssignFlags ==
    /\ FLAGS' \in Flags \ {FLAGS}
    /\ UNCHANGED <<captured, once, objects, device, todo, target, saved, history>>

-----------------------------------------------------------------------------
(* std::call_once.                                                           *)

Runs(f) == once[f] = "fresh"
Enters(f) == once[f] = "done"

CallOnce(t, step, f, body) ==
    /\ At(t, step)
    /\ \/ /\ Runs(f)
          /\ once' = [once EXCEPT ![f] = "running"]
          /\ todo' = [todo EXCEPT ![t] = body \o Tail(@)]
          /\ UNCHANGED target
       \/ /\ Enters(f)
          /\ Advance(t)
          /\ UNCHANGED once
    /\ UNCHANGED <<FLAGS, captured, objects, device, saved, history>>

OnceInitialize(t) == CallOnce(t, "onceInitialize", InitFlag, InitializeBody)

OnceStream(t) ==
    CallOnce(t, "onceStream", StreamFlag(target[t]), InitSingleStreamBody)

OnceHandle(t) ==
    CallOnce(t, "onceHandle", HandleFlag(target[t]), InitSingleHandleBody)

(* The thread is at a call_once whose function another thread, or an outer   *)
(* call of its own, is running.                                              *)
Waits(t) ==
    \/ At(t, "onceInitialize") /\ once[InitFlag] = "running"
    \/ At(t, "onceStream") /\ once[StreamFlag(target[t])] = "running"
    \/ At(t, "onceHandle") /\ once[HandleFlag(target[t])] = "running"

Done(t, step, f) ==
    /\ At(t, step)
    /\ once' = [once EXCEPT ![f] = "done"]
    /\ Advance(t)
    /\ UNCHANGED <<FLAGS, captured, objects, device, saved, history>>

Initialized(t) == Done(t, "initialized", InitFlag)

StreamReady(t) == Done(t, "streamReady", StreamFlag(target[t]))

HandleReady(t) == Done(t, "handleReady", HandleFlag(target[t]))

-----------------------------------------------------------------------------
(* Steps of the bodies.                                                      *)

Capture(t) ==
    /\ At(t, "capture")
    /\ captured' = FLAGS
    /\ Advance(t)
    /\ UNCHANGED <<FLAGS, once, objects, device, saved, history>>

(* The vectors get one empty slot for each device ...                        *)
Resize(t) ==
    /\ At(t, "resize")
    /\ g_maca_streams' = [d \in Devices |-> Null]
    /\ g_maca_blas_handles' = [d \in Devices |-> Null]
    /\ Advance(t)
    /\ UNCHANGED <<FLAGS, captured, once, created, threshold,
                   device, saved, history>>

(* ... and each device its two flags, in the devices' order.                 *)
MakeFlags(t) ==
    /\ At(t, "makeFlags")
    /\ \/ \E d \in Devices :
             /\ once[StreamFlag(d)] = "none"
             /\ \A e \in 0 .. d - 1 : once[StreamFlag(e)] # "none"
             /\ once' = [once EXCEPT ![StreamFlag(d)] = "fresh", ![HandleFlag(d)] = "fresh"]
             /\ UNCHANGED <<todo, target>>
       \/ /\ \A d \in Devices : once[StreamFlag(d)] # "none"
          /\ Advance(t)
          /\ UNCHANGED once
    /\ UNCHANGED <<FLAGS, captured, objects, device, saved, history>>

Enter(t) ==
    /\ At(t, "enter")
    /\ saved' = [saved EXCEPT ![t] = <<device[t]>> \o @]
    /\ device' = [device EXCEPT ![t] = target[t]]
    /\ Advance(t)
    /\ UNCHANGED <<FLAGS, captured, once, objects, history>>

Restore(t) ==
    /\ At(t, "restore")
    /\ device' = [device EXCEPT ![t] = Head(saved[t])]
    /\ saved' = [saved EXCEPT ![t] = Tail(@)]
    /\ Advance(t)
    /\ UNCHANGED <<FLAGS, captured, once, objects, history>>

CreateDefault(t) ==
    /\ At(t, "createDefault")
    /\ g_maca_streams' = [g_maca_streams EXCEPT ![target[t]] = [dev |-> device[t]]]
    /\ Advance(t)
    /\ UNCHANGED <<FLAGS, captured, once, created, g_maca_blas_handles, threshold,
                   device, saved, history>>

RetainedThreshold == 1

RetainPool(t) ==
    /\ At(t, "retainPool")
    /\ threshold' = IF captured.retain
                    THEN [threshold EXCEPT ![target[t]] = RetainedThreshold]
                    ELSE threshold
    /\ Advance(t)
    /\ UNCHANGED <<FLAGS, captured, once, created, g_maca_streams, g_maca_blas_handles,
                   device, saved, history>>

(* The handle is bound to the stream it is given.                            *)
CreateHandle(t) ==
    /\ At(t, "createHandle")
    /\ g_maca_blas_handles' = [g_maca_blas_handles EXCEPT ![target[t]] =
          [dev |-> device[t], stream |-> g_maca_streams[target[t]]]]
    /\ Advance(t)
    /\ UNCHANGED <<FLAGS, captured, once, created, g_maca_streams, threshold,
                   device, saved, history>>

Create(t) ==
    /\ At(t, "create")
    /\ created' = [created EXCEPT ![t] = [dev |-> device[t]]]
    /\ Advance(t)
    /\ UNCHANGED <<FLAGS, captured, once, g_maca_streams, g_maca_blas_handles,
                   threshold, device, saved, history>>

(* The call returns the object it was asked for.                             *)
Got(t) ==
    /\ At(t, "gotStream") \/ At(t, "gotHandle") \/ At(t, "gotCreated")
    /\ Advance(t)
    /\ created' = [created EXCEPT ![t] = Null]
    /\ given' = (given \/ ~At(t, "gotHandle"))
    /\ UNCHANGED <<FLAGS, captured, once, g_maca_streams, g_maca_blas_handles,
                   threshold, device, saved, chosen, modes>>

-----------------------------------------------------------------------------
Step(t) == \/ OnceInitialize(t) \/ OnceStream(t) \/ OnceHandle(t)
           \/ Initialized(t) \/ StreamReady(t) \/ HandleReady(t)
           \/ Capture(t) \/ Resize(t) \/ MakeFlags(t) \/ Enter(t) \/ Restore(t)
           \/ CreateDefault(t) \/ RetainPool(t) \/ CreateHandle(t) \/ Create(t) \/ Got(t)

Call(t) == \/ Initialize(t) \/ GetStream(t) \/ GetBlasHandle(t) \/ CreateStream(t)
           \/ SynchronizeDevice(t) \/ SetDevice(t) \/ MallocAsync(t) \/ FreeAsync(t)

Running == /\ AssignFlags \/ \E t \in Threads : Call(t) \/ Step(t)
           /\ UNCHANGED aborted

Next == ~aborted /\ (Running \/ \E t \in Threads : Abort(t))

Spec == Init /\ [][Next]_vars

-----------------------------------------------------------------------------
(* Properties.                                                               *)

(* Every variable has its type.                                              *)
TypeOK ==
    /\ FLAGS \in Flags /\ captured \in Flags
    /\ once \in [OnceFlags -> {"none", "fresh", "running", "done"}]
    /\ \A d \in DOMAIN g_maca_streams :
         /\ g_maca_streams[d] \in Streams \cup {Null}
         /\ g_maca_blas_handles[d] \in [dev : Devices, stream : Streams] \cup {Null}
    /\ threshold \in [Devices -> {0, RetainedThreshold}]
    /\ device \in [Threads -> Devices]
    /\ target \in [Threads -> Devices]
    /\ created \in [Threads -> Streams \cup {Null}]
    /\ \A t \in Threads : saved[t] \in Seq(Devices)
    /\ given \in BOOLEAN /\ modes \subseteq BOOLEAN /\ aborted \in BOOLEAN

(* Every stream and every BLAS handle belongs to the device it was asked     *)
(* for, whatever device the thread that built it was on, and a handle works  *)
(* on the default stream of its device.  So does a stream made on request.   *)
ObjectsOnTheirDevice ==
    /\ TypeOK
    /\ \A d \in DOMAIN g_maca_streams :
         /\ g_maca_streams[d] # Null => g_maca_streams[d].dev = d
         /\ g_maca_blas_handles[d] # Null =>
              /\ g_maca_streams[d] # Null
              /\ g_maca_blas_handles[d] = [dev |-> d, stream |-> g_maca_streams[d]]
    /\ \A t \in Threads : At(t, "gotCreated") => created[t] = [dev |-> target[t]]

(* What GetStream and GetBlasHandle return is built, and when the pool is to *)
(* be retained it is retained before any caller can allocate on the stream.  *)
ReadyWhenReturned ==
    \A t \in Threads :
        /\ At(t, "gotStream") \/ At(t, "gotHandle") => target[t] \in DOMAIN g_maca_streams
        /\ At(t, "gotStream") =>
             /\ g_maca_streams[target[t]] # Null
             /\ captured.retain => threshold[target[t]] = RetainedThreshold
        /\ At(t, "gotHandle") => g_maca_blas_handles[target[t]] # Null

(* Between its calls a thread is on the device its caller put it on.         *)
DeviceKept ==
    \A t \in Threads : todo[t] = <<>> => device[t] = chosen[t] /\ saved[t] = <<>>

(* All allocations and releases of a process use the same implementation,    *)
(* even if the flag is assigned again, and though an allocation does not ask *)
(* whether Initialize has captured the flag: the implementation it would use *)
(* before needs a stream, and no stream is to be had before the capture.     *)
OneMode == Cardinality(modes) <= 1

(* While a thread waits for another's call_once, some thread in a call does  *)
(* not wait: nested as they are, the flags never leave everyone waiting.     *)
SomeoneRuns ==
    (\E t \in Threads : Waits(t)) => \E t \in Threads : todo[t] # <<>> /\ ~Waits(t)
=============================================================================
