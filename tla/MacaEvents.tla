------------------------------ MODULE MacaEvents ------------------------------
(***************************************************************************)
(* Streams and events on request (runtime/maca_guard_impl.cc,              *)
(* runtime/maca_runtime_common.cc): how the threads of a process order the *)
(* work of streams by events, ask for it and wait for it.                  *)
(*                                                                         *)
(* The driver is external.  It carries out the items of a stream (kernels, *)
(* records of events and waits for them) one after another; a wait is for  *)
(* the last record before it was submitted.  Beside it, owed, cover and    *)
(* items[i].after say what the calls promise: the kernels that come before *)
(* whatever is submitted next to a stream, before an event, and before an  *)
(* item.  Streams and events are made before any item is submitted: a new  *)
(* one is unknown to every call made before, so that making it later would *)
(* change nothing.                                                         *)
(***************************************************************************)
EXTENDS Integers, Sequences, FiniteSets

CONSTANTS
    Threads,
    Waiters,        \* the threads to wait and to change their device
    DeviceCount,
    Flags,          \* the EventFlags to consider
    Plans,          \* the streams to make: sequences of [device, priority]
    MaxEvents,      \* bound on the events made
    MaxDestroyed,   \* bound on the streams and events destroyed
    MaxItems        \* bound on the items submitted

ASSUME EventsAssumption ==
    /\ Waiters \subseteq Threads
    /\ DeviceCount \in Nat \ {0}
    /\ Plans \subseteq Seq([device : Nat, priority : BOOLEAN])
    /\ MaxDestroyed \in Nat /\ MaxEvents \in Nat /\ MaxItems \in Nat
    /\ Flags \subseteq {"kDefault", "kBlockingSync", "kDisableTiming", "kInterprocess"}

Devices == 0 .. DeviceCount - 1

VARIABLES
    device,     \* thread -> its current device
    streams,    \* the streams made: [device, priority, blocking, alive]
    events,     \* the events made: [device, flag, timing, last, alive]
    items,      \* the items submitted: [kind, stream, record, after]
    done,       \* the items carried out
    owed,       \* stream -> kernels that come before what is submitted next
    cover,      \* event -> kernels that come before its last record
    call,       \* thread -> what its call waits for, and what its return promises
    status      \* "running", or why the process was aborted

made == <<streams, events>>
vars == <<device, made, items, done, owed, cover, call, status>>

Idle == [in |-> FALSE, waits |-> {}, promise |-> {}]

Items == DOMAIN items
Kernels == {i \in Items : items[i].kind = "kernel"}
OfStream(s) == {i \in Items : items[i].stream = s}
KernelsOf(S) == Kernels \cap UNION {OfStream(s) : s \in S}

(* A thread that may make a call, and what it may name in one.               *)
Running == status = "running"
Free(t) == Running /\ ~call[t].in
Streams == {s \in DOMAIN streams : streams[s].alive}
Events == {e \in DOMAIN events : events[e].alive}

Init ==
    /\ device = [t \in Threads |-> 0]
    /\ streams = <<>> /\ events = <<>> /\ items = <<>> /\ done = {}
    /\ owed = <<>> /\ cover = <<>>
    /\ call = [t \in Threads |-> Idle]
    /\ status = "running"

Aborts(why) == status' = why

-----------------------------------------------------------------------------
(* Streams.  Those with a priority do not block with the default stream.     *)

SetDevice(t, d) ==
    /\ Free(t)
    /\ device[t] # d
    /\ device' = [device EXCEPT ![t] = d]
    /\ UNCHANGED <<made, items, done, owed, cover, call, status>>

Blocking(priority) == ~priority

CreateStream(t, d, priority) ==
    /\ Free(t)
    /\ events = <<>>
    /\ Append([s \in DOMAIN streams |-> [device |-> streams[s].device, priority |-> streams[s].priority]],
              [device |-> d, priority |-> priority]) \in Plans
    /\ streams' = Append(streams, [device |-> d, priority |-> priority,
                                   blocking |-> Blocking(priority), alive |-> TRUE])
    /\ owed' = Append(owed, {})
    /\ UNCHANGED <<device, events, items, done, cover, call, status>>

MayDestroy(t) ==
    /\ Free(t)
    /\ Cardinality(DOMAIN streams \ Streams) + Cardinality(DOMAIN events \ Events) < MaxDestroyed

(* The driver still carries out what the stream has.                         *)
DestroyStream(t, s) ==
    /\ MayDestroy(t)
    /\ streams' = [streams EXCEPT ![s].alive = FALSE]
    /\ UNCHANGED <<device, events, items, done, owed, cover, call, status>>

(* A kernel, launched by the callers.                                        *)
Submitted(kind, s, record, after) ==
    /\ Len(items) < MaxItems
    /\ items' = Append(items, [kind |-> kind, stream |-> s, record |-> record, after |-> after])

Launch(t, s) ==
    /\ Free(t)
    /\ Submitted("kernel", s, 0, owed[s])
    /\ owed' = [owed EXCEPT ![s] = @ \cup {Len(items')}]
    /\ UNCHANGED <<device, made, done, cover, call, status>>

-----------------------------------------------------------------------------
(* Events.  One belongs to the device its thread is on when it is made.      *)

ToMacaEventFlagsPlain(flag) ==
    CASE flag = "kDefault"       -> {}
      [] flag = "kBlockingSync"  -> {"mcEventBlockingSync"}
      [] flag = "kDisableTiming" -> {"mcEventDisableTiming"}
      [] flag = "kInterprocess"  -> {"mcEventInterprocess"}
ToMacaEventFlags(flag) ==
    CASE flag = "kDefault"       -> {}
      [] flag = "kBlockingSync"  -> {"mcEventBlockingSync"}
      [] flag = "kDisableTiming" -> {"mcEventDisableTiming"}
      [] flag = "kInterprocess"  -> {"mcEventInterprocess", "mcEventDisableTiming"}

(* The driver makes no event for other processes that takes times.           *)
Accepted(flags) == "mcEventInterprocess" \in flags => "mcEventDisableTiming" \in flags

EventCreate(t, flag) ==
    /\ Free(t)
    /\ items = <<>> /\ Len(events) < MaxEvents
    /\ IF Accepted(ToMacaEventFlags(flag))
       THEN /\ events' = Append(events, [device |-> device[t], flag |-> flag,
                           timing |-> "mcEventDisableTiming" \notin ToMacaEventFlags(flag),
                           last |-> 0, alive |-> TRUE])
            /\ cover' = Append(cover, {})
            /\ UNCHANGED status
       ELSE Aborts("flags refused") /\ UNCHANGED <<events, cover>>
    /\ UNCHANGED <<device, streams, items, done, owed, call>>

EventDestroy(t, e) ==
    /\ MayDestroy(t)
    /\ events' = [events EXCEPT ![e].alive = FALSE]
    /\ UNCHANGED <<device, streams, items, done, owed, cover, call, status>>

EventRecord(t, e, s) ==
    /\ Free(t)
    /\ IF events[e].device = streams[s].device
       THEN /\ Submitted("record", s, 0, owed[s])
            /\ events' = [events EXCEPT ![e].last = Len(items')]
            /\ cover' = [cover EXCEPT ![e] = owed[s]]
            /\ UNCHANGED status
       ELSE Aborts("event of another device") /\ UNCHANGED <<events, items, cover>>
    /\ UNCHANGED <<device, streams, done, owed, call>>

(* An event that was never recorded is waited for by nobody.                 *)
AwaitedNone(e) == 0
Awaited(e) == events[e].last

StreamWaitEvent(t, s, e) ==
    /\ Free(t)
    /\ owed' = [owed EXCEPT ![s] = @ \cup cover[e]]
    /\ Submitted("wait", s, Awaited(e), owed'[s])
    /\ UNCHANGED <<device, made, done, cover, call, status>>

Complete(e) == events[e].last \in done \cup {0}

(* What the driver may answer when it is asked for an event: it can fail at   *)
(* any time.  EventQuery changes nothing.                                    *)
Answers(e) == {IF Complete(e) THEN "mcSuccess" ELSE "mcErrorNotReady", "mcErrorUnknown"}

(* What EventQuery and EventSynchronize make of the driver's answer.         *)
StatusReadyUnlessError(answer) ==
    IF answer \in {"mcSuccess", "mcErrorNotReady"} THEN "kSuccess" ELSE "kError"
StatusOf(answer) ==
    CASE answer = "mcSuccess"       -> "kSuccess"
      [] answer = "mcErrorNotReady" -> "kNotReady"
      [] OTHER                      -> "kError"

(* Times can only be had of two events that take them and are complete; it   *)
(* is fatal to ask for others, and changes nothing to ask for these.         *)
Timed(e) == events[e].timing /\ events[e].last # 0 /\ Complete(e)

EventElapsedTime(t, start, stop) ==
    /\ Free(t)
    /\ ~(Timed(start) /\ Timed(stop))
    /\ Aborts("no times")
    /\ UNCHANGED <<device, made, items, done, owed, cover, call>>

-----------------------------------------------------------------------------
(* Calls that wait.  The driver decides at the call what is waited for.      *)

Wait(t, waits, promise) ==
    /\ Free(t)
    /\ call' = [call EXCEPT ![t] = [in |-> TRUE, waits |-> waits \ done,
                                   promise |-> promise \ done]]
    /\ UNCHANGED <<device, made, items, done, owed, cover, status>>

(* A driver that fails returns at once; only kSuccess promises anything.     *)
EventSynchronize(t, e) ==
    \E answer \in {"mcSuccess", "mcErrorNotReady", "mcErrorUnknown"} :
        Wait(t, IF answer = "mcSuccess" THEN {events[e].last} \ {0} ELSE {},
             IF StatusOf(answer) = "kSuccess" THEN cover[e] ELSE {})

SynchronizeStream(t, s) == Wait(t, OfStream(s), KernelsOf({s}))

(* The device that is current when mcDeviceSynchronize is called.            *)
SyncedDeviceHere(t, d) == device[t]
SyncedDevice(t, d) == d

StreamsOn(d) == {s \in DOMAIN streams : streams[s].device = d}

SynchronizeDevice(t, d) ==
    Wait(t, UNION {OfStream(s) : s \in StreamsOn(SyncedDevice(t, d))}, KernelsOf(StreamsOn(d)))

(* mcMemcpy is on the default stream of the current device, which waits for  *)
(* the blocking streams; the callers count on those made without a priority. *)
Memcpy(t) ==
    LET here == StreamsOn(device[t])
    IN  Wait(t, UNION {OfStream(s) : s \in {r \in here : streams[r].blocking}},
             KernelsOf({s \in here : ~streams[s].priority}))

Return(t) ==
    /\ Running /\ call[t].in
    /\ call[t].waits \subseteq done
    /\ call' = [call EXCEPT ![t] = Idle]
    /\ UNCHANGED <<device, made, items, done, owed, cover, status>>

-----------------------------------------------------------------------------
(* The driver carries out an item when those before it in its stream are     *)
(* done, and the record it waits for.                                        *)
CarryOut(i) ==
    /\ Running /\ i \in Items \ done
    /\ \A j \in OfStream(items[i].stream) : j < i => j \in done
    /\ items[i].kind = "wait" => items[i].record \in done \cup {0}
    /\ done' = done \cup {i}
    /\ UNCHANGED <<device, made, items, owed, cover, call, status>>

Driver == \E i \in Items : CarryOut(i)

Call(t) ==
    \/ \E d \in Devices, priority \in BOOLEAN : CreateStream(t, d, priority)
    \/ \E s \in Streams : DestroyStream(t, s) \/ Launch(t, s)
    \/ \E flag \in Flags : EventCreate(t, flag)
    \/ \E e \in Events : EventDestroy(t, e)
    \/ \E e \in Events, s \in Streams : EventRecord(t, e, s) \/ StreamWaitEvent(t, s, e)
    \/ \E e, f \in Events : EventElapsedTime(t, e, f)

CallAndWait(t) ==
    \/ \E d \in Devices : SetDevice(t, d) \/ SynchronizeDevice(t, d)
    \/ \E s \in Streams : SynchronizeStream(t, s)
    \/ \E e \in Events : EventSynchronize(t, e)
    \/ Memcpy(t)
    \/ Return(t)

Next == \/ \E t \in Threads : Call(t)
        \/ \E t \in Waiters : CallAndWait(t)
        \/ Driver

Spec == Init /\ [][Next]_vars

(* The device does its work, and a call that has nothing to wait for returns. *)
FairSpec == /\ Spec
            /\ \A t \in Waiters : WF_vars(Return(t))
            /\ WF_vars(Driver)

-----------------------------------------------------------------------------
(* Properties.                                                               *)

(* Every variable has its type; events are recorded on their own device.     *)
TypeOK ==
    /\ device \in [Threads -> Devices]
    /\ \A s \in DOMAIN streams : streams[s].device \in Devices
    /\ \A e \in DOMAIN events :
         events[e].last # 0 => items[events[e].last].kind = "record"
                               /\ streams[items[events[e].last].stream].device = events[e].device
    /\ \A i \in Items : items[i].record \in 0 .. i - 1
    /\ done \subseteq Items
    /\ Len(owed) = Len(streams) /\ Len(cover) = Len(events)

(* Nothing is carried out before the kernels that the streams and the events *)
(* put before it, in however many hands the ordering is, and whether events  *)
(* are recorded again or destroyed and streams are destroyed meanwhile.      *)
OrderKept ==
    /\ TypeOK
    /\ \A i \in done : items[i].after \subseteq done

(* What a thread is told is done is done: when EventQuery says kSuccess, and *)
(* when a call that waits returns; an EventSynchronize that says something   *)
(* else promised nothing.                                                    *)
ToldIsDone ==
    /\ \A e \in Events : \A answer \in Answers(e) :
         StatusOf(answer) = "kSuccess" => cover[e] \subseteq done
    /\ \A t \in Threads : call[t].waits \subseteq done => call[t].promise \subseteq done

(* Whatever waits for whatever, the devices finish all work and every call   *)
(* returns, unless a caller's mistake ended the process; no other call does. *)
Mistakes == {"event of another device", "no times"}

CallsGetThrough ==
    /\ []<>(done = Items \/ status \in Mistakes)
    /\ \A t \in Threads : []<>(~call[t].in \/ status \in Mistakes)
=============================================================================
