------------------------------- MODULE McclComm -------------------------------
(***************************************************************************)
(* Communicators, unique ids and the collectives of the MCCL backend       *)
(* (ccl/mccl_impl.cc, ccl/mccl_common.cc).  A CclComm is a wrapper that    *)
(* lives on while communicators come and go: CommInitRank and CommInitAll  *)
(* put a handle of MCCL in it, CommDestroy takes it out.                   *)
(*                                                                         *)
(* Every rank makes the calls of `script', Generations times over.  MCCL   *)
(* is external: initialisation waits for all ranks that bring the same id, *)
(* collectives of all ranks meet at the heads of their streams, a send     *)
(* meets its receive, and a destroyed communicator finishes its calls.     *)
(***************************************************************************)
EXTENDS Integers, Sequences, FiniteSets

CONSTANTS
    NRanks,         \* ranks of the communicator
    Generations,    \* how often the communicator is made and destroyed
    Scripts,        \* what the ranks may do with it: [calls, promise]
    MaxDepth,       \* bound on the nesting of groups
    Null            \* a null pointer

ASSUME CommAssumption ==
    /\ NRanks \in Nat \ {0} /\ Generations \in Nat \ {0} /\ MaxDepth \in Nat
    /\ Null \notin Nat \cup (0 .. Generations) \X (0 .. NRanks - 1)
    /\ \A handle \in {Null} \cup (0 .. Generations) \X (0 .. NRanks - 1) : Null # [handle |-> handle]

(* The data types and operators that MCCL has.                               *)
kMcclDtypeMap ==
    [kUINT8 |-> "mcclUint8", kINT8 |-> "mcclInt8", kUINT32 |-> "mcclUint32",
     kINT32 |-> "mcclInt32", kUINT64 |-> "mcclUint64", kINT64 |-> "mcclInt64",
     kBFLOAT16 |-> "mcclBfloat16", kFLOAT16 |-> "mcclHalf",
     kFLOAT32 |-> "mcclFloat32", kFLOAT64 |-> "mcclFloat64"]

kMcclReduceOpMap ==
    [kSum |-> "mcclSum", kProd |-> "mcclProd", kMin |-> "mcclMin",
     kMax |-> "mcclMax", kAvg |-> "mcclAvg"]

(* What callers owe: in a generation a rank comes to one initialisation,     *)
(* with an id of that generation or none, and later to a CommDestroy; it     *)
(* destroys outside of groups and leaves no group open.                      *)
Buffers == {"in", "part", "out"}
Inits == {"CommInitRank", "CommInitAll"}
Collectives == {"Broadcast", "Reduce", "AllGather", "ReduceScatter"}
Moves == Collectives \cup {"Send", "Recv"}
Places(s, names) == {i \in DOMAIN s.calls : s.calls[i].call \in names}

Nests(s, depths) ==     \* depths[i]: the groups that are open before call i
    /\ depths[1] = 0 /\ depths[Len(s.calls) + 1] = 0
    /\ \A i \in DOMAIN s.calls :
         CASE s.calls[i].call = "GroupStart" -> depths[i + 1] = depths[i] + 1
           [] s.calls[i].call = "GroupEnd" -> depths[i] = 0 \/ depths[i + 1] = depths[i] - 1
           [] OTHER -> /\ depths[i + 1] = depths[i]
                       /\ s.calls[i].call = "CommDestroy" => depths[i] = 0

Proper(s) ==
    /\ s.calls \in Seq([call : STRING, send : Buffers, recv : Buffers, count : Nat])
    /\ \E i \in DOMAIN s.calls :
         /\ Places(s, Inits) = {i}
         /\ \E d \in Places(s, {"CommDestroy"}) : d > i
         /\ IF s.calls[i].call = "CommInitRank"
            THEN \E u \in 1 .. i - 1 : Places(s, {"GetUniqueId"}) = {u}
            ELSE Places(s, {"GetUniqueId"}) = {}
    /\ \E depths \in [1 .. Len(s.calls) + 1 -> 0 .. MaxDepth] : Nests(s, depths)

ASSUME ScriptsAssumption == \A s \in Scripts : Proper(s)

(* What a script has to call for its promise (see Promised): two             *)
(* collectives that make an all-reduce, or a send and a receive, and a       *)
(* CommDestroy behind them; or a call that is fatal: MCCL refuses it, or has *)
(* no such data type (see Submit).                                           *)
OutsideGroups(s, i) ==
    \A depths \in [1 .. Len(s.calls) + 1 -> 0 .. MaxDepth] : Nests(s, depths) => depths[i] = 0

Moved(call, from, to, count) == [call |-> call, send |-> from, recv |-> to, count |-> count]

Reduces(s, i, j) ==
    /\ i < j /\ Places(s, Moves) = {i, j} /\ OutsideGroups(s, i) /\ OutsideGroups(s, j)
    /\ \/ /\ s.calls[i] = Moved("ReduceScatter", "in", "part", 1)
          /\ s.calls[j] = Moved("AllGather", "part", "out", 1)
       \/ /\ s.calls[i] = Moved("Reduce", "in", "part", NRanks)
          /\ s.calls[j] = Moved("Broadcast", "part", "out", NRanks)
    /\ \E d \in Places(s, {"CommDestroy"}) : d > j

HandsOn(s, i, j) ==
    /\ Places(s, Moves) = {i, j}
    /\ s.calls[i].call = "Send" /\ s.calls[i].send = "in"
    /\ s.calls[j].call = "Recv" /\ s.calls[j].recv = "out" /\ s.calls[j].count = NRanks
    /\ \E d \in Places(s, {"CommDestroy"}) : d > j

Stops(s, i) ==
    \/ s.calls[i].call = "GroupEnd" /\ OutsideGroups(s, i)
    \/ /\ s.calls[i].call \in Moves
       /\ \/ \E n \in Places(s, Inits), d \in Places(s, {"CommDestroy"}) : n < d /\ d < i
          \/ s.type \notin DOMAIN kMcclDtypeMap

ASSUME PromisesAssumption == \A s \in Scripts :
    \/ s.promise = "reduced" /\ \E i, j \in DOMAIN s.calls : Reduces(s, i, j)
    \/ s.promise = "previous" /\ \E i, j \in DOMAIN s.calls : HandsOn(s, i, j)
    \/ s.promise = "abort" /\ \E i \in DOMAIN s.calls : Stops(s, i)

VARIABLES
    script,         \* the calls, the same on every rank
    pc,             \* rank -> the call it is at
    gen,            \* rank -> how many communicators it has begun
    drawn,          \* unique ids MCCL has given out
    unique_id,      \* rank -> the id in its McclUniqueId, or Null
    published,      \* the ids the root has sent to the others, oldest first
    used,           \* rank -> ids it has come to mcclCommInitRank with
    comm,           \* rank -> Null, or its wrapper: [handle]
    live,           \* handles MCCL has made and not destroyed
    depth,          \* rank -> open groups
    group,          \* rank -> calls of the open group
    stream,         \* rank -> launched calls, in sets that are one launch
    buffer,         \* rank -> buffer -> element -> value
    status          \* rank -> "running" or "aborted"

ids == <<drawn, unique_id, published, used>>
data == <<group, stream, buffer>>
vars == <<script, pc, gen, ids, comm, live, depth, data, status>>

Ranks == 0 .. NRanks - 1
Root == 0
Follower(r) == (r + 1) % NRanks
Leader(r) == CHOOSE q \in Ranks : Follower(q) = r
Handles == (0 .. Generations) \X Ranks
Wrap(handle) == [handle |-> handle]

-----------------------------------------------------------------------------
(* A value is the terms that were combined, with the operator and the type,  *)
(* which keeps its own name when MCCL has none for it.                       *)
Dtype == IF script.type \in DOMAIN kMcclDtypeMap THEN kMcclDtypeMap[script.type] ELSE script.type

Element == 0 .. NRanks - 1
Value(type, op, terms) == [type |-> type, op |-> op, terms |-> terms]
Garbled == Value("", "", {})

Fresh(r, type) == [b \in Buffers |-> [i \in Element |->
                     IF b = "in" THEN Value(type, "", {<<r, i>>}) ELSE Garbled]]

Combined(v, type, op) ==    \* v[q] is the value of rank q
    IF /\ \A q \in Ranks : v[q].type = type /\ v[q].op \in {"", op}
       /\ \A q, p \in Ranks : q # p => v[q].terms \cap v[p].terms = {}
    THEN Value(type, op, UNION {v[q].terms : q \in Ranks})
    ELSE Garbled

Read(q, b, i) == IF i \in Element THEN buffer[q][b][i] ELSE Garbled

-----------------------------------------------------------------------------
Init ==
    /\ script \in Scripts
    /\ pc = [r \in Ranks |-> 1]
    /\ gen = [r \in Ranks |-> 1]
    /\ drawn = 0
    /\ unique_id = [r \in Ranks |-> Null]
    /\ published = <<>>
    /\ used = [r \in Ranks |-> <<>>]
    /\ comm = [r \in Ranks |-> Null]
    /\ live = {}
    /\ depth = [r \in Ranks |-> 0]
    /\ group = [r \in Ranks |-> {}]
    /\ stream = [r \in Ranks |-> <<>>]
    /\ buffer = [r \in Ranks |-> Fresh(r, Dtype)]
    /\ status = [r \in Ranks |-> "running"]

Calling(r, names) ==
    /\ status[r] = "running"
    /\ pc[r] <= Len(script.calls)
    /\ script.calls[pc[r]].call \in names

Arg(r) == script.calls[pc[r]]
Returns(r) == pc' = [pc EXCEPT ![r] = @ + 1]
Aborts(r) == status' = [status EXCEPT ![r] = "aborted"]

HasHandle(r) == comm[r] # Null /\ comm[r].handle # Null

-----------------------------------------------------------------------------
(* The id: the root asks MCCL for one, the others load its bytes.            *)

NewIdKept(r) == IF unique_id[r] = Null THEN drawn + 1 ELSE unique_id[r]
NewId(r) == drawn + 1

GetUniqueId(r) ==
    /\ r = Root
    /\ Calling(r, {"GetUniqueId"})
    /\ unique_id' = [unique_id EXCEPT ![r] = NewId(r)]
    /\ drawn' = drawn + 1
    /\ published' = Append(published, unique_id'[r])
    /\ Returns(r)
    /\ UNCHANGED <<script, gen, used, comm, live, depth, data, status>>

Load(r) ==
    /\ r # Root
    /\ Calling(r, {"GetUniqueId"})
    /\ Len(published) >= gen[r]
    /\ unique_id' = [unique_id EXCEPT ![r] = published[gen[r]]]
    /\ Returns(r)
    /\ UNCHANGED <<script, gen, drawn, published, used, comm, live, depth, data, status>>

-----------------------------------------------------------------------------
(* Making and destroying communicators.                                      *)

(* The handle goes into the wrapper, which is made when there is none.       *)
SetMcclComm(r, handle) == Wrap(handle)

Joining(r) == Len(used[r]) = gen[r]

CommInitRank(r) ==
    /\ Calling(r, {"CommInitRank"})
    /\ ~Joining(r)
    /\ used' = [used EXCEPT ![r] = Append(@, unique_id[r])]
    /\ comm' = [comm EXCEPT ![r] = IF @ = Null THEN Wrap(Null) ELSE @]
    /\ UNCHANGED <<script, pc, gen, drawn, unique_id, published, live, depth, data, status>>

CommInitRankReturns(r) ==
    /\ Calling(r, {"CommInitRank"})
    /\ Joining(r)
    /\ \A q \in Ranks : \E i \in 1 .. Len(used[q]) : used[q][i] = unique_id[r]
    /\ live' = live \cup {<<unique_id[r], r>>}
    /\ comm' = [comm EXCEPT ![r] = SetMcclComm(r, <<unique_id[r], r>>)]
    /\ Returns(r)
    /\ UNCHANGED <<script, gen, ids, depth, data, status>>

(* One thread makes the communicators of all ranks, when those before are    *)
(* gone; the others go on when they find theirs.                             *)
CommInitAll(r) ==
    /\ r = Root
    /\ Calling(r, {"CommInitAll"})
    /\ \A q \in Ranks : gen[q] = gen[r] /\ ~HasHandle(q)
    /\ drawn' = drawn + 1
    /\ used' = [q \in Ranks |-> Append(used[q], drawn')]
    /\ live' = live \cup ({drawn'} \X Ranks)
    /\ comm' = [q \in Ranks |-> SetMcclComm(q, <<drawn', q>>)]
    /\ Returns(r)
    /\ UNCHANGED <<script, gen, unique_id, published, depth, data, status>>

FindComm(r) ==
    /\ r # Root
    /\ Calling(r, {"CommInitAll"})
    /\ Joining(r)
    /\ Returns(r)
    /\ UNCHANGED <<script, gen, ids, comm, live, depth, data, status>>

DestroyedKept(r) == comm[r]
Destroyed(r) == IF comm[r] = Null THEN Null ELSE Wrap(Null)

CommDestroy(r) ==
    /\ Calling(r, {"CommDestroy"})
    /\ stream[r] = <<>>
    /\ live' = IF HasHandle(r) THEN live \ {comm[r].handle} ELSE live
    /\ comm' = [comm EXCEPT ![r] = Destroyed(r)]
    /\ Returns(r)
    /\ UNCHANGED <<script, gen, ids, depth, data, status>>

-----------------------------------------------------------------------------
(* Groups and calls.                                                         *)

DeferredNever(r) == FALSE
Deferred(r) == depth[r] > 0

GroupStart(r) ==
    /\ Calling(r, {"GroupStart"})
    /\ depth[r] < MaxDepth
    /\ depth' = [depth EXCEPT ![r] = @ + 1]
    /\ Returns(r)
    /\ UNCHANGED <<script, gen, ids, comm, live, data, status>>

LeftInGroup(r) == IF depth[r] = 1 THEN {} ELSE group[r]

GroupEnd(r) ==
    /\ Calling(r, {"GroupEnd"})
    /\ IF depth[r] = 0
       THEN Aborts(r) /\ UNCHANGED <<pc, depth, group, stream>>
       ELSE /\ depth' = [depth EXCEPT ![r] = @ - 1]
            /\ stream' = IF depth[r] = 1 /\ group[r] # {}
                         THEN [stream EXCEPT ![r] = Append(@, group[r])] ELSE stream
            /\ group' = [group EXCEPT ![r] = LeftInGroup(r)]
            /\ Returns(r)
            /\ UNCHANGED status
    /\ UNCHANGED <<script, gen, ids, comm, live, buffer>>

(* What is handed to MCCL; the count of ReduceScatter is that of a share.    *)
CountTotal(r) == IF Arg(r).call = "ReduceScatter" THEN NRanks * Arg(r).count ELSE Arg(r).count
Count(r) == Arg(r).count

McclCall(r) ==
    [call |-> Arg(r).call, send |-> Arg(r).send, recv |-> Arg(r).recv,
     count |-> Count(r), type |-> kMcclDtypeMap[script.type],
     op |-> IF Arg(r).call \in {"Reduce", "ReduceScatter"} THEN kMcclReduceOpMap[script.op] ELSE "",
     peer |-> IF Arg(r).call \in Collectives THEN Root
                ELSE IF Arg(r).call = "Send" THEN Follower(r) ELSE Leader(r),
     handle |-> comm[r].handle]

(* The maps' at() throws for a data type or an operator that MCCL has not,   *)
(* and nobody catches it.  A call on a wrapper with no handle is refused by  *)
(* MCCL, which MCCL_CHECK makes fatal; in a group a call waits for the end   *)
(* of the outermost one.                                                     *)
Throws(r) ==
    \/ script.type \notin DOMAIN kMcclDtypeMap
    \/ Arg(r).call \in {"Reduce", "ReduceScatter"} /\ script.op \notin DOMAIN kMcclReduceOpMap

Submit(r) ==
    /\ Calling(r, Moves)
    /\ IF Throws(r) \/ ~HasHandle(r)
       THEN Aborts(r) /\ UNCHANGED <<pc, group, stream>>
       ELSE /\ IF Deferred(r)
               THEN /\ group' = [group EXCEPT ![r] = @ \cup {McclCall(r)}]
                    /\ UNCHANGED stream
               ELSE /\ stream' = [stream EXCEPT ![r] = Append(@, {McclCall(r)})]
                    /\ UNCHANGED group
            /\ Returns(r)
            /\ UNCHANGED status
    /\ UNCHANGED <<script, gen, ids, comm, live, depth, buffer>>

(* The caller goes on to the next communicator, with new results to come.    *)
NextGeneration(r) ==
    /\ status[r] = "running"
    /\ pc[r] > Len(script.calls)
    /\ gen[r] < Generations
    /\ gen' = [gen EXCEPT ![r] = @ + 1]
    /\ pc' = [pc EXCEPT ![r] = 1]
    /\ buffer' = [buffer EXCEPT ![r] = Fresh(r, Dtype)]
    /\ UNCHANGED <<script, ids, comm, live, depth, group, stream, status>>

-----------------------------------------------------------------------------
(* What MCCL does with the calls at the heads of the streams.                *)

HeadCalls(r) == IF stream[r] = <<>> THEN {} ELSE Head(stream[r])

Written(c, r, i) ==     \* c[q] is the call of rank q
    LET from(q, j) == Read(q, c[q].send, j)
        sum(j) == Combined([q \in Ranks |-> from(q, j)], c[r].type, c[r].op)
    IN  CASE c[r].call = "Broadcast" /\ i < c[r].count -> from(c[r].peer, i)
          [] c[r].call = "Reduce" /\ i < c[r].count /\ r = c[r].peer -> sum(i)
          [] c[r].call = "AllGather" /\ i < NRanks * c[r].count ->
               from(i \div c[r].count, i % c[r].count)
          [] c[r].call = "ReduceScatter" /\ i < c[r].count -> sum(r * c[r].count + i)
          [] OTHER -> Read(r, c[r].recv, i)

Alike(c, d) ==
    /\ c.call = d.call /\ c.count = d.count /\ c.type = d.type /\ c.op = d.op
    /\ c.peer = d.peer /\ c.handle[1] = d.handle[1]

Meet ==
    /\ \A r \in Ranks : Cardinality(HeadCalls(r)) = 1 /\ \E c \in HeadCalls(r) : c.call \in Collectives
    /\ LET c == [r \in Ranks |-> CHOOSE x \in HeadCalls(r) : TRUE]
       IN  /\ \A r \in Ranks : Alike(c[r], c[Root])
           /\ buffer' = [r \in Ranks |-> [buffer[r] EXCEPT ![c[r].recv] =
                           [i \in Element |-> Written(c, r, i)]]]
    /\ stream' = [r \in Ranks |-> Tail(stream[r])]
    /\ UNCHANGED <<script, pc, gen, ids, comm, live, depth, group, status>>

Without(launched, c) ==
    IF Head(launched) = {c} THEN Tail(launched)
    ELSE <<Head(launched) \ {c}>> \o Tail(launched)

Sent(r, s) == [stream EXCEPT ![r] = Without(@, s)]

Transfer(r) ==
    \E s \in HeadCalls(r), d \in HeadCalls(Follower(r)) :
        /\ s.call = "Send" /\ d.call = "Recv" /\ s.peer = Follower(r) /\ d.peer = r
        /\ s.handle[1] = d.handle[1] /\ s.count = d.count /\ s.type = d.type
        /\ buffer' = [buffer EXCEPT ![Follower(r)][d.recv] = [i \in Element |->
                        IF i < d.count THEN Read(r, s.send, i) ELSE @[i]]]
        /\ stream' = [Sent(r, s) EXCEPT ![Follower(r)] = Without(@, d)]
        /\ UNCHANGED <<script, pc, gen, ids, comm, live, depth, group, status>>

-----------------------------------------------------------------------------
Rank(r) ==
    \/ GetUniqueId(r) \/ Load(r) \/ CommInitRank(r) \/ CommInitRankReturns(r)
    \/ CommInitAll(r) \/ FindComm(r) \/ CommDestroy(r) \/ GroupStart(r) \/ GroupEnd(r)
    \/ Submit(r) \/ NextGeneration(r)

Device == Meet \/ \E r \in Ranks : Transfer(r)

Next == Device \/ \E r \in Ranks : Rank(r)

Spec == Init /\ [][Next]_vars

(* Every rank's thread runs, and MCCL carries out the calls that have met.   *)
FairSpec == Spec /\ WF_vars(Device) /\ \A r \in Ranks : WF_vars(Rank(r))

-----------------------------------------------------------------------------
(* Properties.                                                               *)

(* Every variable has its type; calls wait in a group only while it is open. *)
TypeOK ==
    /\ script \in Scripts
    /\ pc \in [Ranks -> Nat] /\ gen \in [Ranks -> 1 .. Generations] /\ drawn \in Nat
    /\ unique_id \in [Ranks -> Nat \cup {Null}]
    /\ \A r \in Ranks : comm[r] # Null => comm[r].handle \in Handles \cup {Null}
    /\ live \subseteq Handles
    /\ depth \in [Ranks -> 0 .. MaxDepth]
    /\ \A r \in Ranks : depth[r] = 0 => group[r] = {}
    /\ status \in [Ranks -> {"running", "aborted"}]

(* The g-th communicators of all ranks are of one clique, and no id serves a *)
(* second one, though wrappers and id objects are used again.                *)
OwnClique ==
    /\ TypeOK
    /\ \A r, q \in Ranks : \A g \in 1 .. Len(used[r]), h \in 1 .. Len(used[q]) :
         (used[r][g] = used[q][h]) <=> (g = h)

(* The communicators of MCCL are those in the wrappers of their ranks, from  *)
(* where CommDestroy reaches them: none is lost when a wrapper is used again *)
(* and none is used, by a wrapper or a launched call, once it is destroyed.  *)
HandlesHeld ==
    /\ live = {h \in Handles : comm[h[2]] # Null /\ comm[h[2]].handle = h}
    /\ \A r \in Ranks : HasHandle(r) => comm[r].handle \in live
    /\ \A r \in Ranks : \A i \in 1 .. Len(stream[r]) : \A c \in stream[r][i] : c.handle \in live

(* What the calls of a script come to: the reduction of all ranks' input on  *)
(* each of them, or the input of the rank before.                            *)
Promised(r, i) ==
    IF script.promise = "reduced"
    THEN Value(Dtype, kMcclReduceOpMap[script.op], {<<q, i>> : q \in Ranks})
    ELSE Value(Dtype, "", {<<Leader(r), i>>})

(* ReduceScatter with AllGather, and Reduce with Broadcast, make an          *)
(* all-reduce; a ring of sends and receives hands each input to the next.    *)
Delivered ==
    \A r \in Ranks : pc[r] > Len(script.calls) =>
        \A i \in Element : buffer[r]["out"][i] = Promised(r, i)

(* The ranks come to the end of every generation: none waits for another     *)
(* that waits for it, and none is aborted unless its calls are in error.     *)
EventuallyEnded ==
    <>(\A r \in Ranks : IF script.promise = "abort" THEN status[r] = "aborted"
                        ELSE gen[r] = Generations /\ pc[r] > Len(script.calls))
=============================================================================
