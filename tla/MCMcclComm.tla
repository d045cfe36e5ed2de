------------------------------ MODULE MCMcclComm ------------------------------
(* Instances of McclComm for TLC.                                            *)
EXTENDS McclComm

C(call) == [call |-> call, send |-> "in", recv |-> "out", count |-> NRanks]
Op(call, from, to, count) == [C(call) EXCEPT !.send = from, !.recv = to, !.count = count]

Start(init) == IF init = "CommInitAll" THEN <<C(init)>> ELSE <<C("GetUniqueId"), C(init)>>

ScatterGather == <<Op("ReduceScatter", "in", "part", 1), Op("AllGather", "part", "out", 1)>>
ReduceBroadcast == <<Op("Reduce", "in", "part", NRanks), Op("Broadcast", "part", "out", NRanks)>>
Ring == <<C("GroupStart"), C("Send"), C("Recv"), C("GroupEnd")>>
NestedRing == <<C("GroupStart"), C("GroupStart"), C("Send"), C("GroupEnd"), C("Recv"), C("GroupEnd")>>

Script(init, body, end, promise, type, op) ==
    [calls |-> Start(init) \o body \o end, promise |-> promise, type |-> type, op |-> op]

Once == <<C("CommDestroy")>>
Twice == <<C("CommDestroy"), C("CommDestroy")>>

MCScripts ==
    {Script("CommInitRank", ScatterGather, Once, "reduced", "kBFLOAT16", "kSum"),
     Script("CommInitRank", ReduceBroadcast, Twice, "reduced", "kFLOAT32", "kMax"),
     Script("CommInitRank", Ring, Twice, "previous", "kFLOAT32", "kSum"),
     Script("CommInitAll", NestedRing, Once, "previous", "kFLOAT32", "kSum"),
     Script("CommInitAll", ScatterGather, Twice, "reduced", "kFLOAT16", "kAvg"),
     [calls |-> <<C("CommDestroy")>> \o Start("CommInitRank") \o Ring \o Once \o <<C("AllGather")>>,
      promise |-> "abort", type |-> "kINT64", op |-> "kSum"],
     Script("CommInitRank", ScatterGather, Once, "abort", "kINT16", "kSum"),
     Script("CommInitAll", <<C("GroupEnd")>>, Once, "abort", "kUINT8", "kMin")}
=============================================================================
