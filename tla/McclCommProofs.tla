----------------------------- MODULE McclCommProofs -----------------------------
(***************************************************************************)
(* Theorems about McclComm: the cliques of a communicator never mix, the   *)
(* handles of MCCL are those in the wrappers of their ranks, and the calls *)
(* come to the results they stand for, with any number of ranks and        *)
(* generations, and any scripts that come to one initialisation and a      *)
(* later CommDestroy outside of groups (Proper) and make the calls of      *)
(* their promise (PromisesAssumption).                                     *)
(***************************************************************************)
EXTENDS McclComm, SequenceTheorems, TLAPS

(* Where a script draws its id and makes its communicator, and how deep in   *)
(* groups it is before each of its calls.                                    *)
InitPlace == CHOOSE i \in DOMAIN script.calls : Places(script, Inits) = {i}
IdPlace == CHOOSE u \in DOMAIN script.calls : Places(script, {"GetUniqueId"}) = {u}
Depths == CHOOSE depths \in [1 .. Len(script.calls) + 1 -> 0 .. MaxDepth] : Nests(script, depths)
ById == script.calls[InitPlace].call = "CommInitRank"
End == Len(script.calls) + 1

-----------------------------------------------------------------------------
(* The invariant.                                                            *)

CallsOf ==
    [call : STRING, send : Buffers, recv : Buffers, count : Nat,
     type : {Dtype}, op : {"", kMcclReduceOpMap[script.op]},
     peer : {Root} \cup {Follower(r) : r \in Ranks} \cup {Leader(r) : r \in Ranks},
     handle : Handles]

Types ==
    /\ TypeOK
    /\ pc \in [Ranks -> 1 .. End]
    /\ published \in Seq(Nat)
    /\ used \in [Ranks -> Seq(Nat)]
    /\ comm \in [Ranks -> {Null} \cup {Wrap(h) : h \in Handles \cup {Null}}]
    /\ group \in [Ranks -> SUBSET CallsOf]
    /\ stream \in [Ranks -> Seq(SUBSET CallsOf)]

(* The ids that come to initialisation are drawn in the order of the         *)
(* generations: the first is 1, and no rank brings another one.              *)
InOrder == \A r \in Ranks : \A g \in 1 .. Len(used[r]) : used[r][g] = g

(* How many ids were drawn, sent and brought, by where the ranks are.        *)
DrawnById ==
    /\ drawn = IF pc[Root] > IdPlace THEN gen[Root] ELSE gen[Root] - 1
    /\ Len(published) = drawn /\ \A g \in 1 .. drawn : published[g] = g
    /\ \A r \in Ranks :
         /\ pc[r] > IdPlace => unique_id[r] = gen[r]
         /\ pc[r] < InitPlace => Len(used[r]) = gen[r] - 1
         /\ pc[r] = InitPlace => Len(used[r]) \in {gen[r] - 1, gen[r]}
         /\ pc[r] > InitPlace => Len(used[r]) = gen[r]

DrawnForAll ==
    /\ drawn = IF pc[Root] > InitPlace THEN gen[Root] ELSE gen[Root] - 1
    /\ \A r \in Ranks :
         /\ Len(used[r]) = drawn
         /\ gen[r] - 1 <= drawn
         /\ pc[r] > InitPlace => gen[r] <= drawn

(* A rank has a handle only between the initialisation and the first         *)
(* CommDestroy after it.                                                     *)
HeldInBetween ==
    \A r \in Ranks : HasHandle(r) =>
        /\ comm[r].handle[2] = r
        /\ ById => pc[r] > InitPlace
        /\ \A d \in Places(script, {"CommDestroy"}) : d > InitPlace => pc[r] <= d

(* Calls that wait, in a group or in a stream, are on the rank's own handle. *)
WaitOnOwn ==
    \A r \in Ranks :
        /\ \A c \in group[r] : HasHandle(r) /\ c.handle = comm[r].handle
        /\ \A i \in 1 .. Len(stream[r]) : \A c \in stream[r][i] :
             HasHandle(r) /\ c.handle = comm[r].handle

LiveHeld == live = {h \in Handles : comm[h[2]] # Null /\ comm[h[2]].handle = h}

DepthKept == \A r \in Ranks : depth[r] = Depths[pc[r]]

Drawn == IF ById THEN DrawnById ELSE DrawnForAll

Inv == /\ Types /\ InOrder /\ Drawn
       /\ HeldInBetween /\ WaitOnOwn /\ LiveHeld /\ DepthKept

-----------------------------------------------------------------------------
(* Scripts.                                                                  *)

LEMMA ScriptFacts ==
    ASSUME script \in Scripts
    PROVE  /\ Len(script.calls) \in Nat /\ DOMAIN script.calls = 1 .. Len(script.calls)
           /\ InitPlace \in DOMAIN script.calls /\ Places(script, Inits) = {InitPlace}
           /\ \E d \in Places(script, {"CommDestroy"}) : d > InitPlace
           /\ ById => /\ IdPlace \in 1 .. InitPlace - 1
                      /\ Places(script, {"GetUniqueId"}) = {IdPlace}
           /\ ~ById => Places(script, {"GetUniqueId"}) = {}
           /\ Depths \in [1 .. End -> 0 .. MaxDepth] /\ Nests(script, Depths)
<1>1. Proper(script)
  BY ScriptsAssumption
<1>2. Len(script.calls) \in Nat /\ DOMAIN script.calls = 1 .. Len(script.calls)
  BY <1>1, LenProperties DEF Proper
<1>3. PICK i \in DOMAIN script.calls :
         /\ Places(script, Inits) = {i}
         /\ \E d \in Places(script, {"CommDestroy"}) : d > i
         /\ IF script.calls[i].call = "CommInitRank"
            THEN \E u \in 1 .. i - 1 : Places(script, {"GetUniqueId"}) = {u}
            ELSE Places(script, {"GetUniqueId"}) = {}
  BY <1>1 DEF Proper
<1>4. InitPlace = i
  BY <1>3 DEF InitPlace
<1>5. ASSUME ById PROVE /\ IdPlace \in 1 .. InitPlace - 1
                        /\ Places(script, {"GetUniqueId"}) = {IdPlace}
  <2>1. PICK u \in 1 .. i - 1 : Places(script, {"GetUniqueId"}) = {u}
    BY <1>3, <1>4, <1>5 DEF ById
  <2>2. u \in DOMAIN script.calls
    BY <1>2, <1>3
  <2>3. IdPlace = u
    BY <2>1, <2>2 DEF IdPlace
  <2> QED
    BY <1>4, <2>1, <2>3
<1>6. Depths \in [1 .. End -> 0 .. MaxDepth] /\ Nests(script, Depths)
  BY <1>1 DEF Proper, Depths, End
<1> QED
  BY <1>2, <1>3, <1>4, <1>5, <1>6 DEF ById

(* What a rank's place says of the call it is at.                            *)
LEMMA CallAt ==
    ASSUME Types, NEW r \in Ranks, NEW names, Calling(r, names)
    PROVE  /\ pc[r] \in DOMAIN script.calls /\ pc[r] + 1 \in 1 .. End
           /\ script.calls[pc[r]].call \in names
           /\ script.calls[pc[r]].call \in Inits <=> pc[r] = InitPlace
           /\ script.calls[pc[r]].call = "GetUniqueId" => ById /\ pc[r] = IdPlace
           /\ ById /\ pc[r] = IdPlace => script.calls[pc[r]].call = "GetUniqueId"
           /\ script.calls[pc[r]].call = "CommInitRank" => ById
           /\ script.calls[pc[r]].call = "CommInitAll" => ~ById
           /\ script.calls[pc[r]].call = "CommDestroy" <=> pc[r] \in Places(script, {"CommDestroy"})
<1>1. script \in Scripts /\ pc[r] \in 1 .. End
  BY DEF Types, TypeOK
<1>2. pc[r] \in DOMAIN script.calls /\ pc[r] + 1 \in 1 .. End /\ script.calls[pc[r]].call \in names
  BY <1>1, ScriptFacts DEF Calling, End
<1>3. \A ns : pc[r] \in Places(script, ns) <=> script.calls[pc[r]].call \in ns
  BY <1>2 DEF Places
<1>4. script.calls[pc[r]].call \in Inits <=> pc[r] = InitPlace
  BY <1>1, <1>3, ScriptFacts
<1>5. /\ script.calls[pc[r]].call = "GetUniqueId" => ById /\ pc[r] = IdPlace
      /\ ById /\ pc[r] = IdPlace => script.calls[pc[r]].call = "GetUniqueId"
  <2>1. pc[r] \in Places(script, {"GetUniqueId"}) <=> script.calls[pc[r]].call = "GetUniqueId"
    BY <1>3
  <2> QED
    BY <1>1, <2>1, ScriptFacts
<1>6. /\ script.calls[pc[r]].call = "CommInitRank" => ById
      /\ script.calls[pc[r]].call = "CommInitAll" => ~ById
  BY <1>4 DEF ById, Inits
<1>7. script.calls[pc[r]].call = "CommDestroy" <=> pc[r] \in Places(script, {"CommDestroy"})
  BY <1>3
<1> QED
  BY <1>2, <1>4, <1>5, <1>6, <1>7

LEMMA DepthAt ==
    ASSUME Types, NEW r \in Ranks, NEW names, Calling(r, names)
    PROVE  LET c == script.calls[pc[r]].call
               d == Depths[pc[r]]
               e == Depths[pc[r] + 1]
           IN  /\ d \in Nat
               /\ c = "GroupStart" => e = d + 1
               /\ c = "GroupEnd" => d = 0 \/ e = d - 1
               /\ c \notin {"GroupStart", "GroupEnd"} => e = d
               /\ c = "CommDestroy" => d = 0
<1>1. script \in Scripts /\ pc[r] \in DOMAIN script.calls /\ pc[r] \in 1 .. End
  BY CallAt DEF Types, TypeOK
<1>2. Depths \in [1 .. End -> 0 .. MaxDepth] /\ Nests(script, Depths)
  BY <1>1, ScriptFacts
<1>3. Depths[pc[r]] \in Nat
  BY <1>1, <1>2, CommAssumption
<1>4. CASE script.calls[pc[r]].call = "GroupStart"
  BY <1>1, <1>2, <1>3, <1>4 DEF Nests
<1>5. CASE script.calls[pc[r]].call = "GroupEnd"
  BY <1>1, <1>2, <1>3, <1>5 DEF Nests
<1>6. CASE script.calls[pc[r]].call \notin {"GroupStart", "GroupEnd"}
  BY <1>1, <1>2, <1>3, <1>6 DEF Nests
<1> QED
  BY <1>4, <1>5, <1>6

(* The script stays, and with it all that is said of it.                     *)
LEMMA ScriptStays ==
    ASSUME script' = script
    PROVE  /\ InitPlace' = InitPlace /\ IdPlace' = IdPlace /\ (ById' <=> ById)
           /\ End' = End /\ Depths' = Depths /\ CallsOf' = CallsOf
           /\ \A names : Places(script, names)' = Places(script, names)
BY DEF InitPlace, IdPlace, ById, End, Depths, CallsOf, Dtype, Places

-----------------------------------------------------------------------------
(* What a step leaves alone.                                                 *)

(* Ranks go on past calls that are about no id.                              *)
LEMMA DrawnKept ==
    ASSUME Inv, UNCHANGED <<script, gen, ids>>, pc' \in [Ranks -> Int],
           \A r \in Ranks : \/ pc'[r] = pc[r]
                            \/ /\ pc'[r] = pc[r] + 1 /\ pc[r] # InitPlace
                               /\ ById => pc[r] # IdPlace
    PROVE  InOrder' /\ Drawn'
<1>1. InOrder'
  BY DEF Inv, InOrder, ids
<1>2. /\ pc \in [Ranks -> 1 .. End] /\ script \in Scripts /\ gen \in [Ranks -> 1 .. Generations]
      /\ InitPlace \in Nat /\ (ById => IdPlace \in Nat) /\ Root \in Ranks /\ End \in Nat
  <2>1. pc \in [Ranks -> 1 .. End] /\ script \in Scripts /\ gen \in [Ranks -> 1 .. Generations]
    BY DEF Inv, Types, TypeOK
  <2>2. /\ InitPlace \in 1 .. Len(script.calls) /\ Len(script.calls) \in Nat
        /\ ById => IdPlace \in 1 .. InitPlace - 1
    BY <2>1, ScriptFacts
  <2>3. Root \in Ranks
    BY CommAssumption DEF Root, Ranks
  <2> QED
    BY <2>1, <2>2, <2>3 DEF End
<1>3. CASE ById
  <2>1. DrawnById
    BY <1>3 DEF Inv, Drawn
  <2>2. \A r \in Ranks : /\ pc'[r] > IdPlace <=> pc[r] > IdPlace
                         /\ pc'[r] > InitPlace <=> pc[r] > InitPlace
                         /\ pc'[r] < InitPlace => pc[r] < InitPlace
                         /\ pc'[r] = InitPlace => pc[r] <= InitPlace
    BY <1>2, <1>3
  <2>3. DrawnById'
    <3>1. /\ drawn' = IF pc'[Root] > IdPlace THEN gen[Root] ELSE gen[Root] - 1
          /\ Len(published') = drawn' /\ \A g \in 1 .. drawn' : published'[g] = g
      BY <1>2, <2>1, <2>2 DEF DrawnById, ids
    <3>2. \A r \in Ranks :
             /\ pc'[r] > IdPlace => unique_id'[r] = gen[r]
             /\ pc'[r] < InitPlace => Len(used'[r]) = gen[r] - 1
             /\ pc'[r] = InitPlace => Len(used'[r]) \in {gen[r] - 1, gen[r]}
             /\ pc'[r] > InitPlace => Len(used'[r]) = gen[r]
      BY <1>2, <2>1, <2>2 DEF DrawnById, ids
    <3> QED
      BY <3>1, <3>2, ScriptStays DEF DrawnById
  <2> QED
    BY <1>1, <1>3, <2>3, ScriptStays DEF Drawn
<1>4. CASE ~ById
  <2>1. DrawnForAll
    BY <1>4 DEF Inv, Drawn
  <2>2. \A r \in Ranks : pc'[r] > InitPlace <=> pc[r] > InitPlace
    BY <1>2
  <2>3. DrawnForAll'
    BY <1>2, <2>1, <2>2, ScriptStays DEF DrawnForAll, ids
  <2> QED
    BY <1>1, <1>4, <2>3, ScriptStays DEF Drawn
<1> QED
  BY <1>3, <1>4

(* Ranks go on past calls other than CommDestroy.                            *)
LEMMA HeldKept ==
    ASSUME Inv, UNCHANGED <<script, comm, live>>, pc' \in [Ranks -> Int],
           \A r \in Ranks : \/ pc'[r] = pc[r]
                            \/ /\ pc'[r] = pc[r] + 1
                               /\ pc[r] \notin Places(script, {"CommDestroy"})
    PROVE  HeldInBetween' /\ LiveHeld'
<1>1. LiveHeld'
  BY DEF Inv, LiveHeld, Handles
<1>2. /\ pc \in [Ranks -> 1 .. End] /\ script \in Scripts /\ InitPlace \in Nat /\ End \in Nat
      /\ \A d \in Places(script, {"CommDestroy"}) : d \in Nat
  BY ScriptFacts DEF Inv, Types, TypeOK, Places, End
<1>3. ASSUME NEW r \in Ranks, HasHandle(r)'
      PROVE  /\ comm'[r].handle[2] = r
             /\ ById => pc'[r] > InitPlace
             /\ \A d \in Places(script, {"CommDestroy"}) : d > InitPlace => pc'[r] <= d
  <2>1. HasHandle(r)
    BY <1>3 DEF HasHandle
  <2>2. /\ comm[r].handle[2] = r
        /\ ById => pc[r] > InitPlace
        /\ \A d \in Places(script, {"CommDestroy"}) : d > InitPlace => pc[r] <= d
    BY <2>1 DEF Inv, HeldInBetween
  <2>3. pc'[r] = pc[r] \/ (pc'[r] = pc[r] + 1 /\ pc[r] \notin Places(script, {"CommDestroy"}))
    OBVIOUS
  <2> QED
    BY <1>2, <2>2, <2>3
<1>4. HeldInBetween'
  BY <1>3, ScriptStays DEF HeldInBetween
<1> QED
  BY <1>1, <1>4

LEMMA Goes ==
    ASSUME Types, NEW r \in Ranks, NEW names, Calling(r, names), Returns(r)
    PROVE  /\ pc' \in [Ranks -> 1 .. End] /\ pc'[r] = pc[r] + 1
           /\ \A q \in Ranks \ {r} : pc'[q] = pc[q]
BY CallAt DEF Types, Returns

LEMMA DepthStays ==
    ASSUME Inv, NEW r \in Ranks, NEW names, Calling(r, names), Returns(r),
           UNCHANGED <<script, depth>>, names \cap {"GroupStart", "GroupEnd"} = {}
    PROVE  DepthKept'
<1>1. script.calls[pc[r]].call \notin {"GroupStart", "GroupEnd"}
  BY CallAt DEF Inv
<1>2. Depths[pc[r] + 1] = Depths[pc[r]]
  BY <1>1, DepthAt DEF Inv
<1> QED
  BY <1>2, Goes, ScriptStays DEF Inv, DepthKept

(* The places of the ids among the others.                                   *)
LEMMA PlaceNumbers ==
    ASSUME Types
    PROVE  /\ script \in Scripts /\ End \in Nat /\ InitPlace \in 1 .. End - 1 /\ Root \in Ranks
           /\ ById => IdPlace \in 1 .. InitPlace - 1
           /\ pc \in [Ranks -> 1 .. End] /\ gen \in [Ranks -> 1 .. Generations]
           /\ Generations \in Nat
           /\ \A d \in Places(script, {"CommDestroy"}) : d \in 1 .. End - 1
<1>1. script \in Scripts /\ End = Len(script.calls) + 1
  BY DEF Types, TypeOK, End
<1>2. /\ pc \in [Ranks -> 1 .. End] /\ gen \in [Ranks -> 1 .. Generations]
      /\ Root \in Ranks /\ Generations \in Nat
  BY CommAssumption DEF Types, TypeOK, Root, Ranks
<1>3. /\ End \in Nat /\ InitPlace \in 1 .. End - 1
      /\ ById => IdPlace \in 1 .. InitPlace - 1
  BY <1>1, ScriptFacts
<1>4. \A d \in Places(script, {"CommDestroy"}) : d \in 1 .. End - 1
  BY <1>1, ScriptFacts DEF Places
<1> QED
  BY <1>1, <1>2, <1>3, <1>4

-----------------------------------------------------------------------------
(* The ids.                                                                  *)

LEMMA GetUniqueIdKeeps ==
    ASSUME Inv, NEW r \in Ranks, GetUniqueId(r)
    PROVE  Inv'
<1>1. /\ r = Root /\ Calling(r, {"GetUniqueId"}) /\ Returns(r)
      /\ unique_id' = [unique_id EXCEPT ![r] = drawn + 1] /\ drawn' = drawn + 1
      /\ published' = Append(published, unique_id'[r])
      /\ UNCHANGED <<script, gen, used, comm, live, depth, data, status>>
  BY DEF GetUniqueId, NewId
<1>2. /\ Types /\ drawn \in Nat /\ unique_id \in [Ranks -> Nat \cup {Null}]
      /\ published \in Seq(Nat) /\ script \in Scripts
  BY DEF Inv, Types, TypeOK
<1>3. /\ pc' \in [Ranks -> 1 .. End] /\ pc'[r] = pc[r] + 1
      /\ \A q \in Ranks \ {r} : pc'[q] = pc[q]
  BY <1>1, <1>2, Goes
<1>4. ById /\ pc[r] = IdPlace /\ pc[r] \notin Places(script, {"CommDestroy"})
  <2>1. script.calls[pc[r]].call \in {"GetUniqueId"}
    BY <1>1, <1>2, CallAt
  <2> QED
    BY <1>1, <1>2, <2>1, CallAt
<1>5. unique_id'[r] = drawn + 1 /\ \A q \in Ranks \ {r} : unique_id'[q] = unique_id[q]
  BY <1>1, <1>2
<1>6. /\ Len(published') = Len(published) + 1 /\ Len(published) \in Nat
      /\ \A i \in 1 .. Len(published) : published'[i] = published[i]
      /\ published'[Len(published) + 1] = drawn + 1
      /\ published' \in Seq(Nat)
  <2>1. drawn + 1 \in Nat
    BY <1>2
  <2> QED
    BY <1>1, <1>2, <1>5, <2>1, AppendProperties, LenProperties
<1>7. Types'
  <2>1. TypeOK'
    <3>1. TypeOK /\ End \in Nat /\ group' = group
      BY <1>1, <1>2, PlaceNumbers DEF Types, data
    <3>2. pc' \in [Ranks -> Nat] /\ drawn' \in Nat
      BY <1>1, <1>2, <1>3, <3>1
    <3>3. unique_id' \in [Ranks -> Nat \cup {Null}]
      BY <1>1, <1>2
    <3> QED
      BY <1>1, <3>1, <3>2, <3>3 DEF TypeOK
  <2> QED
    BY <1>1, <1>2, <1>3, <1>6, <2>1, ScriptStays DEF Types, data
<1>8. DrawnById
  BY <1>4 DEF Inv, Drawn
<1>9. drawn = gen[r] - 1
  BY <1>1, <1>2, <1>4, <1>8, PlaceNumbers DEF DrawnById
<1>10. DrawnById'
  <2>1. drawn' = IF pc'[Root] > IdPlace THEN gen[Root] ELSE gen[Root] - 1
    <3>1. r = Root /\ pc'[r] = IdPlace + 1 /\ IdPlace \in Nat /\ drawn' = drawn + 1 /\ gen[r] \in Nat
      BY <1>1, <1>2, <1>3, <1>4, PlaceNumbers
    <3> QED
      BY <1>9, <3>1
  <2>2. Len(published') = drawn' /\ \A g \in 1 .. drawn' : published'[g] = g
    BY <1>1, <1>2, <1>6, <1>8 DEF DrawnById
  <2>3. ASSUME NEW q \in Ranks
        PROVE  /\ pc'[q] > IdPlace => unique_id'[q] = gen[q]
               /\ pc'[q] < InitPlace => Len(used[q]) = gen[q] - 1
               /\ pc'[q] = InitPlace => Len(used[q]) \in {gen[q] - 1, gen[q]}
               /\ pc'[q] > InitPlace => Len(used[q]) = gen[q]
    <3>1. CASE q = r
      <4>1. /\ unique_id'[q] = gen[q] /\ pc'[q] = IdPlace + 1 /\ IdPlace < InitPlace
            /\ pc[q] < InitPlace /\ ~(pc'[q] > InitPlace)
        <5>1. IdPlace \in 1 .. InitPlace - 1 /\ InitPlace \in Nat /\ gen[q] \in Nat
          BY <1>2, <1>4, PlaceNumbers
        <5>2. unique_id'[q] = drawn + 1 /\ drawn = gen[q] - 1 /\ pc'[q] = IdPlace + 1 /\ pc[q] = IdPlace
          BY <1>3, <1>4, <1>5, <1>9, <3>1
        <5> QED
          BY <5>1, <5>2
      <4>2. Len(used[q]) = gen[q] - 1
        BY <4>1, <1>8 DEF DrawnById
      <4> QED
        BY <4>1, <4>2
    <3>2. CASE q # r
      BY <1>3, <1>5, <1>8, <3>2 DEF DrawnById
    <3> QED
      BY <3>1, <3>2
  <2> QED
    BY <1>1, <2>1, <2>2, <2>3, ScriptStays DEF DrawnById
<1>11. InOrder' /\ Drawn'
  BY <1>1, <1>4, <1>10, ScriptStays DEF Inv, InOrder, Drawn
<1>12. HeldInBetween' /\ LiveHeld'
  <2>1. pc' \in [Ranks -> Int]
    BY <1>2, <1>3, PlaceNumbers
  <2> QED
    BY <1>1, <1>3, <1>4, <2>1, HeldKept
<1>13. WaitOnOwn'
  BY <1>1 DEF Inv, WaitOnOwn, HasHandle, data
<1>14. DepthKept'
  BY <1>1, DepthStays
<1> QED
  BY <1>7, <1>11, <1>12, <1>13, <1>14 DEF Inv

LEMMA LoadKeeps ==
    ASSUME Inv, NEW r \in Ranks, Load(r)
    PROVE  Inv'
<1>1. /\ r # Root /\ Calling(r, {"GetUniqueId"}) /\ Returns(r)
      /\ Len(published) >= gen[r]
      /\ unique_id' = [unique_id EXCEPT ![r] = published[gen[r]]]
      /\ UNCHANGED <<script, gen, drawn, published, used, comm, live, depth, data, status>>
  BY DEF Load
<1>2. /\ Types /\ drawn \in Nat /\ unique_id \in [Ranks -> Nat \cup {Null}]
      /\ published \in Seq(Nat) /\ script \in Scripts
  BY DEF Inv, Types, TypeOK
<1>3. /\ pc' \in [Ranks -> 1 .. End] /\ pc'[r] = pc[r] + 1
      /\ \A q \in Ranks \ {r} : pc'[q] = pc[q]
  BY <1>1, <1>2, Goes
<1>4. ById /\ pc[r] = IdPlace /\ pc[r] \notin Places(script, {"CommDestroy"})
  <2>1. script.calls[pc[r]].call \in {"GetUniqueId"}
    BY <1>1, <1>2, CallAt
  <2> QED
    BY <1>1, <1>2, <2>1, CallAt
<1>5. DrawnById
  BY <1>4 DEF Inv, Drawn
<1>6. published[gen[r]] = gen[r] /\ gen[r] \in Nat
  BY <1>1, <1>2, <1>5, PlaceNumbers DEF DrawnById
<1>7. unique_id'[r] = gen[r] /\ \A q \in Ranks \ {r} : unique_id'[q] = unique_id[q]
  BY <1>1, <1>2, <1>6
<1>8. Types'
  <2>1. unique_id' \in [Ranks -> Nat \cup {Null}]
    BY <1>1, <1>2, <1>6
  <2>2. pc' \in [Ranks -> Nat]
    BY <1>2, <1>3, PlaceNumbers
  <2>3. TypeOK'
    BY <1>1, <1>2, <2>1, <2>2 DEF Types, TypeOK, data
  <2> QED
    BY <1>1, <1>2, <1>3, <2>3, ScriptStays DEF Types, data
<1>9. DrawnById'
  <2>1. ASSUME NEW q \in Ranks
        PROVE  /\ pc'[q] > IdPlace => unique_id'[q] = gen[q]
               /\ pc'[q] < InitPlace => Len(used[q]) = gen[q] - 1
               /\ pc'[q] = InitPlace => Len(used[q]) \in {gen[q] - 1, gen[q]}
               /\ pc'[q] > InitPlace => Len(used[q]) = gen[q]
    <3>1. CASE q = r
      <4>1. /\ unique_id'[q] = gen[q] /\ pc'[q] = IdPlace + 1 /\ IdPlace < InitPlace
            /\ pc[q] < InitPlace /\ ~(pc'[q] > InitPlace)
        BY <1>2, <1>3, <1>4, <1>7, <3>1, PlaceNumbers
      <4>2. Len(used[q]) = gen[q] - 1
        BY <4>1, <1>5 DEF DrawnById
      <4> QED
        BY <4>1, <4>2
    <3>2. CASE q # r
      BY <1>3, <1>5, <1>7, <3>2 DEF DrawnById
    <3> QED
      BY <3>1, <3>2
  <2>2. pc'[Root] = pc[Root]
    BY <1>1, <1>2, <1>3, PlaceNumbers
  <2> QED
    BY <1>1, <1>5, <2>1, <2>2, ScriptStays DEF DrawnById
<1>10. InOrder' /\ Drawn'
  BY <1>1, <1>4, <1>9, ScriptStays DEF Inv, InOrder, Drawn
<1>11. HeldInBetween' /\ LiveHeld'
  <2>1. pc' \in [Ranks -> Int]
    BY <1>2, <1>3, PlaceNumbers
  <2> QED
    BY <1>1, <1>3, <1>4, <2>1, HeldKept
<1>12. WaitOnOwn'
  BY <1>1 DEF Inv, WaitOnOwn, HasHandle, data
<1>13. DepthKept'
  BY <1>1, DepthStays
<1> QED
  BY <1>8, <1>10, <1>11, <1>12, <1>13 DEF Inv

-----------------------------------------------------------------------------
(* Making and destroying communicators.                                      *)

LEMMA Wrapped ==
    ASSUME NEW h \in Handles \cup {Null}
    PROVE  Wrap(h) # Null /\ Wrap(h).handle = h
BY CommAssumption DEF Wrap, Handles, Ranks

LEMMA NullIsNoHandle == \A h \in Handles : h # Null
BY CommAssumption DEF Handles, Ranks

LEMMA CommInitRankKeeps ==
    ASSUME Inv, NEW r \in Ranks, CommInitRank(r)
    PROVE  Inv'
<1>1. /\ Calling(r, {"CommInitRank"}) /\ Len(used[r]) # gen[r]
      /\ used' = [used EXCEPT ![r] = Append(@, unique_id[r])]
      /\ comm' = [comm EXCEPT ![r] = IF @ = Null THEN Wrap(Null) ELSE @]
      /\ UNCHANGED <<script, pc, gen, drawn, unique_id, published, live, depth, data, status>>
  BY DEF CommInitRank, Joining
<1>2. /\ Types /\ used \in [Ranks -> Seq(Nat)] /\ script \in Scripts
      /\ comm \in [Ranks -> {Null} \cup {Wrap(h) : h \in Handles \cup {Null}}]
  BY DEF Inv, Types, TypeOK
<1>3. ById /\ pc[r] = InitPlace
  BY <1>1, <1>2, CallAt DEF Inits
<1>4. DrawnById
  BY <1>3 DEF Inv, Drawn
<1>5. unique_id[r] = gen[r] /\ Len(used[r]) = gen[r] - 1
  BY <1>1, <1>2, <1>3, <1>4, PlaceNumbers DEF DrawnById
<1>6. /\ used' \in [Ranks -> Seq(Nat)] /\ \A q \in Ranks \ {r} : used'[q] = used[q]
      /\ Len(used'[r]) = gen[r] /\ used'[r][gen[r]] = gen[r]
      /\ \A g \in 1 .. gen[r] - 1 : used'[r][g] = used[r][g]
  <2>1. used[r] \in Seq(Nat) /\ gen[r] \in Nat
    BY <1>2, PlaceNumbers
  <2>2. used'[r] = Append(used[r], gen[r]) /\ \A q \in Ranks \ {r} : used'[q] = used[q]
    BY <1>1, <1>2, <1>5
  <2>3. Append(used[r], gen[r]) \in Seq(Nat)
    BY <2>1, AppendProperties
  <2>4. /\ Len(Append(used[r], gen[r])) = Len(used[r]) + 1
        /\ Append(used[r], gen[r])[Len(used[r]) + 1] = gen[r]
        /\ \A g \in 1 .. Len(used[r]) : Append(used[r], gen[r])[g] = used[r][g]
    BY <2>1, AppendProperties
  <2>5. used' \in [Ranks -> Seq(Nat)]
    BY <1>1, <1>2, <1>5, <2>3
  <2> QED
    BY <1>5, <2>1, <2>2, <2>4, <2>5
<1>7. \A q \in Ranks : /\ HasHandle(q)' <=> HasHandle(q)
                       /\ HasHandle(q) => comm'[q].handle = comm[q].handle
                       /\ comm'[q] \in {Null} \cup {Wrap(h) : h \in Handles \cup {Null}}
  BY <1>1, <1>2, Wrapped DEF HasHandle
<1>8. Types'
  <2>1. comm' \in [Ranks -> {Null} \cup {Wrap(h) : h \in Handles \cup {Null}}]
    BY <1>1, <1>2, <1>7
  <2>2. \A q \in Ranks : comm'[q] # Null => comm'[q].handle \in Handles \cup {Null}
    BY <1>7, Wrapped
  <2>3. TypeOK'
    BY <1>1, <1>2, <2>2 DEF Types, TypeOK, data
  <2> QED
    BY <1>1, <1>2, <1>6, <2>1, <2>3, ScriptStays DEF Types, data
<1>9. InOrder'
  <2> SUFFICES ASSUME NEW q \in Ranks, NEW g \in 1 .. Len(used'[q]) PROVE used'[q][g] = g
    BY DEF InOrder
  <2>1. CASE q = r
    <3>1. g \in 1 .. gen[r] /\ gen[r] \in Nat
      BY <1>2, <1>6, <2>1, PlaceNumbers
    <3>2. CASE g = gen[r]
      BY <1>6, <2>1, <3>2
    <3>3. CASE g # gen[r]
      <4>1. g \in 1 .. gen[r] - 1 /\ g \in 1 .. Len(used[r])
        BY <1>5, <3>1, <3>3
      <4> QED
        BY <1>6, <2>1, <4>1 DEF Inv, InOrder
    <3> QED
      BY <3>2, <3>3
  <2>2. CASE q # r
    BY <1>6, <2>2 DEF Inv, InOrder
  <2> QED
    BY <2>1, <2>2
<1>10. Drawn'
  <2>1. InitPlace' = InitPlace /\ IdPlace' = IdPlace
    BY <1>1, ScriptStays
  <2>2. ASSUME NEW q \in Ranks
        PROVE  /\ pc[q] > IdPlace => unique_id[q] = gen[q]
               /\ pc[q] < InitPlace => Len(used'[q]) = gen[q] - 1
               /\ pc[q] = InitPlace => Len(used'[q]) \in {gen[q] - 1, gen[q]}
               /\ pc[q] > InitPlace => Len(used'[q]) = gen[q]
    <3>1. CASE q = r
      BY <1>2, <1>3, <1>4, <1>6, <3>1, PlaceNumbers DEF DrawnById
    <3>2. CASE q # r
      BY <1>4, <1>6, <3>2 DEF DrawnById
    <3> QED
      BY <3>1, <3>2
  <2>3. DrawnById'
    BY <1>1, <1>4, <2>1, <2>2 DEF DrawnById
  <2> QED
    BY <1>1, <1>3, <2>3, ScriptStays DEF Drawn
<1>11. HeldInBetween'
  BY <1>1, <1>7, ScriptStays DEF Inv, HeldInBetween
<1>12. LiveHeld'
  <2>1. \A h \in Handles : h # Null /\ h[2] \in Ranks
    BY NullIsNoHandle DEF Handles
  <2>2. \A h \in Handles : (comm'[h[2]] # Null /\ comm'[h[2]].handle = h) <=>
                           (comm[h[2]] # Null /\ comm[h[2]].handle = h)
    BY <1>7, <2>1 DEF HasHandle
  <2> QED
    BY <1>1, <2>2 DEF Inv, LiveHeld
<1>13. WaitOnOwn'
  BY <1>1, <1>7 DEF Inv, WaitOnOwn, data
<1>14. DepthKept'
  BY <1>1, ScriptStays DEF Inv, DepthKept
<1> QED
  BY <1>8, <1>9, <1>10, <1>11, <1>12, <1>13, <1>14 DEF Inv

LEMMA CommInitRankReturnsKeeps ==
    ASSUME Inv, NEW r \in Ranks, CommInitRankReturns(r)
    PROVE  Inv'
<1> DEFINE h == <<unique_id[r], r>>
<1>1. /\ Calling(r, {"CommInitRank"}) /\ Len(used[r]) = gen[r] /\ Returns(r)
      /\ live' = live \cup {h}
      /\ comm' = [comm EXCEPT ![r] = Wrap(h)]
      /\ UNCHANGED <<script, gen, ids, depth, data, status>>
  BY DEF CommInitRankReturns, Joining, SetMcclComm
<1>2. /\ Types /\ script \in Scripts /\ live \subseteq Handles
      /\ comm \in [Ranks -> {Null} \cup {Wrap(k) : k \in Handles \cup {Null}}]
  BY DEF Inv, Types, TypeOK
<1>3. ById /\ pc[r] = InitPlace /\ pc[r] \notin Places(script, {"CommDestroy"})
  <2>1. script.calls[pc[r]].call \in {"CommInitRank"}
    BY <1>1, <1>2, CallAt
  <2> QED
    BY <1>1, <1>2, <2>1, CallAt DEF Inits
<1>4. /\ pc' \in [Ranks -> 1 .. End] /\ pc'[r] = pc[r] + 1
      /\ \A q \in Ranks \ {r} : pc'[q] = pc[q]
  BY <1>1, <1>2, Goes
<1>5. DrawnById
  BY <1>3 DEF Inv, Drawn
<1>6. h \in Handles /\ h[2] = r
  <2>1. unique_id[r] = gen[r]
    BY <1>2, <1>3, <1>5, PlaceNumbers DEF DrawnById
  <2>2. gen[r] \in 0 .. Generations
    BY <1>2, PlaceNumbers
  <2> QED
    BY <2>1, <2>2 DEF Handles
<1>7. ~HasHandle(r)
  BY <1>2, <1>3, PlaceNumbers DEF Inv, HeldInBetween
<1>8. /\ comm'[r] = Wrap(h) /\ comm'[r] # Null /\ comm'[r].handle = h
      /\ HasHandle(r)' /\ \A q \in Ranks \ {r} : comm'[q] = comm[q]
  BY <1>1, <1>2, <1>6, Wrapped, NullIsNoHandle DEF HasHandle
<1> HIDE DEF h
<1>9. Types'
  <2>1. comm' \in [Ranks -> {Null} \cup {Wrap(k) : k \in Handles \cup {Null}}]
    BY <1>1, <1>2, <1>6
  <2>2. \A q \in Ranks : comm'[q] # Null => comm'[q].handle \in Handles \cup {Null}
    BY <1>2, <1>6, <1>8, Wrapped
  <2>3. pc' \in [Ranks -> Nat] /\ live' \subseteq Handles
    BY <1>1, <1>2, <1>4, <1>6, PlaceNumbers
  <2>4. TypeOK'
    BY <1>1, <1>2, <2>2, <2>3 DEF Types, TypeOK, data, ids
  <2> QED
    BY <1>1, <1>2, <1>4, <2>1, <2>4, ScriptStays DEF Types, data, ids
<1>10. InOrder'
  BY <1>1 DEF Inv, InOrder, ids
<1>11. Drawn'
  <2>1. ASSUME NEW q \in Ranks
        PROVE  /\ pc'[q] > IdPlace => unique_id[q] = gen[q]
               /\ pc'[q] < InitPlace => Len(used[q]) = gen[q] - 1
               /\ pc'[q] = InitPlace => Len(used[q]) \in {gen[q] - 1, gen[q]}
               /\ pc'[q] > InitPlace => Len(used[q]) = gen[q]
    <3>1. CASE q = r
      <4>1. /\ pc[q] > IdPlace /\ pc'[q] > InitPlace
            /\ ~(pc'[q] < InitPlace) /\ pc'[q] # InitPlace
        BY <1>2, <1>3, <1>4, <3>1, PlaceNumbers
      <4>2. unique_id[q] = gen[q] /\ Len(used[q]) = gen[q]
        BY <1>1, <1>5, <3>1, <4>1 DEF DrawnById
      <4> QED
        BY <4>1, <4>2
    <3>2. CASE q # r
      BY <1>4, <1>5, <3>2 DEF DrawnById
    <3> QED
      BY <3>1, <3>2
  <2>2. pc'[Root] > IdPlace <=> pc[Root] > IdPlace
    BY <1>2, <1>3, <1>4, PlaceNumbers
  <2>3. DrawnById'
    BY <1>1, <1>5, <2>1, <2>2, ScriptStays DEF DrawnById, ids
  <2> QED
    BY <1>1, <1>3, <2>3, ScriptStays DEF Drawn
<1>12. HeldInBetween'
  <2>1. ASSUME NEW q \in Ranks, HasHandle(q)'
        PROVE  /\ comm'[q].handle[2] = q
               /\ ById => pc'[q] > InitPlace
               /\ \A d \in Places(script, {"CommDestroy"}) : d > InitPlace => pc'[q] <= d
    <3>1. CASE q = r
      BY <1>2, <1>3, <1>4, <1>6, <1>8, <3>1, PlaceNumbers
    <3>2. CASE q # r
      BY <1>4, <1>8, <2>1, <3>2 DEF Inv, HeldInBetween, HasHandle
    <3> QED
      BY <3>1, <3>2
  <2> QED
    BY <1>1, <2>1, ScriptStays DEF HeldInBetween
<1>13. LiveHeld'
  <2>1. ASSUME NEW k \in Handles
        PROVE  k \in live' <=> (comm'[k[2]] # Null /\ comm'[k[2]].handle = k)
    <3>1. k[2] \in Ranks /\ k # Null /\ (k \in live <=> (comm[k[2]] # Null /\ comm[k[2]].handle = k))
      BY NullIsNoHandle DEF Handles, Inv, LiveHeld
    <3>2. CASE k[2] = r
      BY <1>1, <1>7, <1>8, <3>1, <3>2 DEF HasHandle
    <3>3. CASE k[2] # r
      BY <1>1, <1>6, <1>8, <3>1, <3>3
    <3> QED
      BY <3>2, <3>3
  <2>2. live' \subseteq Handles
    BY <1>1, <1>2, <1>6
  <2> QED
    BY <2>1, <2>2 DEF LiveHeld
<1>14. WaitOnOwn'
  <2>1. UNCHANGED <<group, stream>>
    BY <1>1 DEF data
  <2> QED
    BY <1>7, <1>8, <2>1 DEF Inv, WaitOnOwn, HasHandle
<1>15. DepthKept'
  BY <1>1, DepthStays
<1> QED
  BY <1>9, <1>10, <1>11, <1>12, <1>13, <1>14, <1>15 DEF Inv

LEMMA CommInitAllKeeps ==
    ASSUME Inv, NEW r \in Ranks, CommInitAll(r)
    PROVE  Inv'
<1> DEFINE n == drawn + 1
<1>1. /\ r = Root /\ Calling(r, {"CommInitAll"}) /\ Returns(r)
      /\ \A q \in Ranks : gen[q] = gen[r] /\ ~HasHandle(q)
      /\ drawn' = n /\ used' = [q \in Ranks |-> Append(used[q], n)]
      /\ live' = live \cup ({n} \X Ranks)
      /\ comm' = [q \in Ranks |-> Wrap(<<n, q>>)]
      /\ UNCHANGED <<script, gen, unique_id, published, depth, data, status>>
  BY DEF CommInitAll, SetMcclComm
<1>2. /\ Types /\ drawn \in Nat /\ script \in Scripts /\ live \subseteq Handles
      /\ used \in [Ranks -> Seq(Nat)]
  BY DEF Inv, Types, TypeOK
<1>3. ~ById /\ pc[r] = InitPlace
  <2>1. script.calls[pc[r]].call \in {"CommInitAll"}
    BY <1>1, <1>2, CallAt
  <2> QED
    BY <1>1, <1>2, <2>1, CallAt DEF Inits
<1>4. /\ pc' \in [Ranks -> 1 .. End] /\ pc'[r] = pc[r] + 1
      /\ \A q \in Ranks \ {r} : pc'[q] = pc[q]
  BY <1>1, <1>2, Goes
<1>5. DrawnForAll
  BY <1>3 DEF Inv, Drawn
<1>6. drawn = gen[r] - 1 /\ gen[r] \in 1 .. Generations /\ n = gen[r] /\ n \in Nat
  BY <1>1, <1>2, <1>3, <1>5, PlaceNumbers DEF DrawnForAll
<1>7. \A q \in Ranks : pc[q] <= InitPlace
  <2> SUFFICES ASSUME NEW q \in Ranks PROVE pc[q] <= InitPlace
    OBVIOUS
  <2>1. pc[q] > InitPlace => gen[q] <= drawn
    BY <1>5 DEF DrawnForAll
  <2>2. gen[q] = gen[r] /\ pc[q] \in Nat /\ InitPlace \in Nat
    BY <1>1, <1>2, PlaceNumbers
  <2> QED
    BY <1>6, <2>1, <2>2
<1> HIDE DEF n
<1>8. ASSUME NEW q \in Ranks
      PROVE  /\ used'[q] \in Seq(Nat) /\ Len(used'[q]) = n
             /\ used'[q][n] = n /\ \A g \in 1 .. n - 1 : used'[q][g] = used[q][g]
  <2>1. used'[q] = Append(used[q], n) /\ used[q] \in Seq(Nat) /\ Len(used[q]) = n - 1
    BY <1>1, <1>2, <1>5, <1>6 DEF DrawnForAll
  <2> QED
    BY <1>6, <2>1, AppendProperties
<1>9. ASSUME NEW q \in Ranks
      PROVE  /\ <<n, q>> \in Handles /\ comm'[q] = Wrap(<<n, q>>)
             /\ comm'[q] # Null /\ comm'[q].handle = <<n, q>> /\ HasHandle(q)'
  <2>1. <<n, q>> \in Handles
    BY <1>6 DEF Handles
  <2> QED
    BY <1>1, <2>1, Wrapped, NullIsNoHandle DEF HasHandle
<1>10. Types'
  <2>1. comm' \in [Ranks -> {Null} \cup {Wrap(k) : k \in Handles \cup {Null}}]
    BY <1>1, <1>9
  <2>2. \A q \in Ranks : comm'[q] # Null => comm'[q].handle \in Handles \cup {Null}
    BY <1>9
  <2>3. pc' \in [Ranks -> Nat] /\ live' \subseteq Handles /\ drawn' \in Nat
    <3>1. pc' \in [Ranks -> Nat]
      BY <1>2, <1>4, PlaceNumbers
    <3>2. {n} \X Ranks \subseteq Handles
      BY <1>9
    <3> QED
      BY <1>1, <1>2, <1>6, <3>1, <3>2
  <2>4. TypeOK'
    BY <1>1, <1>2, <2>2, <2>3 DEF Types, TypeOK, data
  <2>5. used' \in [Ranks -> Seq(Nat)]
    BY <1>1, <1>8
  <2> QED
    BY <1>1, <1>2, <1>4, <2>1, <2>4, <2>5, ScriptStays DEF Types, data
<1>11. InOrder'
  <2> SUFFICES ASSUME NEW q \in Ranks, NEW g \in 1 .. Len(used'[q]) PROVE used'[q][g] = g
    BY DEF InOrder
  <2>1. g \in 1 .. n
    BY <1>8
  <2>2. CASE g = n
    BY <1>8, <2>2
  <2>3. CASE g # n
    <3>1. g \in 1 .. n - 1 /\ g \in 1 .. Len(used[q])
      BY <1>2, <1>5, <1>6, <2>1, <2>3 DEF DrawnForAll
    <3> QED
      BY <1>8, <3>1 DEF Inv, InOrder
  <2> QED
    BY <2>2, <2>3
<1>12. Drawn'
  <2>1. drawn' = IF pc'[Root] > InitPlace THEN gen[Root] ELSE gen[Root] - 1
    BY <1>1, <1>2, <1>3, <1>4, <1>6, PlaceNumbers
  <2>2. \A q \in Ranks : Len(used'[q]) = drawn' /\ gen[q] <= drawn'
    BY <1>1, <1>6, <1>8
  <2>3. DrawnForAll'
    <3>1. \A q \in Ranks : gen[q] - 1 <= drawn'
      BY <1>1, <1>6
    <3> QED
      BY <1>1, <2>1, <2>2, <3>1, ScriptStays DEF DrawnForAll
  <2> QED
    BY <1>1, <1>3, <2>3, ScriptStays DEF Drawn
<1>13. HeldInBetween'
  <2>1. ASSUME NEW q \in Ranks, NEW d \in Places(script, {"CommDestroy"}), d > InitPlace
        PROVE  pc'[q] <= d
    <3>1. pc[q] \in Int /\ pc[q] <= InitPlace /\ d \in Int /\ InitPlace \in Int
      BY <1>2, <1>7, PlaceNumbers
    <3>2. pc'[q] = pc[q] \/ pc'[q] = pc[q] + 1
      BY <1>4
    <3> QED
      BY <2>1, <3>1, <3>2
  <2> QED
    BY <1>1, <1>3, <1>9, <2>1, ScriptStays DEF HeldInBetween
<1>14. LiveHeld'
  <2>1. live = {}
    BY <1>1, NullIsNoHandle DEF Inv, LiveHeld, Handles, HasHandle
  <2>2. ASSUME NEW k \in Handles
        PROVE  k \in live' <=> (comm'[k[2]] # Null /\ comm'[k[2]].handle = k)
    <3>1. k[2] \in Ranks /\ k = <<k[1], k[2]>>
      BY DEF Handles
    <3>2. k \in live' <=> k[1] = n
      BY <1>1, <2>1, <3>1
    <3>3. comm'[k[2]].handle = k <=> k[1] = n
      <4>1. comm'[k[2]].handle = <<n, k[2]>>
        BY <1>9, <3>1
      <4>2. <<n, k[2]>> = <<k[1], k[2]>> <=> k[1] = n
        OBVIOUS
      <4> QED
        BY <3>1, <4>1, <4>2
    <3> QED
      BY <1>9, <3>1, <3>2, <3>3
  <2>3. live' \subseteq Handles
    BY <1>1, <1>9, <2>1
  <2> QED
    BY <2>2, <2>3 DEF LiveHeld
<1>15. WaitOnOwn'
  <2>1. UNCHANGED <<group, stream>>
    BY <1>1 DEF data
  <2> QED
    BY <1>1, <2>1 DEF Inv, WaitOnOwn
<1>16. DepthKept'
  BY <1>1, DepthStays
<1> QED
  BY <1>10, <1>11, <1>12, <1>13, <1>14, <1>15, <1>16 DEF Inv

LEMMA FindCommKeeps ==
    ASSUME Inv, NEW r \in Ranks, FindComm(r)
    PROVE  Inv'
<1>1. /\ r # Root /\ Calling(r, {"CommInitAll"}) /\ Returns(r) /\ Len(used[r]) = gen[r]
      /\ UNCHANGED <<script, gen, ids, comm, live, depth, data, status>>
  BY DEF FindComm, Joining
<1>2. Types /\ script \in Scripts
  BY DEF Inv, Types, TypeOK
<1>3. ~ById /\ pc[r] = InitPlace /\ pc[r] \notin Places(script, {"CommDestroy"})
  <2>1. script.calls[pc[r]].call \in {"CommInitAll"}
    BY <1>1, <1>2, CallAt
  <2> QED
    BY <1>1, <1>2, <2>1, CallAt DEF Inits
<1>4. /\ pc' \in [Ranks -> 1 .. End] /\ pc'[r] = pc[r] + 1
      /\ \A q \in Ranks \ {r} : pc'[q] = pc[q]
  BY <1>1, <1>2, Goes
<1>5. Types'
  <2>1. pc' \in [Ranks -> Nat]
    BY <1>2, <1>4, PlaceNumbers
  <2>2. TypeOK'
    BY <1>1, <1>2, <2>1 DEF Types, TypeOK, data, ids
  <2> QED
    BY <1>1, <1>2, <1>4, <2>2, ScriptStays DEF Types, data, ids
<1>6. InOrder'
  BY <1>1 DEF Inv, InOrder, ids
<1>7. Drawn'
  <2>1. DrawnForAll
    BY <1>3 DEF Inv, Drawn
  <2>2. pc'[Root] = pc[Root]
    BY <1>1, <1>2, <1>4, PlaceNumbers
  <2>3. gen[r] <= drawn
    BY <1>1, <1>2, <2>1, PlaceNumbers DEF DrawnForAll
  <2>4. \A q \in Ranks : pc'[q] > InitPlace => gen[q] <= drawn
    BY <1>4, <2>1, <2>3 DEF DrawnForAll
  <2>5. DrawnForAll'
    BY <1>1, <2>1, <2>2, <2>4, ScriptStays DEF DrawnForAll, ids
  <2> QED
    BY <1>1, <1>3, <2>5, ScriptStays DEF Drawn
<1>8. HeldInBetween' /\ LiveHeld'
  <2>1. pc' \in [Ranks -> Int]
    BY <1>2, <1>4, PlaceNumbers
  <2> QED
    BY <1>1, <1>3, <1>4, <2>1, HeldKept
<1>9. WaitOnOwn'
  BY <1>1 DEF Inv, WaitOnOwn, HasHandle, data
<1>10. DepthKept'
  BY <1>1, DepthStays
<1> QED
  BY <1>5, <1>6, <1>7, <1>8, <1>9, <1>10 DEF Inv

(* The stream of the rank has run empty and no group is open: no call is     *)
(* left that could use the handle.                                           *)
LEMMA CommDestroyKeeps ==
    ASSUME Inv, NEW r \in Ranks, CommDestroy(r)
    PROVE  Inv'
<1>1. /\ Calling(r, {"CommDestroy"}) /\ Returns(r) /\ stream[r] = <<>>
      /\ live' = IF HasHandle(r) THEN live \ {comm[r].handle} ELSE live
      /\ comm' = [comm EXCEPT ![r] = IF comm[r] = Null THEN Null ELSE Wrap(Null)]
      /\ UNCHANGED <<script, gen, ids, depth, data, status>>
  BY DEF CommDestroy, Destroyed
<1>2. /\ Types /\ script \in Scripts /\ live \subseteq Handles
      /\ comm \in [Ranks -> {Null} \cup {Wrap(k) : k \in Handles \cup {Null}}]
  BY DEF Inv, Types, TypeOK
<1>3. script.calls[pc[r]].call \in {"CommDestroy"}
  BY <1>1, <1>2, CallAt
<1>4. /\ pc' \in [Ranks -> 1 .. End] /\ pc'[r] = pc[r] + 1
      /\ \A q \in Ranks \ {r} : pc'[q] = pc[q]
  BY <1>1, <1>2, Goes
<1>5. pc[r] # InitPlace /\ (ById => pc[r] # IdPlace)
  BY <1>1, <1>2, <1>3, CallAt DEF Inits
<1>6. group[r] = {}
  <2>1. depth[r] = 0
    BY <1>1, <1>2, <1>3, DepthAt DEF Inv, DepthKept
  <2> QED
    BY <2>1 DEF Inv, Types, TypeOK
<1>7. /\ ~HasHandle(r)' /\ \A q \in Ranks \ {r} : comm'[q] = comm[q]
      /\ comm'[r] \in {Null} \cup {Wrap(k) : k \in Handles \cup {Null}}
  BY <1>1, <1>2, Wrapped DEF HasHandle
<1>8. pc' \in [Ranks -> Int] /\ pc' \in [Ranks -> Nat]
  BY <1>2, <1>4, PlaceNumbers
<1>9. Types'
  <2>1. comm' \in [Ranks -> {Null} \cup {Wrap(k) : k \in Handles \cup {Null}}]
    BY <1>1, <1>2, <1>7
  <2>2. \A q \in Ranks : comm'[q] # Null => comm'[q].handle \in Handles \cup {Null}
    BY <1>2, <1>7, Wrapped
  <2>3. live' \subseteq Handles
    BY <1>1, <1>2
  <2>4. TypeOK'
    BY <1>1, <1>2, <1>8, <2>2, <2>3 DEF Types, TypeOK, data, ids
  <2> QED
    BY <1>1, <1>2, <1>4, <2>1, <2>4, ScriptStays DEF Types, data, ids
<1>10. InOrder' /\ Drawn'
  BY <1>1, <1>4, <1>5, <1>8, DrawnKept
<1>11. HeldInBetween'
  <2>1. ASSUME NEW q \in Ranks, HasHandle(q)'
        PROVE  /\ comm'[q].handle[2] = q
               /\ ById => pc'[q] > InitPlace
               /\ \A d \in Places(script, {"CommDestroy"}) : d > InitPlace => pc'[q] <= d
    <3>1. q # r
      BY <1>7, <2>1
    <3> QED
      BY <1>4, <1>7, <2>1, <3>1 DEF Inv, HeldInBetween, HasHandle
  <2> QED
    BY <1>1, <2>1, ScriptStays DEF HeldInBetween
<1>12. LiveHeld'
  <2>1. ASSUME NEW k \in Handles
        PROVE  k \in live' <=> (comm'[k[2]] # Null /\ comm'[k[2]].handle = k)
    <3>1. k[2] \in Ranks /\ k # Null /\ (k \in live <=> (comm[k[2]] # Null /\ comm[k[2]].handle = k))
      BY NullIsNoHandle DEF Handles, Inv, LiveHeld
    <3>2. CASE k[2] = r
      BY <1>1, <1>7, <3>1, <3>2 DEF HasHandle
    <3>3. CASE k[2] # r
      <4>1. HasHandle(r) => comm[r].handle # k
        BY <3>3 DEF Inv, HeldInBetween
      <4> QED
        BY <1>1, <1>7, <3>1, <3>3, <4>1
    <3> QED
      BY <3>2, <3>3
  <2>2. live' \subseteq Handles
    BY <1>1, <1>2
  <2> QED
    BY <2>1, <2>2 DEF LiveHeld
<1>13. WaitOnOwn'
  <2>1. UNCHANGED <<group, stream>>
    BY <1>1 DEF data
  <2>2. Len(stream[r]) = 0
    BY <1>1
  <2>3. ASSUME NEW q \in Ranks
        PROVE  /\ \A c \in group[q] : HasHandle(q)' /\ c.handle = comm'[q].handle
               /\ \A i \in 1 .. Len(stream[q]) : \A c \in stream[q][i] :
                    HasHandle(q)' /\ c.handle = comm'[q].handle
    <3>1. CASE q = r
      BY <1>6, <2>2, <3>1
    <3>2. CASE q # r
      BY <1>7, <3>2 DEF Inv, WaitOnOwn, HasHandle
    <3> QED
      BY <3>1, <3>2
  <2> QED
    BY <2>1, <2>3 DEF WaitOnOwn
<1>14. DepthKept'
  BY <1>1, DepthStays
<1> QED
  BY <1>9, <1>10, <1>11, <1>12, <1>13, <1>14 DEF Inv

-----------------------------------------------------------------------------
(* Groups, calls and what MCCL does with them.                               *)

Own(r) == {c \in CallsOf : HasHandle(r) /\ c.handle = comm[r].handle}

LEMMA OwnCalls ==
    ASSUME group \in [Ranks -> SUBSET CallsOf], stream \in [Ranks -> Seq(SUBSET CallsOf)]
    PROVE  WaitOnOwn <=> \A r \in Ranks : group[r] \subseteq Own(r) /\ stream[r] \in Seq(SUBSET Own(r))
<1>1. ASSUME NEW r \in Ranks
      PROVE  stream[r] \in Seq(SUBSET Own(r)) <=>
             \A i \in 1 .. Len(stream[r]) : \A c \in stream[r][i] :
                HasHandle(r) /\ c.handle = comm[r].handle
  <2>1. /\ Len(stream[r]) \in Nat /\ stream[r] \in [1 .. Len(stream[r]) -> SUBSET CallsOf]
    BY LenProperties
  <2>2. ASSUME stream[r] \in Seq(SUBSET Own(r))
        PROVE  \A i \in 1 .. Len(stream[r]) : stream[r][i] \subseteq Own(r)
    BY <2>2, ElementOfSeq
  <2>3. ASSUME \A i \in 1 .. Len(stream[r]) : \A c \in stream[r][i] :
                  HasHandle(r) /\ c.handle = comm[r].handle
        PROVE  stream[r] \in Seq(SUBSET Own(r))
    <3>1. \A i \in 1 .. Len(stream[r]) : stream[r][i] \in SUBSET Own(r)
      BY <2>1, <2>3 DEF Own
    <3>2. stream[r] \in [1 .. Len(stream[r]) -> SUBSET Own(r)]
      BY <2>1, <3>1
    <3> QED
      BY <2>1, <3>2, IsASeq
  <2> QED
    BY <2>2, <2>3 DEF Own
<1>2. ASSUME NEW r \in Ranks
      PROVE  group[r] \subseteq Own(r) <=>
             \A c \in group[r] : HasHandle(r) /\ c.handle = comm[r].handle
  BY DEF Own
<1> QED
  BY <1>1, <1>2 DEF WaitOnOwn

(* A step of ranks that are about no id, no communicator: what is left to    *)
(* show is about the calls.                                                  *)
LEMMA CallsStep ==
    ASSUME Inv, UNCHANGED <<script, gen, ids, comm, live>>, pc' \in [Ranks -> 1 .. End],
           \A r \in Ranks : \/ pc'[r] = pc[r]
                            \/ /\ pc'[r] = pc[r] + 1 /\ pc[r] # InitPlace
                               /\ ById => pc[r] # IdPlace
                               /\ pc[r] \notin Places(script, {"CommDestroy"}),
           DepthKept', depth' \in [Ranks -> 0 .. MaxDepth],
           status' \in [Ranks -> {"running", "aborted"}],
           group' \in [Ranks -> SUBSET CallsOf], stream' \in [Ranks -> Seq(SUBSET CallsOf)],
           \A r \in Ranks : /\ depth'[r] = 0 => group'[r] = {}
                            /\ group'[r] \subseteq Own(r)
                            /\ stream'[r] \in Seq(SUBSET Own(r))
    PROVE  Inv'
<1>1. Types
  BY DEF Inv
<1>2. pc' \in [Ranks -> Nat] /\ pc' \in [Ranks -> Int]
  BY <1>1, PlaceNumbers
<1>3. Types'
  <2>1. TypeOK'
    BY <1>1, <1>2 DEF Types, TypeOK, ids
  <2> QED
    BY <1>1, <2>1, ScriptStays DEF Types, ids
<1>4. InOrder' /\ Drawn'
  BY <1>2, DrawnKept
<1>5. HeldInBetween' /\ LiveHeld'
  BY <1>2, HeldKept
<1>6. WaitOnOwn'
  <2>1. \A r \in Ranks : /\ \A c \in group'[r] : HasHandle(r) /\ c.handle = comm[r].handle
                         /\ \A i \in 1 .. Len(stream'[r]) : stream'[r][i] \in SUBSET Own(r)
    BY ElementOfSeq DEF Own
  <2>2. \A r \in Ranks : HasHandle(r)' <=> HasHandle(r)
    BY DEF HasHandle
  <2> QED
    BY <2>1, <2>2 DEF WaitOnOwn, Own
<1> QED
  BY <1>3, <1>4, <1>5, <1>6 DEF Inv

LEMMA GroupStartKeeps ==
    ASSUME Inv, NEW r \in Ranks, GroupStart(r)
    PROVE  Inv'
<1>1. /\ Calling(r, {"GroupStart"}) /\ Returns(r) /\ depth[r] < MaxDepth
      /\ depth' = [depth EXCEPT ![r] = @ + 1]
      /\ UNCHANGED <<script, gen, ids, comm, live, data, status>>
  BY DEF GroupStart
<1>2. /\ Types /\ script \in Scripts /\ depth \in [Ranks -> 0 .. MaxDepth]
      /\ status \in [Ranks -> {"running", "aborted"}] /\ MaxDepth \in Nat
  BY CommAssumption DEF Inv, Types, TypeOK
<1>3. script.calls[pc[r]].call \in {"GroupStart"}
  BY <1>1, <1>2, CallAt
<1>4. /\ pc[r] # InitPlace /\ (ById => pc[r] # IdPlace)
      /\ pc[r] \notin Places(script, {"CommDestroy"})
  BY <1>1, <1>2, <1>3, CallAt DEF Inits
<1>5. /\ pc' \in [Ranks -> 1 .. End] /\ pc'[r] = pc[r] + 1
      /\ \A q \in Ranks \ {r} : pc'[q] = pc[q]
  BY <1>1, <1>2, Goes
<1>6. depth' \in [Ranks -> 0 .. MaxDepth] /\ depth'[r] = depth[r] + 1
      /\ \A q \in Ranks \ {r} : depth'[q] = depth[q]
  BY <1>1, <1>2
<1>7. DepthKept'
  <2>1. Depths[pc[r] + 1] = Depths[pc[r]] + 1
    BY <1>1, <1>2, <1>3, DepthAt
  <2> QED
    BY <1>1, <1>5, <1>6, <2>1, ScriptStays DEF Inv, DepthKept
<1>8. \A q \in Ranks : /\ depth'[q] = 0 => group'[q] = {}
                       /\ group'[q] \subseteq Own(q) /\ stream'[q] \in Seq(SUBSET Own(q))
  <2>1. \A q \in Ranks : group[q] \subseteq Own(q) /\ stream[q] \in Seq(SUBSET Own(q))
    BY OwnCalls DEF Inv, Types
  <2>2. \A q \in Ranks : depth'[q] = 0 => depth[q] = 0
    BY <1>2, <1>6
  <2> QED
    BY <1>1, <1>2, <2>1, <2>2 DEF Types, TypeOK, data
<1>9. UNCHANGED <<group, stream>>
  BY <1>1 DEF data
<1> QED
  BY <1>1, <1>2, <1>4, <1>5, <1>6, <1>7, <1>8, <1>9, CallsStep DEF Types

(* The calls of the outermost group are launched as one.                     *)
LEMMA GroupEndKeeps ==
    ASSUME Inv, NEW r \in Ranks, GroupEnd(r)
    PROVE  Inv'
<1>1. /\ Calling(r, {"GroupEnd"})
      /\ IF depth[r] = 0
         THEN Aborts(r) /\ UNCHANGED <<pc, depth, group, stream>>
         ELSE /\ depth' = [depth EXCEPT ![r] = @ - 1]
              /\ stream' = IF depth[r] = 1 /\ group[r] # {}
                           THEN [stream EXCEPT ![r] = Append(@, group[r])] ELSE stream
              /\ group' = [group EXCEPT ![r] = IF depth[r] = 1 THEN {} ELSE group[r]]
              /\ Returns(r) /\ UNCHANGED status
      /\ UNCHANGED <<script, gen, ids, comm, live, buffer>>
  BY DEF GroupEnd, LeftInGroup
<1>2. /\ Types /\ script \in Scripts /\ depth \in [Ranks -> 0 .. MaxDepth]
      /\ status \in [Ranks -> {"running", "aborted"}] /\ MaxDepth \in Nat
      /\ group \in [Ranks -> SUBSET CallsOf] /\ stream \in [Ranks -> Seq(SUBSET CallsOf)]
      /\ \A q \in Ranks : depth[q] = 0 => group[q] = {}
      /\ pc \in [Ranks -> 1 .. End]
  BY CommAssumption DEF Inv, Types, TypeOK
<1>3. script.calls[pc[r]].call \in {"GroupEnd"}
  BY <1>1, <1>2, CallAt
<1>4. /\ pc[r] # InitPlace /\ (ById => pc[r] # IdPlace)
      /\ pc[r] \notin Places(script, {"CommDestroy"})
  BY <1>1, <1>2, <1>3, CallAt DEF Inits
<1>5. \A q \in Ranks : group[q] \subseteq Own(q) /\ stream[q] \in Seq(SUBSET Own(q))
  BY <1>2, OwnCalls DEF Inv
<1>6. CASE depth[r] = 0
  <2>1. Aborts(r) /\ UNCHANGED <<pc, depth, group, stream>>
    BY <1>1, <1>6
  <2>2. status' \in [Ranks -> {"running", "aborted"}]
    BY <1>2, <2>1 DEF Aborts
  <2>3. DepthKept'
    BY <1>1, <2>1, ScriptStays DEF Inv, DepthKept
  <2> QED
    BY <1>1, <1>2, <1>5, <2>1, <2>2, <2>3, CallsStep
<1>7. CASE depth[r] # 0
  <2>1. /\ depth' = [depth EXCEPT ![r] = @ - 1]
        /\ stream' = IF depth[r] = 1 /\ group[r] # {}
                     THEN [stream EXCEPT ![r] = Append(@, group[r])] ELSE stream
        /\ group' = [group EXCEPT ![r] = IF depth[r] = 1 THEN {} ELSE group[r]]
        /\ Returns(r) /\ UNCHANGED status
    BY <1>1, <1>7
  <2>2. /\ pc' \in [Ranks -> 1 .. End] /\ pc'[r] = pc[r] + 1
        /\ \A q \in Ranks \ {r} : pc'[q] = pc[q]
    BY <1>1, <1>2, <2>1, Goes
  <2>3. /\ depth' \in [Ranks -> 0 .. MaxDepth] /\ depth'[r] = depth[r] - 1
        /\ \A q \in Ranks \ {r} : depth'[q] = depth[q]
    BY <1>2, <1>7, <2>1
  <2>4. DepthKept'
    <3>1. depth[r] = Depths[pc[r]] /\ Depths[pc[r] + 1] = depth[r] - 1
      BY <1>1, <1>2, <1>3, <1>7, DepthAt DEF Inv, DepthKept
    <3> QED
      BY <1>1, <2>2, <2>3, <3>1, ScriptStays DEF Inv, DepthKept
  <2>5. ASSUME NEW q \in Ranks
        PROVE  /\ depth'[q] = 0 => group'[q] = {}
               /\ group'[q] \subseteq group[q] /\ group'[q] \in SUBSET CallsOf
    <3>1. CASE q = r
      BY <1>2, <1>7, <2>1, <2>3, <3>1
    <3>2. CASE q # r
      BY <1>2, <2>1, <2>3, <3>2
    <3> QED
      BY <3>1, <3>2
  <2>6. ASSUME NEW q \in Ranks, NEW S, stream[q] \in Seq(S), group[q] \in S
        PROVE  stream'[q] \in Seq(S)
    <3>1. Append(stream[q], group[q]) \in Seq(S)
      BY <2>6, AppendProperties
    <3>2. stream'[q] \in {stream[q], Append(stream[q], group[q])}
      BY <1>2, <2>1
    <3> QED
      BY <2>6, <3>1, <3>2
  <2>7. group' \in [Ranks -> SUBSET CallsOf]
    BY <1>2, <2>1
  <2>8. stream' \in [Ranks -> Seq(SUBSET CallsOf)]
    <3>1. DOMAIN stream' = Ranks /\ stream' = [q \in Ranks |-> stream'[q]]
      BY <1>2, <2>1
    <3>2. \A q \in Ranks : stream'[q] \in Seq(SUBSET CallsOf)
      BY <1>2, <2>6
    <3> QED
      BY <3>1, <3>2
  <2>9. \A q \in Ranks : /\ depth'[q] = 0 => group'[q] = {}
                         /\ group'[q] \subseteq Own(q) /\ stream'[q] \in Seq(SUBSET Own(q))
    BY <1>5, <2>5, <2>6
  <2> QED
    BY <1>1, <1>2, <1>4, <2>1, <2>2, <2>3, <2>4, <2>7, <2>8, <2>9, CallsStep
<1> QED
  BY <1>6, <1>7

LEMMA CallMade ==
    ASSUME Types, NEW r \in Ranks, NEW names, Calling(r, names), ~Throws(r), HasHandle(r)
    PROVE  McclCall(r) \in Own(r)
<1>1. script \in Scripts /\ pc[r] \in DOMAIN script.calls
  BY CallAt DEF Types, TypeOK
<1>2. script.calls \in Seq([call : STRING, send : Buffers, recv : Buffers, count : Nat])
  BY <1>1, ScriptsAssumption DEF Proper
<1>3. script.calls[pc[r]] \in [call : STRING, send : Buffers, recv : Buffers, count : Nat]
  <2>1. pc[r] \in 1 .. Len(script.calls)
    BY <1>1, ScriptFacts
  <2> QED
    BY <1>2, <2>1, ElementOfSeq
<1>4. comm[r].handle \in Handles
  BY DEF Types, TypeOK, HasHandle
<1>5. McclCall(r) \in CallsOf /\ McclCall(r).handle = comm[r].handle
  BY <1>3, <1>4 DEF McclCall, CallsOf, Arg, Count, Dtype, Throws
<1> QED
  BY <1>5 DEF Own

LEMMA SubmitKeeps ==
    ASSUME Inv, NEW r \in Ranks, Submit(r)
    PROVE  Inv'
<1>1. /\ Calling(r, Moves)
      /\ IF Throws(r) \/ ~HasHandle(r)
         THEN Aborts(r) /\ UNCHANGED <<pc, group, stream>>
         ELSE /\ IF depth[r] > 0
                 THEN /\ group' = [group EXCEPT ![r] = @ \cup {McclCall(r)}]
                      /\ UNCHANGED stream
                 ELSE /\ stream' = [stream EXCEPT ![r] = Append(@, {McclCall(r)})]
                      /\ UNCHANGED group
              /\ Returns(r) /\ UNCHANGED status
      /\ UNCHANGED <<script, gen, ids, comm, live, depth, buffer>>
  BY DEF Submit, Deferred
<1>2. /\ Types /\ script \in Scripts /\ depth \in [Ranks -> 0 .. MaxDepth]
      /\ status \in [Ranks -> {"running", "aborted"}] /\ MaxDepth \in Nat
      /\ group \in [Ranks -> SUBSET CallsOf] /\ stream \in [Ranks -> Seq(SUBSET CallsOf)]
      /\ \A q \in Ranks : depth[q] = 0 => group[q] = {}
      /\ pc \in [Ranks -> 1 .. End]
  BY CommAssumption DEF Inv, Types, TypeOK
<1>3. script.calls[pc[r]].call \in Moves
  BY <1>1, <1>2, CallAt
<1>4. /\ pc[r] # InitPlace /\ (ById => pc[r] # IdPlace)
      /\ pc[r] \notin Places(script, {"CommDestroy"})
  BY <1>1, <1>2, <1>3, CallAt DEF Inits, Moves, Collectives
<1>5. \A q \in Ranks : group[q] \subseteq Own(q) /\ stream[q] \in Seq(SUBSET Own(q))
  BY <1>2, OwnCalls DEF Inv
<1>6. CASE Throws(r) \/ ~HasHandle(r)
  <2>1. Aborts(r) /\ UNCHANGED <<pc, depth, group, stream>>
    BY <1>1, <1>6
  <2>2. status' \in [Ranks -> {"running", "aborted"}]
    BY <1>2, <2>1 DEF Aborts
  <2>3. DepthKept'
    BY <1>1, <2>1, ScriptStays DEF Inv, DepthKept
  <2> QED
    BY <1>1, <1>2, <1>5, <2>1, <2>2, <2>3, CallsStep
<1>7. CASE ~Throws(r) /\ HasHandle(r)
  <2>1. /\ IF depth[r] > 0
           THEN /\ group' = [group EXCEPT ![r] = @ \cup {McclCall(r)}]
                /\ UNCHANGED stream
           ELSE /\ stream' = [stream EXCEPT ![r] = Append(@, {McclCall(r)})]
                /\ UNCHANGED group
        /\ Returns(r) /\ UNCHANGED <<status, script, depth>>
    BY <1>1, <1>7
  <2>2. /\ pc' \in [Ranks -> 1 .. End] /\ pc'[r] = pc[r] + 1
        /\ \A q \in Ranks \ {r} : pc'[q] = pc[q]
    BY <1>1, <1>2, <2>1, Goes
  <2>3. DepthKept'
    BY <1>1, <2>1, DepthStays DEF Moves, Collectives
  <2>4. McclCall(r) \in Own(r) /\ McclCall(r) \in CallsOf
    BY <1>1, <1>2, <1>7, CallMade DEF Own
  <2>5. ASSUME NEW q \in Ranks
        PROVE  /\ depth'[q] = 0 => group'[q] = {}
               /\ group'[q] \subseteq Own(q) /\ group'[q] \in SUBSET CallsOf
    <3>1. CASE depth[r] > 0 /\ q = r
      <4>1. depth'[q] # 0 /\ group'[q] = group[q] \cup {McclCall(r)}
        BY <1>2, <2>1, <3>1
      <4> QED
        BY <1>2, <1>5, <2>4, <3>1, <4>1
    <3>2. CASE ~(depth[r] > 0 /\ q = r)
      <4>1. depth'[q] = depth[q] /\ group'[q] = group[q]
        BY <1>2, <2>1, <3>2
      <4> QED
        BY <1>2, <1>5, <4>1
    <3> QED
      BY <3>1, <3>2
  <2>6. ASSUME NEW q \in Ranks, NEW S, stream[q] \in Seq(S), {McclCall(r)} \in S
        PROVE  stream'[q] \in Seq(S)
    <3>1. Append(stream[q], {McclCall(r)}) \in Seq(S)
      BY <2>6, AppendProperties
    <3>2. stream'[q] \in {stream[q], Append(stream[q], {McclCall(r)})}
      BY <1>2, <2>1
    <3> QED
      BY <2>6, <3>1, <3>2
  <2>7. group' \in [Ranks -> SUBSET CallsOf]
    BY <1>2, <2>1, <2>5
  <2>8. stream' \in [Ranks -> Seq(SUBSET CallsOf)]
    <3>1. DOMAIN stream' = Ranks /\ stream' = [q \in Ranks |-> stream'[q]]
      BY <1>2, <2>1
    <3>2. \A q \in Ranks : stream'[q] \in Seq(SUBSET CallsOf)
      BY <1>2, <2>4, <2>6
    <3> QED
      BY <3>1, <3>2
  <2>9. \A q \in Ranks : stream'[q] \in Seq(SUBSET Own(q))
    <3>1. ASSUME NEW q \in Ranks, q # r PROVE stream'[q] = stream[q]
      BY <1>2, <2>1, <3>1
    <3>2. stream'[r] \in Seq(SUBSET Own(r))
      BY <1>5, <2>4, <2>6
    <3> QED
      BY <1>5, <3>1, <3>2
  <2> QED
    BY <1>1, <1>2, <1>4, <2>1, <2>2, <2>3, <2>5, <2>7, <2>8, <2>9, CallsStep
<1> QED
  BY <1>6, <1>7

(* The calls of a sequence of launches.                                      *)
Launched(launches) == UNION {launches[k] : k \in 1 .. Len(launches)}

LEMMA LaunchedAppend ==
    ASSUME NEW T, NEW launches \in Seq(T), NEW launch \in T
    PROVE  Launched(Append(launches, launch)) = Launched(launches) \cup launch
<1> DEFINE more == Append(launches, launch)
<1>1. /\ Len(launches) \in Nat /\ Len(more) = Len(launches) + 1 /\ more[Len(launches) + 1] = launch
      /\ \A k \in 1 .. Len(launches) : more[k] = launches[k]
  BY AppendProperties, LenProperties
<1>2. 1 .. Len(more) = (1 .. Len(launches)) \cup {Len(launches) + 1}
  BY <1>1
<1> HIDE DEF more
<1>3. ASSUME NEW c PROVE c \in Launched(more) <=> c \in Launched(launches) \/ c \in launch
  <2>1. c \in Launched(more) <=> \E k \in 1 .. Len(more) : c \in more[k]
    BY DEF Launched
  <2>2. c \in Launched(launches) <=> \E k \in 1 .. Len(launches) : c \in launches[k]
    BY DEF Launched
  <2> QED
    BY <1>1, <1>2, <2>1, <2>2
<1> QED
  BY <1>3 DEF more

LEMMA LaunchedTail ==
    ASSUME NEW T, NEW launches \in Seq(T), launches # <<>>
    PROVE  /\ Launched(launches) = Head(launches) \cup Launched(Tail(launches))
           /\ Len(Tail(launches)) = Len(launches) - 1 /\ Len(launches) \in Nat \ {0}
           /\ Head(launches) = launches[1]
           /\ \A k \in 1 .. Len(Tail(launches)) : Tail(launches)[k] = launches[k + 1]
<1>1. /\ Len(launches) \in Nat \ {0} /\ Len(Tail(launches)) = Len(launches) - 1
      /\ Head(launches) = launches[1]
      /\ \A k \in 1 .. Len(Tail(launches)) : Tail(launches)[k] = launches[k + 1]
  <2>1. Len(launches) \in Nat /\ Len(launches) # 0
    BY EmptySeq, LenProperties
  <2> QED
    BY <2>1, HeadTailProperties
<1> DEFINE rest == Tail(launches)
<1> HIDE DEF rest
<1>2. ASSUME NEW c PROVE c \in Launched(launches) <=> c \in launches[1] \/ c \in Launched(rest)
  <2>1. c \in Launched(launches) <=> \E k \in 1 .. Len(launches) : c \in launches[k]
    BY DEF Launched
  <2>2. c \in Launched(rest) <=> \E k \in 1 .. Len(rest) : c \in rest[k]
    BY DEF Launched
  <2>3. ASSUME NEW k \in 1 .. Len(launches), k # 1
        PROVE  k - 1 \in 1 .. Len(rest) /\ rest[k - 1] = launches[k]
    BY <1>1, <2>3 DEF rest
  <2>4. ASSUME NEW k \in 1 .. Len(rest)
        PROVE  k + 1 \in 1 .. Len(launches) /\ rest[k] = launches[k + 1]
    BY <1>1, <2>4 DEF rest
  <2>5. 1 \in 1 .. Len(launches)
    BY <1>1
  <2> QED
    BY <2>1, <2>2, <2>3, <2>4, <2>5
<1> QED
  BY <1>1, <1>2 DEF rest

LEMMA LaunchedWithout ==
    ASSUME NEW T, NEW launches \in Seq(SUBSET T), launches # <<>>, NEW c
    PROVE  /\ Without(launches, c) \in Seq(SUBSET T)
           /\ Launched(Without(launches, c)) \subseteq Launched(launches)
           /\ Launched(launches) \ {c} \subseteq Launched(Without(launches, c))
           /\ \A d \in Head(launches) : d # c =>
                Without(launches, c) # <<>> /\ d \in Head(Without(launches, c))
<1>1. /\ Head(launches) \in SUBSET T /\ Tail(launches) \in Seq(SUBSET T)
      /\ Launched(launches) = Head(launches) \cup Launched(Tail(launches))
  BY HeadTailProperties, LaunchedTail
<1>2. CASE Head(launches) = {c}
  BY <1>1, <1>2 DEF Without
<1>3. CASE Head(launches) # {c}
  <2> DEFINE first == <<Head(launches) \ {c}>>
             all == first \o Tail(launches)
  <2>1. first \in Seq(SUBSET T) /\ Len(first) = 1 /\ first[1] = Head(launches) \ {c}
    BY <1>1
  <2>2. all \in Seq(SUBSET T) /\ Without(launches, c) = all
    BY <1>1, <1>3, <2>1, ConcatProperties DEF Without
  <2> HIDE DEF first
  <2>3. first \in Seq(SUBSET T) /\ Tail(launches) \in Seq(SUBSET T) /\ Len(Tail(launches)) \in Nat
    BY <1>1, <2>1, LenProperties
  <2>4. /\ Len(all) = Len(first) + Len(Tail(launches))
        /\ \A k \in 1 .. Len(first) + Len(Tail(launches)) :
             all[k] = IF k <= Len(first) THEN first[k] ELSE Tail(launches)[k - Len(first)]
    BY <2>3, ConcatProperties
  <2>5. /\ Len(all) = 1 + Len(Tail(launches))
        /\ \A k \in 1 .. Len(all) :
             all[k] = IF k <= 1 THEN Head(launches) \ {c} ELSE Tail(launches)[k - 1]
    <3> HIDE DEF all
    <3> QED
      BY <2>1, <2>3, <2>4
  <2> HIDE DEF all
  <2>6. all # <<>> /\ all[1] = Head(launches) \ {c}
    BY <2>2, <2>3, <2>5, EmptySeq
  <2>7. Launched(all) = all[1] \cup Launched(Tail(all)) /\ Head(all) = all[1]
    BY <2>2, <2>6, LaunchedTail
  <2>8. Launched(Tail(all)) = Launched(Tail(launches))
    <3>1. /\ Len(Tail(all)) = Len(all) - 1
          /\ \A k \in 1 .. Len(Tail(all)) : Tail(all)[k] = all[k + 1]
      BY <2>2, <2>6, LaunchedTail
    <3>2. Len(Tail(all)) = Len(Tail(launches))
      BY <2>3, <2>5, <3>1
    <3>3. \A k \in 1 .. Len(Tail(all)) : Tail(all)[k] = Tail(launches)[k]
      BY <2>3, <2>5, <3>1, <3>2
    <3> QED
      BY <3>2, <3>3 DEF Launched
  <2> QED
    BY <1>1, <2>2, <2>6, <2>7, <2>8
<1> QED
  BY <1>2, <1>3

(* MCCL takes calls off the streams: all the rest stays.                     *)
LEMMA DeviceKeeps ==
    ASSUME Inv, UNCHANGED <<script, pc, gen, ids, comm, live, depth, group, status>>,
           DOMAIN stream' = Ranks, stream' = [q \in Ranks |-> stream'[q]],
           \A q \in Ranks : \A S : stream[q] \in Seq(SUBSET S) => stream'[q] \in Seq(SUBSET S)
    PROVE  Inv'
<1>1. /\ script \in Scripts /\ depth \in [Ranks -> 0 .. MaxDepth]
      /\ status \in [Ranks -> {"running", "aborted"}]
      /\ group \in [Ranks -> SUBSET CallsOf] /\ stream \in [Ranks -> Seq(SUBSET CallsOf)]
      /\ \A q \in Ranks : depth[q] = 0 => group[q] = {}
      /\ pc \in [Ranks -> 1 .. End]
  BY DEF Inv, Types, TypeOK
<1>2. \A q \in Ranks : group[q] \subseteq Own(q) /\ stream[q] \in Seq(SUBSET Own(q))
  BY <1>1, OwnCalls DEF Inv
<1>3. stream' \in [Ranks -> Seq(SUBSET CallsOf)]
  <2>1. \A q \in Ranks : stream'[q] \in Seq(SUBSET CallsOf)
    BY <1>1
  <2> QED
    BY <2>1
<1>4. \A q \in Ranks : stream'[q] \in Seq(SUBSET Own(q))
  BY <1>2
<1>5. DepthKept'
  BY ScriptStays DEF Inv, DepthKept
<1> QED
  BY <1>1, <1>2, <1>3, <1>4, <1>5, CallsStep

LEMMA MeetKeeps ==
    ASSUME Inv, Meet
    PROVE  Inv'
<1>1. /\ stream' = [r \in Ranks |-> Tail(stream[r])]
      /\ UNCHANGED <<script, pc, gen, ids, comm, live, depth, group, status>>
  BY DEF Meet
<1>2. \A r \in Ranks : stream[r] # <<>>
  <2>1. \A r \in Ranks : HeadCalls(r) # {}
    BY DEF Meet
  <2> QED
    BY <2>1 DEF HeadCalls
<1>3. ASSUME NEW q \in Ranks, NEW S, stream[q] \in Seq(SUBSET S)
      PROVE  stream'[q] \in Seq(SUBSET S)
  BY <1>1, <1>2, <1>3, HeadTailProperties
<1> QED
  BY <1>1, <1>3, DeviceKeeps

(* A send and a receive leave the heads of two streams, or of one.           *)
LEMMA TransferStreams ==
    ASSUME DOMAIN stream = Ranks, NEW r \in Ranks, Follower(r) \in Ranks,
           NEW s \in HeadCalls(r), NEW d \in HeadCalls(Follower(r)), s # d,
           \A q \in Ranks : stream[q] \in Seq(SUBSET CallsOf),
           stream' = [Sent(r, s) EXCEPT ![Follower(r)] = Without(@, d)]
    PROVE  /\ DOMAIN stream' = Ranks /\ stream' = [q \in Ranks |-> stream'[q]]
           /\ \A q \in Ranks : \A S : stream[q] \in Seq(SUBSET S) => stream'[q] \in Seq(SUBSET S)
           /\ \A q \in Ranks : Launched(stream'[q]) \subseteq Launched(stream[q])
           /\ \A q \in Ranks : q # Follower(r) =>
                Launched(stream[q]) \ {s} \subseteq Launched(stream'[q])
<1> DEFINE f == Follower(r)
           sent == Sent(r, s)
<1> HIDE DEF f
<1>1. /\ stream[r] # <<>> /\ stream[f] # <<>> /\ s \in Head(stream[r]) /\ d \in Head(stream[f])
      /\ f \in Ranks
  BY DEF HeadCalls, f
<1>2. stream' = [sent EXCEPT ![f] = Without(@, d)]
  BY DEF f
<1>3. /\ DOMAIN sent = Ranks /\ sent[r] = Without(stream[r], s)
      /\ \A q \in Ranks \ {r} : sent[q] = stream[q]
  BY DEF Sent
<1> HIDE DEF sent
<1>4. /\ DOMAIN stream' = Ranks /\ stream' = [q \in Ranks |-> stream'[q]]
      /\ stream'[f] = Without(sent[f], d) /\ \A q \in Ranks \ {f} : stream'[q] = sent[q]
  BY <1>1, <1>2, <1>3
<1>5. ASSUME NEW q \in Ranks, NEW S, stream[q] \in Seq(SUBSET S)
      PROVE  /\ sent[q] \in Seq(SUBSET S) /\ Launched(sent[q]) \subseteq Launched(stream[q])
             /\ Launched(stream[q]) \ {s} \subseteq Launched(sent[q])
  <2>1. CASE q = r
    BY <1>1, <1>3, <1>5, <2>1, LaunchedWithout
  <2>2. CASE q # r
    BY <1>3, <1>5, <2>2
  <2> QED
    BY <2>1, <2>2
<1>6. sent[f] # <<>>
  <2>1. CASE f = r
    <3>1. d \in Head(stream[r]) /\ d # s
      BY <1>1, <2>1
    <3>2. Without(stream[r], s) # <<>>
      BY <1>1, <3>1, LaunchedWithout
    <3> QED
      BY <1>3, <2>1, <3>2
  <2>2. CASE f # r
    BY <1>1, <1>3, <2>2
  <2> QED
    BY <2>1, <2>2
<1>7. ASSUME NEW q \in Ranks, NEW S, stream[q] \in Seq(SUBSET S)
      PROVE  /\ stream'[q] \in Seq(SUBSET S) /\ Launched(stream'[q]) \subseteq Launched(sent[q])
  <2>1. CASE q = f
    <3>1. sent[f] \in Seq(SUBSET S) /\ sent[f] # <<>>
      BY <1>5, <1>6, <1>7, <2>1
    <3>2. /\ Without(sent[f], d) \in Seq(SUBSET S)
          /\ Launched(Without(sent[f], d)) \subseteq Launched(sent[f])
      BY <3>1, LaunchedWithout
    <3> QED
      BY <1>4, <2>1, <3>2
  <2>2. CASE q # f
    BY <1>4, <1>5, <1>7, <2>2
  <2> QED
    BY <2>1, <2>2
<1>8. \A q \in Ranks : Launched(stream'[q]) \subseteq Launched(stream[q])
  BY <1>5, <1>7
<1>9. ASSUME NEW q \in Ranks, q # f
      PROVE  Launched(stream[q]) \ {s} \subseteq Launched(stream'[q])
  BY <1>4, <1>5, <1>9
<1> QED
  BY <1>4, <1>7, <1>8, <1>9 DEF f

LEMMA Neighbours ==
    ASSUME NEW r \in Ranks
    PROVE  Follower(r) \in Ranks /\ Leader(Follower(r)) = r
<1>1. NRanks \in Nat \ {0}
  BY CommAssumption
<1>2. \A q \in Ranks : Follower(q) = IF q = NRanks - 1 THEN 0 ELSE q + 1
  <2>1. ASSUME NEW q \in Ranks PROVE Follower(q) = IF q = NRanks - 1 THEN 0 ELSE q + 1
    <3>1. q \in Nat /\ q <= NRanks - 1
      BY <1>1 DEF Ranks
    <3>2. CASE q = NRanks - 1
      BY <1>1, <3>1, <3>2 DEF Follower
    <3>3. CASE q # NRanks - 1
      <4>1. q + 1 \in 0 .. NRanks - 1
        BY <1>1, <3>1, <3>3
      <4>2. (q + 1) % NRanks = q + 1
        BY <1>1, <4>1
      <4> QED
        BY <3>3, <4>2 DEF Follower
    <3> QED
      BY <3>2, <3>3
  <2> QED
    BY <2>1
<1>3. Follower(r) \in Ranks /\ \A q \in Ranks : Follower(q) = Follower(r) => q = r
  BY <1>1, <1>2 DEF Ranks
<1> QED
  BY <1>3 DEF Leader

LEMMA TransferKeeps ==
    ASSUME Inv, NEW r \in Ranks, Transfer(r)
    PROVE  Inv'
<1> DEFINE f == Follower(r)
<1>1. PICK s \in HeadCalls(r), d \in HeadCalls(f) :
         /\ s.call = "Send" /\ d.call = "Recv"
         /\ stream' = [Sent(r, s) EXCEPT ![f] = Without(@, d)]
         /\ UNCHANGED <<script, pc, gen, ids, comm, live, depth, group, status>>
  BY DEF Transfer
<1>2. stream \in [Ranks -> Seq(SUBSET CallsOf)]
  BY DEF Inv, Types
<1>3. s # d /\ f \in Ranks
  BY <1>1, Neighbours
<1>4. /\ DOMAIN stream' = Ranks /\ stream' = [q \in Ranks |-> stream'[q]]
      /\ \A q \in Ranks : \A S : stream[q] \in Seq(SUBSET S) => stream'[q] \in Seq(SUBSET S)
  BY <1>1, <1>2, <1>3, TransferStreams
<1> QED
  BY <1>1, <1>4, DeviceKeeps

(* The handle is gone before the script ends, so the wrapper is empty again. *)
LEMMA NextGenerationKeeps ==
    ASSUME Inv, NEW r \in Ranks, NextGeneration(r)
    PROVE  Inv'
<1>1. /\ pc[r] > Len(script.calls) /\ gen[r] < Generations
      /\ gen' = [gen EXCEPT ![r] = @ + 1] /\ pc' = [pc EXCEPT ![r] = 1]
      /\ UNCHANGED <<script, ids, comm, live, depth, group, stream, status>>
  BY DEF NextGeneration
<1>2. /\ Types /\ script \in Scripts /\ pc \in [Ranks -> 1 .. End]
      /\ gen \in [Ranks -> 1 .. Generations] /\ Generations \in Nat
      /\ End = Len(script.calls) + 1 /\ End \in Nat
  BY PlaceNumbers DEF Inv, Types, TypeOK, End
<1>3. /\ pc[r] = End /\ pc' \in [Ranks -> 1 .. End] /\ pc'[r] = 1
      /\ gen' \in [Ranks -> 1 .. Generations] /\ gen'[r] = gen[r] + 1
      /\ \A q \in Ranks \ {r} : pc'[q] = pc[q] /\ gen'[q] = gen[q]
  <2>1. pc[r] = End /\ 1 \in 1 .. End
    <3>1. pc[r] \in 1 .. End /\ Len(script.calls) \in Nat
      BY <1>2, ScriptFacts
    <3> QED
      BY <1>1, <1>2, <3>1
  <2>2. gen[r] + 1 \in 1 .. Generations
    BY <1>1, <1>2
  <2> QED
    BY <1>1, <1>2, <2>1, <2>2
<1>4. ~HasHandle(r)
  <2>1. PICK d \in Places(script, {"CommDestroy"}) : d > InitPlace
    BY <1>2, ScriptFacts
  <2>2. d \in 1 .. End - 1
    BY <1>2, PlaceNumbers
  <2> QED
    BY <1>2, <1>3, <2>1, <2>2 DEF Inv, HeldInBetween
<1>5. Types'
  <2>1. pc' \in [Ranks -> Nat]
    BY <1>2, <1>3
  <2>2. TypeOK'
    BY <1>1, <1>2, <1>3, <2>1 DEF Types, TypeOK, ids
  <2> QED
    BY <1>1, <1>2, <1>3, <2>2, ScriptStays DEF Types, ids
<1>6. InOrder'
  BY <1>1 DEF Inv, InOrder, ids
<1>7. ASSUME ById PROVE Drawn'
  <2>1. DrawnById
    BY <1>7 DEF Inv, Drawn
  <2>2. /\ InitPlace \in Nat /\ IdPlace \in 1 .. InitPlace - 1 /\ pc[r] > InitPlace
        /\ pc[r] > IdPlace /\ ~(pc'[r] > IdPlace) /\ pc'[r] < InitPlace
    <3>1. InitPlace \in 1 .. End - 1 /\ IdPlace \in 1 .. InitPlace - 1
      BY <1>2, <1>7, PlaceNumbers
    <3>2. pc[r] = End /\ pc'[r] = 1 /\ End \in Nat
      BY <1>2, <1>3
    <3> HIDE DEF End
    <3> QED
      BY <3>1, <3>2
  <2>3. drawn' = IF pc'[Root] > IdPlace THEN gen'[Root] ELSE gen'[Root] - 1
    <3>1. CASE r = Root
      BY <1>1, <1>2, <1>3, <2>1, <2>2, <3>1 DEF DrawnById, ids
    <3>2. CASE r # Root
      BY <1>1, <1>2, <1>3, <2>1, <3>2, PlaceNumbers DEF DrawnById, ids
    <3> QED
      BY <3>1, <3>2
  <2>4. ASSUME NEW q \in Ranks
        PROVE  /\ pc'[q] > IdPlace => unique_id'[q] = gen'[q]
               /\ pc'[q] < InitPlace => Len(used'[q]) = gen'[q] - 1
               /\ pc'[q] = InitPlace => Len(used'[q]) \in {gen'[q] - 1, gen'[q]}
               /\ pc'[q] > InitPlace => Len(used'[q]) = gen'[q]
    <3>1. CASE q = r
      <4>1. Len(used[q]) = gen[q] /\ gen[q] \in Nat
        BY <1>2, <2>1, <2>2, <3>1 DEF DrawnById
      <4>2. Len(used'[q]) = gen'[q] - 1
        BY <1>1, <1>3, <3>1, <4>1 DEF ids
      <4>3. ~(pc'[q] > IdPlace) /\ ~(pc'[q] > InitPlace) /\ pc'[q] # InitPlace
        BY <1>3, <2>2, <3>1
      <4> QED
        BY <4>2, <4>3
    <3>2. CASE q # r
      BY <1>1, <1>3, <2>1, <3>2 DEF DrawnById, ids
    <3> QED
      BY <3>1, <3>2
  <2>5. DrawnById'
    BY <1>1, <2>1, <2>3, <2>4, ScriptStays DEF DrawnById, ids
  <2> QED
    BY <1>1, <1>7, <2>5, ScriptStays DEF Drawn
<1>8. ASSUME ~ById PROVE Drawn'
  <2>1. DrawnForAll
    BY <1>8 DEF Inv, Drawn
  <2>2. /\ InitPlace \in Nat /\ pc[r] > InitPlace /\ ~(pc'[r] > InitPlace)
        /\ gen[r] <= drawn /\ drawn \in Nat
    <3>1. drawn \in Nat
      BY <1>2 DEF Types, TypeOK
    <3>2. InitPlace \in Nat /\ pc[r] > InitPlace /\ ~(pc'[r] > InitPlace)
      BY <1>2, <1>3, PlaceNumbers
    <3> QED
      BY <2>1, <3>1, <3>2 DEF DrawnForAll
  <2>3. drawn' = IF pc'[Root] > InitPlace THEN gen'[Root] ELSE gen'[Root] - 1
    <3>1. CASE r = Root
      BY <1>1, <1>2, <1>3, <2>1, <2>2, <3>1 DEF DrawnForAll, ids
    <3>2. CASE r # Root
      BY <1>1, <1>2, <1>3, <2>1, <3>2, PlaceNumbers DEF DrawnForAll, ids
    <3> QED
      BY <3>1, <3>2
  <2>4. ASSUME NEW q \in Ranks
        PROVE  /\ Len(used'[q]) = drawn' /\ gen'[q] - 1 <= drawn'
               /\ pc'[q] > InitPlace => gen'[q] <= drawn'
    <3>1. Len(used'[q]) = drawn'
      BY <1>1, <2>1 DEF DrawnForAll, ids
    <3>2. CASE q = r
      BY <1>1, <1>2, <1>3, <2>2, <3>1, <3>2 DEF ids
    <3>3. CASE q # r
      BY <1>1, <1>3, <2>1, <3>1, <3>3 DEF DrawnForAll, ids
    <3> QED
      BY <3>2, <3>3, <3>1
  <2>5. DrawnForAll'
    BY <1>1, <2>3, <2>4, ScriptStays DEF DrawnForAll
  <2> QED
    BY <1>1, <1>8, <2>5, ScriptStays DEF Drawn
<1>9. HeldInBetween'
  <2>1. ASSUME NEW q \in Ranks, HasHandle(q)'
        PROVE  /\ comm'[q].handle[2] = q
               /\ ById => pc'[q] > InitPlace
               /\ \A d \in Places(script, {"CommDestroy"}) : d > InitPlace => pc'[q] <= d
    <3>1. HasHandle(q) /\ q # r
      BY <1>1, <1>4, <2>1 DEF HasHandle
    <3> QED
      BY <1>1, <1>3, <3>1 DEF Inv, HeldInBetween
  <2> QED
    BY <1>1, <2>1, ScriptStays DEF HeldInBetween
<1>10. LiveHeld'
  BY <1>1 DEF Inv, LiveHeld, Handles
<1>11. WaitOnOwn'
  BY <1>1 DEF Inv, WaitOnOwn, HasHandle
<1>12. DepthKept'
  <2>1. Depths[End] = 0 /\ Depths[1] = 0
    BY <1>2, ScriptFacts DEF Nests
  <2> QED
    BY <1>1, <1>3, <2>1, ScriptStays DEF Inv, DepthKept
<1> QED
  BY <1>5, <1>6, <1>7, <1>8, <1>9, <1>10, <1>11, <1>12 DEF Inv

-----------------------------------------------------------------------------
(* The theorems.                                                             *)

LEMMA InvInit == Init => Inv
<1> SUFFICES ASSUME Init PROVE Inv
  OBVIOUS
<1>1. /\ script \in Scripts /\ Generations \in Nat \ {0} /\ MaxDepth \in Nat /\ NRanks \in Nat \ {0}
      /\ pc = [r \in Ranks |-> 1] /\ gen = [r \in Ranks |-> 1] /\ drawn = 0
      /\ unique_id = [r \in Ranks |-> Null] /\ published = <<>>
      /\ used = [r \in Ranks |-> <<>>] /\ comm = [r \in Ranks |-> Null] /\ live = {}
      /\ depth = [r \in Ranks |-> 0] /\ group = [r \in Ranks |-> {}]
      /\ stream = [r \in Ranks |-> <<>>] /\ status = [r \in Ranks |-> "running"]
  BY CommAssumption DEF Init
<1>2. /\ <<>> \in Seq(Nat) /\ <<>> \in Seq(SUBSET CallsOf) /\ Len(<<>>) = 0
  OBVIOUS
<1>3. /\ InitPlace \in 1 .. Len(script.calls) /\ Len(script.calls) \in Nat
      /\ ById => IdPlace \in 1 .. InitPlace - 1
  BY <1>1, ScriptFacts
<1>4. Types
  <2>1. TypeOK
    BY <1>1 DEF TypeOK
  <2>2. pc \in [Ranks -> 1 .. End]
    BY <1>1, <1>3 DEF End
  <2> QED
    BY <1>1, <1>2, <2>1, <2>2 DEF Types
<1>5. InOrder
  BY <1>1, <1>2 DEF InOrder
<1>6. Root \in Ranks
  BY <1>1 DEF Root, Ranks
<1>7. Drawn
  <2>1. CASE ById
    BY <1>1, <1>2, <1>3, <1>6, <2>1 DEF Drawn, DrawnById
  <2>2. CASE ~ById
    BY <1>1, <1>2, <1>3, <1>6, <2>2 DEF Drawn, DrawnForAll
  <2> QED
    BY <2>1, <2>2
<1>8. \A r \in Ranks : ~HasHandle(r)
  BY <1>1 DEF HasHandle
<1>9. HeldInBetween
  BY <1>8 DEF HeldInBetween
<1>10. LiveHeld
  BY <1>1 DEF LiveHeld, Handles
<1>11. WaitOnOwn
  BY <1>1, <1>2 DEF WaitOnOwn
<1>12. DepthKept
  BY <1>1, ScriptFacts DEF DepthKept, Nests
<1> QED
  BY <1>4, <1>5, <1>7, <1>9, <1>10, <1>11, <1>12 DEF Inv

LEMMA InvStep == Inv /\ [Next]_vars => Inv'
<1> SUFFICES ASSUME Inv, [Next]_vars PROVE Inv'
  OBVIOUS
<1>1. ASSUME Device PROVE Inv'
  BY <1>1, MeetKeeps, TransferKeeps DEF Device
<1>2. ASSUME NEW r \in Ranks, Rank(r) PROVE Inv'
  BY <1>2, GetUniqueIdKeeps, LoadKeeps, CommInitRankKeeps, CommInitRankReturnsKeeps,
     CommInitAllKeeps, FindCommKeeps, CommDestroyKeeps, GroupStartKeeps, GroupEndKeeps,
     SubmitKeeps, NextGenerationKeeps DEF Rank
<1>3. ASSUME UNCHANGED vars PROVE Inv'
  <2>1. /\ UNCHANGED <<script, pc, gen, ids, comm, live, depth, group, status>>
        /\ stream' = stream
    BY <1>3 DEF vars, data
  <2>2. stream \in [Ranks -> Seq(SUBSET CallsOf)]
    BY DEF Inv, Types
  <2>3. DOMAIN stream' = Ranks /\ stream' = [q \in Ranks |-> stream'[q]]
    BY <2>1, <2>2
  <2> QED
    BY <2>1, <2>3, DeviceKeeps
<1> QED
  BY <1>1, <1>2, <1>3 DEF Next

LEMMA InvAlways == Spec => []Inv
BY InvInit, InvStep, PTL DEF Spec

(* The g-th communicators of all ranks are of one clique, and no id serves a *)
(* second one, over any number of generations: mccl_impl.cc's GetUniqueId    *)
(* gives every generation its own id, and CommInitRank brings it.            *)
THEOREM CliquesAreOwn == Spec => []OwnClique
<1>1. Inv => OwnClique
  <2> SUFFICES ASSUME Inv PROVE OwnClique
    OBVIOUS
  <2>1. TypeOK
    BY DEF Inv, Types
  <2>2. \A r \in Ranks : \A g \in 1 .. Len(used[r]) : used[r][g] = g
    BY DEF Inv, InOrder
  <2> QED
    BY <2>1, <2>2 DEF OwnClique
<1> QED
  BY <1>1, InvAlways, PTL

(* The communicators of MCCL are those in the wrappers of their ranks, and   *)
(* no wrapper and no launched call has one that is destroyed: CommDestroy    *)
(* takes the handle out of the wrapper when no call can use it any more.     *)
THEOREM HandlesAreHeld == Spec => []HandlesHeld
<1>1. Inv => HandlesHeld
  <2> SUFFICES ASSUME Inv PROVE HandlesHeld
    OBVIOUS
  <2>1. live = {h \in Handles : comm[h[2]] # Null /\ comm[h[2]].handle = h}
    BY DEF Inv, LiveHeld
  <2>2. ASSUME NEW r \in Ranks, HasHandle(r) PROVE comm[r].handle \in live
    <3>1. comm[r] # Null /\ comm[r].handle \in Handles /\ comm[r].handle[2] = r
      BY <2>2 DEF HasHandle, Inv, Types, TypeOK, HeldInBetween
    <3> QED
      BY <2>1, <3>1
  <2>3. ASSUME NEW r \in Ranks, NEW i \in 1 .. Len(stream[r]), NEW c \in stream[r][i]
        PROVE  c.handle \in live
    <3>1. HasHandle(r) /\ c.handle = comm[r].handle
      BY DEF Inv, WaitOnOwn
    <3> QED
      BY <2>2, <3>1
  <2> QED
    BY <2>1, <2>2, <2>3 DEF HandlesHeld
<1> QED
  BY <1>1, InvAlways, PTL

-----------------------------------------------------------------------------
(* What is delivered.  Past an element, what is waiting and what is carried  *)
(* out together are what a rank has called.                                  *)

Waiting(r) == group[r] \cup Launched(stream[r])

ReduceOp == kMcclReduceOpMap[script.op]

(* The call c is the one that rank r makes at place p.                       *)
MadeAt(r, c, p) ==
    /\ c.call = script.calls[p].call /\ c.send = script.calls[p].send
    /\ c.recv = script.calls[p].recv /\ c.count = script.calls[p].count
    /\ c.type = Dtype
    /\ c.op = IF c.call \in {"Reduce", "ReduceScatter"} THEN ReduceOp ELSE ""
    /\ c.peer = IF c.call \in Collectives THEN Root
                ELSE IF c.call = "Send" THEN Follower(r) ELSE Leader(r)

FromScript ==
    \A r \in Ranks : \A c \in Waiting(r) :
        \E p \in Places(script, Moves) : p < pc[r] /\ MadeAt(r, c, p)

BuffersKept ==
    /\ DOMAIN buffer = Ranks /\ \A r \in Ranks : DOMAIN buffer[r] = Buffers
    /\ script.promise # "abort" =>
         \A r \in Ranks, i \in Element : buffer[r]["in"][i] = Value(Dtype, "", {<<r, i>>})

Reduced(i) == Value(Dtype, ReduceOp, {<<q, i>> : q \in Ranks})
Handed(r, i) == Value(Dtype, "", {<<Leader(r), i>>})

(* What the call at place p leaves on rank r.                                *)
Carried(r, p) ==
    LET call == script.calls[p].call
    IN  /\ call = "ReduceScatter" => buffer[r]["part"][0] = Reduced(r)
        /\ call = "Reduce" /\ r = Root => \A i \in Element : buffer[r]["part"][i] = Reduced(i)
        /\ call \in {"AllGather", "Broadcast"} => \A i \in Element : buffer[r]["out"][i] = Reduced(i)
        /\ call = "Recv" => \A i \in Element : buffer[r]["out"][i] = Handed(r, i)

(* A call that was made is carried out, or waits for it at the latest until  *)
(* the next CommDestroy.                                                     *)
CarriedOut ==
    script.promise # "abort" =>
        \A r \in Ranks, p \in Places(script, Moves) : p < pc[r] =>
            \/ Carried(r, p)
            \/ /\ \E c \in Waiting(r) : c.call = script.calls[p].call
               /\ \A d \in Places(script, {"CommDestroy"}) : d > p => pc[r] <= d

(* The collectives are launched one by one, in the order of the script.      *)
InTurn ==
    script.promise = "reduced" =>
        \A r \in Ranks :
            /\ group[r] = {}
            /\ \A k \in 1 .. Len(stream[r]) : \E c \in stream[r][k] : stream[r][k] = {c}
            /\ \A k, l \in 1 .. Len(stream[r]) : \A c \in stream[r][k], e \in stream[r][l] :
                 \A p, q \in Places(script, Moves) :
                   p < q /\ c.call = script.calls[p].call /\ e.call = script.calls[q].call => k < l

HeldUp == \A r \in Ranks, i \in DOMAIN script.calls : Stops(script, i) => pc[r] <= i

Carrying == FromScript /\ BuffersKept /\ CarriedOut /\ InTurn /\ HeldUp

LEMMA PromiseFacts ==
    ASSUME script \in Scripts
    PROVE  /\ script.promise \in {"reduced", "previous", "abort"}
           /\ script.promise = "reduced" => \E i \in DOMAIN script.calls : \E j \in DOMAIN script.calls :
                                              Reduces(script, i, j)
           /\ script.promise = "previous" => \E i \in DOMAIN script.calls : \E j \in DOMAIN script.calls :
                                              HandsOn(script, i, j)
           /\ script.promise = "abort" => \E i \in DOMAIN script.calls : Stops(script, i)
BY PromisesAssumption

(* A call of another name is at another place.                               *)
LEMMA PlacesApart ==
    ASSUME script \in Scripts, script.promise # "abort",
           NEW p \in Places(script, Moves), NEW q \in Places(script, Moves),
           script.calls[p].call = script.calls[q].call
    PROVE  p = q
<1>1. ASSUME NEW i \in DOMAIN script.calls, NEW j \in DOMAIN script.calls, Reduces(script, i, j)
      PROVE  p = q
  <2>1. {p, q} \subseteq {i, j}
    BY <1>1 DEF Reduces
  <2>2. script.calls[i].call # script.calls[j].call
    BY <1>1 DEF Reduces, Moved
  <2> QED
    BY <2>1, <2>2
<1>2. ASSUME NEW i \in DOMAIN script.calls, NEW j \in DOMAIN script.calls, HandsOn(script, i, j)
      PROVE  p = q
  <2>1. {p, q} \subseteq {i, j}
    BY <1>2 DEF HandsOn
  <2>2. script.calls[i].call # script.calls[j].call
    BY <1>2 DEF HandsOn
  <2> QED
    BY <2>1, <2>2
<1> QED
  BY <1>1, <1>2, PromiseFacts

-----------------------------------------------------------------------------
(* Steps that carry nothing out.                                             *)

LEMMA PromiseStays ==
    ASSUME script' = script
    PROVE  /\ Dtype' = Dtype /\ ReduceOp' = ReduceOp
           /\ \A r, c, p : MadeAt(r, c, p)' <=> MadeAt(r, c, p)
           /\ \A i : Reduced(i)' = Reduced(i)
           /\ \A r, i : Handed(r, i)' = Handed(r, i)
<1>1. Dtype' = Dtype /\ ReduceOp' = ReduceOp
  BY DEF Dtype, ReduceOp
<1>2. \A r, c, p : MadeAt(r, c, p)' <=> MadeAt(r, c, p)
  BY <1>1 DEF MadeAt
<1>3. \A i : Reduced(i)' = Reduced(i)
  BY <1>1 DEF Reduced
<1>4. \A r, i : Handed(r, i)' = Handed(r, i)
  BY <1>1 DEF Handed
<1> QED
  BY <1>1, <1>2, <1>3, <1>4

LEMMA CarriedStays ==
    ASSUME script' = script, buffer' = buffer
    PROVE  \A r, p : Carried(r, p)' <=> Carried(r, p)
BY PromiseStays DEF Carried

LEMMA PlacesPositive ==
    ASSUME script \in Scripts
    PROVE  DOMAIN script.calls \subseteq Nat \ {0} /\ \A names : Places(script, names) \subseteq Nat \ {0}
BY ScriptFacts DEF Places

LEMMA CarryingKept ==
    ASSUME Inv, Carrying, UNCHANGED <<script, buffer>>, pc' \in [Ranks -> Nat], InTurn',
           \A r \in Ranks : Waiting(r)' = Waiting(r),
           \A r \in Ranks : \/ pc'[r] = pc[r]
                            \/ /\ pc'[r] = pc[r] + 1
                               /\ pc[r] \notin Places(script, Moves) /\ ~Stops(script, pc[r])
                               /\ pc[r] \in Places(script, {"CommDestroy"}) => Waiting(r) = {}
    PROVE  Carrying'
<1>1. /\ pc \in [Ranks -> 1 .. End] /\ script \in Scripts /\ End \in Nat
      /\ DOMAIN script.calls \subseteq Nat \ {0} /\ \A names : Places(script, names) \subseteq Nat \ {0}
  BY PlaceNumbers, PlacesPositive DEF Inv
<1>2. \A names : Places(script, names)' = Places(script, names)
  BY ScriptStays
<1>3. FromScript'
  <2> SUFFICES ASSUME NEW r \in Ranks, NEW c \in Waiting(r)'
               PROVE  \E p \in Places(script, Moves) : p < pc'[r] /\ MadeAt(r, c, p)'
    BY <1>2 DEF FromScript
  <2>1. PICK p \in Places(script, Moves) : p < pc[r] /\ MadeAt(r, c, p)
    BY DEF Carrying, FromScript
  <2>2. p < pc'[r]
    BY <1>1, <2>1
  <2> QED
    BY <2>1, <2>2, PromiseStays
<1>4. BuffersKept'
  BY PromiseStays DEF Carrying, BuffersKept
<1>5. CarriedOut'
  <2> SUFFICES ASSUME script.promise # "abort", NEW r \in Ranks, NEW p \in Places(script, Moves),
                      p < pc'[r], ~Carried(r, p)'
               PROVE  /\ \E c \in Waiting(r)' : c.call = script.calls[p].call
                      /\ \A d \in Places(script, {"CommDestroy"}) : d > p => pc'[r] <= d
    BY <1>2 DEF CarriedOut
  <2>1. p < pc[r] /\ ~Carried(r, p)
    BY <1>1, CarriedStays
  <2>2. /\ \E c \in Waiting(r) : c.call = script.calls[p].call
        /\ \A d \in Places(script, {"CommDestroy"}) : d > p => pc[r] <= d
    BY <2>1 DEF Carrying, CarriedOut
  <2>3. ASSUME NEW d \in Places(script, {"CommDestroy"}), d > p PROVE pc'[r] <= d
    <3>1. pc[r] <= d
      BY <2>2, <2>3
    <3>2. pc'[r] = pc[r] \/ (pc'[r] = pc[r] + 1 /\ pc[r] # d)
      BY <2>2
    <3> QED
      BY <1>1, <3>1, <3>2
  <2> QED
    BY <2>2, <2>3
<1>6. HeldUp'
  <2> SUFFICES ASSUME NEW r \in Ranks, NEW i \in DOMAIN script.calls, Stops(script, i)
               PROVE  pc'[r] <= i
    BY DEF HeldUp
  <2>1. pc[r] <= i
    BY DEF Carrying, HeldUp
  <2>2. pc'[r] = pc[r] \/ (pc'[r] = pc[r] + 1 /\ pc[r] # i)
    OBVIOUS
  <2> QED
    BY <1>1, <2>1, <2>2
<1> QED
  BY <1>3, <1>4, <1>5, <1>6 DEF Carrying

LEMMA InTurnStays ==
    ASSUME InTurn, UNCHANGED <<script, group, stream>>
    PROVE  InTurn' /\ \A r \in Ranks : Waiting(r)' = Waiting(r)
BY ScriptStays DEF InTurn, Waiting

(* A rank goes on past a call that is none of MCCL's.                        *)
LEMMA CallKeepsCarrying ==
    ASSUME Inv, Carrying, NEW r \in Ranks, NEW names, Calling(r, names), Returns(r),
           UNCHANGED <<script, data>>, "GroupEnd" \notin names, names \cap Moves = {},
           "CommDestroy" \in names => Waiting(r) = {}
    PROVE  Carrying'
<1>1. /\ Types /\ pc' \in [Ranks -> 1 .. End] /\ pc'[r] = pc[r] + 1
      /\ \A q \in Ranks \ {r} : pc'[q] = pc[q]
  BY Goes DEF Inv
<1>2. pc' \in [Ranks -> Nat]
  BY <1>1, PlaceNumbers
<1>3. UNCHANGED <<group, stream, buffer>>
  BY DEF data
<1>4. script.calls[pc[r]].call \in names
  BY <1>1, CallAt
<1>5. pc[r] \notin Places(script, Moves) /\ ~Stops(script, pc[r])
  BY <1>4 DEF Places, Stops
<1>6. pc[r] \in Places(script, {"CommDestroy"}) => Waiting(r) = {}
  BY <1>4 DEF Places
<1>7. InTurn' /\ \A q \in Ranks : Waiting(q)' = Waiting(q)
  BY <1>3, InTurnStays DEF Carrying
<1> QED
  BY <1>1, <1>2, <1>3, <1>5, <1>6, <1>7, CarryingKept

LEMMA StayKeepsCarrying ==
    ASSUME Inv, Carrying, UNCHANGED <<script, pc, data>>
    PROVE  Carrying'
<1>1. UNCHANGED <<group, stream, buffer>>
  BY DEF data
<1>2. InTurn' /\ \A q \in Ranks : Waiting(q)' = Waiting(q)
  BY <1>1, InTurnStays DEF Carrying
<1>3. pc' \in [Ranks -> Nat]
  BY PlaceNumbers DEF Inv
<1> QED
  BY <1>1, <1>2, <1>3, CarryingKept

(* No call is left behind by CommDestroy or at the end of a script.          *)
LEMMA DestroyedEmpty ==
    ASSUME Inv, NEW r \in Ranks, CommDestroy(r)
    PROVE  Waiting(r) = {}
<1>1. Calling(r, {"CommDestroy"}) /\ stream[r] = <<>>
  BY DEF CommDestroy
<1>2. script.calls[pc[r]].call \in {"CommDestroy"}
  BY <1>1, CallAt DEF Inv
<1>3. depth[r] = 0
  BY <1>1, <1>2, DepthAt DEF Inv, DepthKept
<1>4. group[r] = {}
  BY <1>3 DEF Inv, Types, TypeOK
<1>5. Launched(stream[r]) = {}
  BY <1>1 DEF Launched
<1> QED
  BY <1>4, <1>5 DEF Waiting

LEMMA EndedEmpty ==
    ASSUME Inv, NEW r \in Ranks, pc[r] > Len(script.calls)
    PROVE  Waiting(r) = {}
<1>1. script \in Scripts /\ pc \in [Ranks -> 1 .. End]
  BY DEF Inv, Types, TypeOK
<1>2. ~HasHandle(r)
  <2>1. PICK d \in Places(script, {"CommDestroy"}) : d > InitPlace
    BY <1>1, ScriptFacts
  <2>2. d \in DOMAIN script.calls /\ DOMAIN script.calls = 1 .. Len(script.calls) /\ Len(script.calls) \in Nat
    BY <1>1, ScriptFacts DEF Places
  <2> QED
    BY <1>1, <2>1, <2>2 DEF Inv, HeldInBetween, End
<1>3. group[r] = {} /\ \A k \in 1 .. Len(stream[r]) : stream[r][k] = {}
  BY <1>2 DEF Inv, WaitOnOwn
<1> QED
  BY <1>3 DEF Waiting, Launched

LEMMA NextGenerationCarries ==
    ASSUME Inv, Carrying, NEW r \in Ranks, NextGeneration(r)
    PROVE  Carrying'
<1>1. /\ pc[r] > Len(script.calls) /\ pc' = [pc EXCEPT ![r] = 1]
      /\ buffer' = [buffer EXCEPT ![r] = Fresh(r, Dtype)]
      /\ UNCHANGED <<script, group, stream>>
  BY DEF NextGeneration, Dtype
<1>2. /\ pc \in [Ranks -> 1 .. End] /\ script \in Scripts
      /\ DOMAIN script.calls \subseteq Nat \ {0} /\ \A names : Places(script, names) \subseteq Nat \ {0}
  BY PlaceNumbers, PlacesPositive DEF Inv
<1>3. Waiting(r) = {}
  BY <1>1, EndedEmpty
<1>4. InTurn' /\ \A q \in Ranks : Waiting(q)' = Waiting(q)
  BY <1>1, InTurnStays DEF Carrying
<1>5. pc'[r] = 1 /\ \A q \in Ranks \ {r} : pc'[q] = pc[q]
  BY <1>1, <1>2
<1>6. \A names : Places(script, names)' = Places(script, names)
  BY <1>1, ScriptStays
<1>7. FromScript'
  <2> SUFFICES ASSUME NEW q \in Ranks, NEW c \in Waiting(q)'
               PROVE  \E p \in Places(script, Moves) : p < pc'[q] /\ MadeAt(q, c, p)'
    BY <1>6 DEF FromScript
  <2>1. q # r /\ c \in Waiting(q)
    BY <1>3, <1>4
  <2> QED
    BY <1>1, <1>5, <2>1, PromiseStays DEF Carrying, FromScript
<1>8. /\ DOMAIN buffer' = Ranks /\ buffer'[r] = Fresh(r, Dtype)
      /\ \A q \in Ranks \ {r} : buffer'[q] = buffer[q]
  BY <1>1 DEF Carrying, BuffersKept
<1>9. BuffersKept'
  <2>1. /\ DOMAIN Fresh(r, Dtype) = Buffers
        /\ \A i \in Element : Fresh(r, Dtype)["in"][i] = Value(Dtype, "", {<<r, i>>})
    BY DEF Fresh, Buffers
  <2>2. \A q \in Ranks : DOMAIN buffer'[q] = Buffers
    BY <1>8, <2>1 DEF Carrying, BuffersKept
  <2>3. script.promise # "abort" => \A q \in Ranks, i \in Element :
           buffer'[q]["in"][i] = Value(Dtype, "", {<<q, i>>})
    <3> SUFFICES ASSUME script.promise # "abort", NEW q \in Ranks, NEW i \in Element
                 PROVE  buffer'[q]["in"][i] = Value(Dtype, "", {<<q, i>>})
      OBVIOUS
    <3>1. CASE q = r
      BY <1>8, <2>1, <3>1
    <3>2. CASE q # r
      <4>1. buffer[q]["in"][i] = Value(Dtype, "", {<<q, i>>})
        BY DEF Carrying, BuffersKept
      <4> QED
        BY <1>8, <3>2, <4>1
    <3> QED
      BY <3>1, <3>2
  <2>4. script' = script /\ Dtype' = Dtype
    BY <1>1, PromiseStays
  <2> QED
    BY <1>8, <2>2, <2>3, <2>4 DEF BuffersKept
<1>10. CarriedOut'
  <2> SUFFICES ASSUME script.promise # "abort", NEW q \in Ranks, NEW p \in Places(script, Moves), p < pc'[q]
               PROVE  \/ Carried(q, p)'
                      \/ /\ \E c \in Waiting(q)' : c.call = script.calls[p].call
                         /\ \A d \in Places(script, {"CommDestroy"}) : d > p => pc'[q] <= d
    BY <1>1, <1>6 DEF CarriedOut
  <2>1. q # r /\ p < pc[q]
    BY <1>2, <1>5
  <2>2. Carried(q, p)' <=> Carried(q, p)
    BY <1>1, <1>8, <2>1, PromiseStays DEF Carried
  <2> QED
    BY <1>4, <1>5, <2>1, <2>2 DEF Carrying, CarriedOut
<1>11. HeldUp'
  BY <1>1, <1>2, <1>5 DEF Carrying, HeldUp
<1> QED
  BY <1>4, <1>7, <1>9, <1>10, <1>11 DEF Carrying

LEMMA CarryingInit ==
    ASSUME Init
    PROVE  Carrying
<1>1. /\ script \in Scripts /\ pc = [r \in Ranks |-> 1]
      /\ group = [r \in Ranks |-> {}] /\ stream = [r \in Ranks |-> <<>>]
      /\ buffer = [r \in Ranks |-> Fresh(r, Dtype)]
  BY DEF Init, Dtype
<1>2. \A r \in Ranks : Waiting(r) = {}
  BY <1>1 DEF Waiting, Launched
<1>3. DOMAIN script.calls \subseteq Nat \ {0} /\ \A names : Places(script, names) \subseteq Nat \ {0}
  BY <1>1, PlacesPositive
<1>4. FromScript
  BY <1>2 DEF FromScript
<1>5. BuffersKept
  BY <1>1 DEF BuffersKept, Fresh, Buffers
<1>6. CarriedOut /\ HeldUp
  BY <1>1, <1>3 DEF CarriedOut, HeldUp
<1>7. InTurn
  BY <1>1 DEF InTurn
<1> QED
  BY <1>4, <1>5, <1>6, <1>7 DEF Carrying

-----------------------------------------------------------------------------
(* Calls are launched.                                                       *)

(* At a place outside of groups no group is open.                            *)
LEMMA OutsideIsShallow ==
    ASSUME Inv, NEW r \in Ranks, OutsideGroups(script, pc[r])
    PROVE  depth[r] = 0
<1>1. script \in Scripts
  BY DEF Inv, Types, TypeOK
<1>2. Depths \in [1 .. Len(script.calls) + 1 -> 0 .. MaxDepth] /\ Nests(script, Depths)
  BY <1>1, ScriptFacts DEF End
<1>3. Depths[pc[r]] = 0
  BY <1>2 DEF OutsideGroups
<1> QED
  BY <1>3 DEF Inv, DepthKept

LEMMA GroupEndCarries ==
    ASSUME Inv, Carrying, NEW r \in Ranks, GroupEnd(r)
    PROVE  Carrying'
<1>1. /\ Calling(r, {"GroupEnd"})
      /\ IF depth[r] = 0
         THEN UNCHANGED <<pc, group, stream>>
         ELSE /\ stream' = IF depth[r] = 1 /\ group[r] # {}
                           THEN [stream EXCEPT ![r] = Append(@, group[r])] ELSE stream
              /\ group' = [group EXCEPT ![r] = IF depth[r] = 1 THEN {} ELSE group[r]]
              /\ Returns(r)
      /\ UNCHANGED <<script, buffer>>
  BY DEF GroupEnd, LeftInGroup
<1>2. CASE depth[r] = 0
  <2>1. UNCHANGED <<script, pc, data>>
    BY <1>1, <1>2 DEF data
  <2> QED
    BY <2>1, StayKeepsCarrying
<1>3. CASE depth[r] # 0
  <2>1. /\ stream' = IF depth[r] = 1 /\ group[r] # {}
                     THEN [stream EXCEPT ![r] = Append(@, group[r])] ELSE stream
        /\ group' = [group EXCEPT ![r] = IF depth[r] = 1 THEN {} ELSE group[r]]
        /\ Returns(r)
    BY <1>1, <1>3
  <2>2. /\ Types /\ pc' \in [Ranks -> 1 .. End] /\ pc'[r] = pc[r] + 1
        /\ \A q \in Ranks \ {r} : pc'[q] = pc[q]
    BY <1>1, <2>1, Goes DEF Inv
  <2>3. script.calls[pc[r]].call \in {"GroupEnd"}
    BY <1>1, <2>2, CallAt
  <2>4. pc[r] \notin Places(script, Moves) /\ pc[r] \notin Places(script, {"CommDestroy"})
    BY <2>3 DEF Places, Moves, Collectives
  <2>5. ~Stops(script, pc[r])
    <3>1. ~OutsideGroups(script, pc[r])
      BY <1>3, OutsideIsShallow
    <3> QED
      BY <2>3, <3>1 DEF Stops, Moves, Collectives
  <2>6. /\ DOMAIN group = Ranks /\ DOMAIN stream = Ranks
        /\ group[r] \in SUBSET CallsOf /\ stream[r] \in Seq(SUBSET CallsOf)
    BY <2>2 DEF Types
  <2>7. ASSUME NEW q \in Ranks PROVE Waiting(q)' = Waiting(q)
    <3>1. CASE q # r
      BY <2>1, <2>6, <3>1 DEF Waiting
    <3>2. CASE q = r /\ depth[r] = 1 /\ group[r] # {}
      <4>1. group'[r] = {} /\ stream'[r] = Append(stream[r], group[r])
        BY <2>1, <2>6, <3>2
      <4>2. Launched(stream'[r]) = Launched(stream[r]) \cup group[r]
        BY <2>6, <4>1, LaunchedAppend
      <4> QED
        BY <3>2, <4>1, <4>2 DEF Waiting
    <3>3. CASE q = r /\ ~(depth[r] = 1 /\ group[r] # {})
      <4>1. group'[r] = group[r] /\ stream'[r] = stream[r]
        BY <2>1, <2>6, <3>3
      <4> QED
        BY <3>3, <4>1 DEF Waiting
    <3> QED
      BY <3>1, <3>2, <3>3
  <2>8. InTurn'
    <3>1. CASE script.promise = "reduced"
      <4>1. group[r] = {}
        BY <3>1 DEF Carrying, InTurn
      <4>2. stream' = stream /\ \A q \in Ranks : group'[q] = group[q]
        BY <2>1, <2>6, <4>1
      <4> QED
        BY <1>1, <4>2, ScriptStays DEF Carrying, InTurn
    <3>2. CASE script.promise # "reduced"
      BY <1>1, <3>2 DEF InTurn
    <3> QED
      BY <3>1, <3>2
  <2>9. pc' \in [Ranks -> Nat]
    BY <2>2, PlaceNumbers
  <2> QED
    BY <1>1, <2>2, <2>4, <2>5, <2>7, <2>8, <2>9, CarryingKept
<1> QED
  BY <1>2, <1>3

(* The collectives of an all-reduce are called outside of groups.            *)
LEMMA ReducesOutside ==
    ASSUME script \in Scripts, script.promise = "reduced"
    PROVE  \A p \in Places(script, Moves) : OutsideGroups(script, p)
<1>1. PICK i \in DOMAIN script.calls : \E j \in DOMAIN script.calls : Reduces(script, i, j)
  BY PromiseFacts
<1>2. PICK j \in DOMAIN script.calls : Reduces(script, i, j)
  BY <1>1
<1> QED
  BY <1>2 DEF Reduces

(* A call past a CommDestroy has no communicator; others throw.              *)
LEMMA StopsHasNone ==
    ASSUME Inv, NEW r \in Ranks, Calling(r, Moves), Stops(script, pc[r]), ~Throws(r)
    PROVE  ~HasHandle(r)
<1>1. script \in Scripts /\ script.calls[pc[r]].call \in Moves
  BY CallAt DEF Inv, Types, TypeOK
<1>2. PICK n \in Places(script, Inits) : \E d \in Places(script, {"CommDestroy"}) : n < d /\ d < pc[r]
  BY <1>1 DEF Stops, Moves, Collectives, Throws
<1>3. PICK d \in Places(script, {"CommDestroy"}) : n < d /\ d < pc[r]
  BY <1>2
<1>4. n = InitPlace /\ n \in Nat /\ d \in Nat /\ pc[r] \in Nat
  BY <1>1, ScriptFacts, PlacesPositive, PlaceNumbers DEF Inv
<1> QED
  BY <1>3, <1>4 DEF Inv, HeldInBetween

LEMMA SubmitCarries ==
    ASSUME Inv, Carrying, NEW r \in Ranks, Submit(r)
    PROVE  Carrying'
<1> DEFINE m == McclCall(r)
<1> HIDE DEF m
<1>1. /\ Calling(r, Moves)
      /\ IF Throws(r) \/ ~HasHandle(r)
         THEN UNCHANGED <<pc, group, stream>>
         ELSE /\ IF depth[r] > 0
                 THEN /\ group' = [group EXCEPT ![r] = @ \cup {m}]
                      /\ UNCHANGED stream
                 ELSE /\ stream' = [stream EXCEPT ![r] = Append(@, {m})]
                      /\ UNCHANGED group
              /\ Returns(r)
      /\ UNCHANGED <<script, buffer>>
  BY DEF Submit, Deferred, m
<1>2. CASE Throws(r) \/ ~HasHandle(r)
  <2>1. UNCHANGED <<script, pc, data>>
    BY <1>1, <1>2 DEF data
  <2> QED
    BY <2>1, StayKeepsCarrying
<1>3. CASE ~Throws(r) /\ HasHandle(r)
  <2>1. /\ IF depth[r] > 0
           THEN /\ group' = [group EXCEPT ![r] = @ \cup {m}]
                /\ UNCHANGED stream
           ELSE /\ stream' = [stream EXCEPT ![r] = Append(@, {m})]
                /\ UNCHANGED group
        /\ Returns(r)
    BY <1>1, <1>3
  <2>2. /\ Types /\ pc' \in [Ranks -> 1 .. End] /\ pc'[r] = pc[r] + 1
        /\ \A q \in Ranks \ {r} : pc'[q] = pc[q]
    BY <1>1, <2>1, Goes DEF Inv
  <2>3. /\ pc[r] \in Places(script, Moves) /\ pc[r] \notin Places(script, {"CommDestroy"})
        /\ MadeAt(r, m, pc[r])
    <3>1. script.calls[pc[r]].call \in Moves /\ pc[r] \in DOMAIN script.calls
      BY <1>1, <2>2, CallAt
    <3>2. MadeAt(r, m, pc[r])
      BY <1>3 DEF MadeAt, m, McclCall, Arg, Count, Dtype, ReduceOp, Throws
    <3> QED
      BY <3>1, <3>2 DEF Places, Moves, Collectives
  <2>4. /\ DOMAIN group = Ranks /\ DOMAIN stream = Ranks /\ script \in Scripts
        /\ {m} \in SUBSET CallsOf /\ stream[r] \in Seq(SUBSET CallsOf)
        /\ pc \in [Ranks -> 1 .. End] /\ End \in Nat
        /\ DOMAIN script.calls \subseteq Nat \ {0} /\ \A names : Places(script, names) \subseteq Nat \ {0}
    <3>1. m \in CallsOf
      BY <1>1, <1>3, <2>2, CallMade DEF Own, m
    <3> QED
      BY <2>2, <3>1, PlaceNumbers, PlacesPositive DEF Types
  <2>5. /\ Waiting(r)' = Waiting(r) \cup {m}
        /\ \A q \in Ranks \ {r} : Waiting(q)' = Waiting(q)
    <3>1. \A q \in Ranks \ {r} : Waiting(q)' = Waiting(q)
      BY <2>1, <2>4 DEF Waiting
    <3>2. CASE depth[r] > 0
      <4>1. group'[r] = group[r] \cup {m} /\ stream'[r] = stream[r]
        BY <2>1, <2>4, <3>2
      <4> QED
        BY <3>1, <4>1 DEF Waiting
    <3>3. CASE ~(depth[r] > 0)
      <4>1. group'[r] = group[r] /\ stream'[r] = Append(stream[r], {m})
        BY <2>1, <2>4, <3>3
      <4>2. Launched(stream'[r]) = Launched(stream[r]) \cup {m}
        BY <2>4, <4>1, LaunchedAppend
      <4> QED
        BY <3>1, <4>1, <4>2 DEF Waiting
    <3> QED
      BY <3>2, <3>3
  <2>6. \A names : Places(script, names)' = Places(script, names)
    BY <1>1, ScriptStays
  <2>7. FromScript'
    <3> SUFFICES ASSUME NEW q \in Ranks, NEW c \in Waiting(q)'
                 PROVE  \E p \in Places(script, Moves) : p < pc'[q] /\ MadeAt(q, c, p)
      BY <1>1, <2>6, PromiseStays DEF FromScript
    <3>1. CASE c \in Waiting(q)
      <4>1. PICK p \in Places(script, Moves) : p < pc[q] /\ MadeAt(q, c, p)
        BY <3>1 DEF Carrying, FromScript
      <4>2. pc'[q] = pc[q] \/ pc'[q] = pc[q] + 1
        BY <2>2
      <4>3. p < pc'[q]
        BY <2>4, <4>1, <4>2
      <4> QED
        BY <4>1, <4>3
    <3>2. CASE c \notin Waiting(q)
      <4>1. q = r /\ c = m
        BY <2>5, <3>2
      <4>2. pc[r] < pc'[r]
        BY <2>2, <2>4
      <4> QED
        BY <2>3, <4>1, <4>2
    <3> QED
      BY <3>1, <3>2
  <2>8. BuffersKept'
    BY <1>1, PromiseStays DEF Carrying, BuffersKept
  <2>9. CarriedOut'
    <3> SUFFICES ASSUME script.promise # "abort", NEW q \in Ranks, NEW p \in Places(script, Moves),
                        p < pc'[q], ~Carried(q, p)'
                 PROVE  /\ \E c \in Waiting(q)' : c.call = script.calls[p].call
                        /\ \A d \in Places(script, {"CommDestroy"}) : d > p => pc'[q] <= d
      BY <1>1, <2>6 DEF CarriedOut
    <3>1. CASE q = r /\ p = pc[r]
      <4>1. m \in Waiting(q)' /\ m.call = script.calls[p].call
        BY <2>3, <2>5, <3>1 DEF MadeAt
      <4>2. \A d \in Places(script, {"CommDestroy"}) : d > p => pc'[q] <= d
        BY <2>2, <2>4, <3>1
      <4> QED
        BY <4>1, <4>2
    <3>2. CASE ~(q = r /\ p = pc[r])
      <4>1. p < pc[q]
        BY <2>2, <2>4, <3>2
      <4>2. ~Carried(q, p)
        BY <1>1, CarriedStays
      <4>3. /\ \E c \in Waiting(q) : c.call = script.calls[p].call
            /\ \A d \in Places(script, {"CommDestroy"}) : d > p => pc[q] <= d
        BY <4>1, <4>2 DEF Carrying, CarriedOut
      <4>4. \E c \in Waiting(q)' : c.call = script.calls[p].call
        BY <2>5, <4>3
      <4>5. ASSUME NEW d \in Places(script, {"CommDestroy"}), d > p PROVE pc'[q] <= d
        <5>1. pc[q] <= d
          BY <4>3, <4>5
        <5>2. pc'[q] = pc[q] \/ (pc'[q] = pc[q] + 1 /\ pc[q] # d)
          BY <2>2, <2>3
        <5> QED
          BY <2>4, <5>1, <5>2
      <4> QED
        BY <4>4, <4>5
    <3> QED
      BY <3>1, <3>2
  <2>10. HeldUp'
    <3> SUFFICES ASSUME NEW q \in Ranks, NEW i \in DOMAIN script.calls, Stops(script, i)
                 PROVE  pc'[q] <= i
      BY <1>1 DEF HeldUp
    <3>1. pc[q] <= i
      BY DEF Carrying, HeldUp
    <3>2. pc'[q] = pc[q] \/ (pc'[q] = pc[q] + 1 /\ pc[q] # i)
      BY <1>1, <1>3, <2>2, StopsHasNone
    <3> QED
      BY <2>4, <3>1, <3>2
  <2>11. ASSUME script.promise = "reduced"
         PROVE  \A q \in Ranks :
                  /\ group'[q] = {}
                  /\ \A k \in 1 .. Len(stream'[q]) : \E c \in stream'[q][k] : stream'[q][k] = {c}
                  /\ \A k, l \in 1 .. Len(stream'[q]) : \A c \in stream'[q][k], e \in stream'[q][l] :
                       \A p, s \in Places(script, Moves) :
                         p < s /\ c.call = script.calls[p].call /\ e.call = script.calls[s].call => k < l
    <3>1. depth[r] = 0
      BY <2>3, <2>4, <2>11, ReducesOutside, OutsideIsShallow
    <3>2. group' = group /\ stream'[r] = Append(stream[r], {m}) /\ \A q \in Ranks \ {r} : stream'[q] = stream[q]
      BY <2>1, <2>4, <3>1
    <3>3. /\ Len(stream[r]) \in Nat /\ Len(stream'[r]) = Len(stream[r]) + 1
          /\ stream'[r][Len(stream[r]) + 1] = {m}
          /\ \A k \in 1 .. Len(stream[r]) : stream'[r][k] = stream[r][k]
      BY <2>4, <3>2, AppendProperties, LenProperties
    <3>4. \A q \in Ranks : group'[q] = {}
      BY <2>11, <3>2 DEF Carrying, InTurn
    <3>5. ASSUME NEW k \in 1 .. Len(stream'[r])
          PROVE  \E c \in stream'[r][k] : stream'[r][k] = {c}
      <4>1. CASE k <= Len(stream[r])
        <5>1. k \in 1 .. Len(stream[r]) /\ stream'[r][k] = stream[r][k]
          BY <3>3, <4>1
        <5> QED
          BY <2>11, <5>1 DEF Carrying, InTurn
      <4>2. CASE ~(k <= Len(stream[r]))
        <5>1. k = Len(stream[r]) + 1
          BY <3>3, <4>2
        <5> QED
          BY <3>3, <5>1
      <4> QED
        BY <4>1, <4>2
    <3>6. ASSUME NEW k \in 1 .. Len(stream'[r]), NEW l \in 1 .. Len(stream'[r]),
                 NEW c \in stream'[r][k], NEW e \in stream'[r][l],
                 NEW p \in Places(script, Moves), NEW s \in Places(script, Moves),
                 p < s, c.call = script.calls[p].call, e.call = script.calls[s].call
          PROVE  k < l
      <4>1. CASE k <= Len(stream[r]) /\ l <= Len(stream[r])
        <5>1. /\ k \in 1 .. Len(stream[r]) /\ l \in 1 .. Len(stream[r])
              /\ c \in stream[r][k] /\ e \in stream[r][l]
          BY <3>3, <4>1
        <5> QED
          BY <2>11, <3>6, <5>1 DEF Carrying, InTurn
      <4>2. CASE k <= Len(stream[r]) /\ ~(l <= Len(stream[r]))
        BY <3>3, <4>2
      <4>3. CASE ~(k <= Len(stream[r]))
        <5>1. c = m /\ p = pc[r]
          <6>1. k = Len(stream[r]) + 1
            BY <3>3, <4>3
          <6>2. c = m
            BY <3>3, <6>1
          <6>3. script.calls[p].call = script.calls[pc[r]].call
            BY <2>3, <3>6, <6>2 DEF MadeAt
          <6> QED
            BY <2>3, <2>4, <2>11, <6>2, <6>3, PlacesApart
        <5>2. s # pc[r]
          BY <2>4, <3>6, <5>1
        <5>3. l # Len(stream[r]) + 1
          <6> SUFFICES ASSUME l = Len(stream[r]) + 1 PROVE FALSE
            OBVIOUS
          <6>1. e = m
            BY <3>3
          <6>2. script.calls[s].call = script.calls[pc[r]].call
            BY <2>3, <3>6, <6>1 DEF MadeAt
          <6> QED
            BY <2>3, <2>4, <2>11, <5>2, <6>2, PlacesApart
        <5>4. l \in 1 .. Len(stream[r]) /\ e \in stream[r][l]
          BY <3>3, <5>3
        <5>5. e \in Waiting(r)
          BY <5>4 DEF Waiting, Launched
        <5>6. PICK t \in Places(script, Moves) : t < pc[r] /\ MadeAt(r, e, t)
          BY <5>5 DEF Carrying, FromScript
        <5>7. t = s
          BY <2>4, <2>11, <3>6, <5>6, PlacesApart DEF MadeAt
        <5> QED
          BY <2>4, <3>6, <5>1, <5>6, <5>7
      <4> QED
        BY <4>1, <4>2, <4>3
    <3>7. ASSUME NEW q \in Ranks, q # r
          PROVE  /\ \A k \in 1 .. Len(stream'[q]) : \E c \in stream'[q][k] : stream'[q][k] = {c}
                 /\ \A k, l \in 1 .. Len(stream'[q]) : \A c \in stream'[q][k], e \in stream'[q][l] :
                      \A p, s \in Places(script, Moves) :
                        p < s /\ c.call = script.calls[p].call /\ e.call = script.calls[s].call => k < l
      <4>1. /\ \A k \in 1 .. Len(stream[q]) : \E c \in stream[q][k] : stream[q][k] = {c}
            /\ \A k, l \in 1 .. Len(stream[q]) : \A c \in stream[q][k], e \in stream[q][l] :
                 \A p, s \in Places(script, Moves) :
                   p < s /\ c.call = script.calls[p].call /\ e.call = script.calls[s].call => k < l
        BY <2>11 DEF Carrying, InTurn
      <4>2. stream'[q] = stream[q]
        BY <3>2, <3>7
      <4> QED
        BY <4>1, <4>2
    <3> TAKE q \in Ranks
    <3>8. CASE q = r
      BY <3>4, <3>5, <3>6, <3>8
    <3>9. CASE q # r
      BY <3>4, <3>7, <3>9
    <3> QED
      BY <3>8, <3>9
  <2>12. InTurn'
    BY <1>1, <2>6, <2>11 DEF InTurn
  <2> QED
    BY <2>7, <2>8, <2>9, <2>10, <2>12 DEF Carrying
<1> QED
  BY <1>2, <1>3

-----------------------------------------------------------------------------
(* MCCL carries calls out.                                                   *)

(* The calls that a promise rests on.                                        *)
LEMMA PreviousFacts ==
    ASSUME script \in Scripts, script.promise = "previous"
    PROVE  \A p \in Places(script, Moves) :
             /\ script.calls[p].call \in {"Send", "Recv"}
             /\ script.calls[p].call = "Send" => script.calls[p].send = "in"
             /\ script.calls[p].call = "Recv" =>
                  script.calls[p].recv = "out" /\ script.calls[p].count = NRanks
<1>1. PICK i \in DOMAIN script.calls : \E j \in DOMAIN script.calls : HandsOn(script, i, j)
  BY PromiseFacts
<1>2. PICK j \in DOMAIN script.calls : HandsOn(script, i, j)
  BY <1>1
<1> QED
  BY <1>2 DEF HandsOn

LEMMA ReducedFacts ==
    ASSUME script \in Scripts, script.promise = "reduced"
    PROVE  \A p \in Places(script, Moves) : script.calls[p].call \in Collectives
<1>1. PICK i \in DOMAIN script.calls : \E j \in DOMAIN script.calls : Reduces(script, i, j)
  BY PromiseFacts
<1>2. PICK j \in DOMAIN script.calls : Reduces(script, i, j)
  BY <1>1
<1>3. /\ Places(script, Moves) = {i, j}
      /\ script.calls[i].call \in Collectives /\ script.calls[j].call \in Collectives
  BY <1>2 DEF Reduces, Moved, Collectives
<1> QED
  BY <1>3

LEMMA Ranked ==
    /\ Ranks = Element /\ Ranks # {} /\ Root \in Ranks
    /\ NRanks \in Nat \ {0} /\ \A r \in Ranks : r \in Nat /\ r < NRanks
BY CommAssumption DEF Ranks, Element, Root

(* What the ranks have put in is what their sum is made of.                  *)
LEMMA TermsApart ==
    ASSUME NEW i, NEW q, NEW p, q # p
    PROVE  {<<q, i>>} \cap {<<p, i>>} = {}
OBVIOUS

LEMMA CombinedInputs ==
    ASSUME NEW v, NEW i, v = [q \in Ranks |-> Value(Dtype, "", {<<q, i>>})]
    PROVE  Combined(v, Dtype, ReduceOp) = Reduced(i)
<1> DEFINE terms(q) == v[q].terms
<1>1. \A q \in Ranks : v[q].type = Dtype /\ v[q].op = "" /\ terms(q) = {<<q, i>>}
  BY DEF Value
<1> HIDE DEF terms
<1>2. \A q, p \in Ranks : q # p => terms(q) \cap terms(p) = {}
  BY <1>1, TermsApart
<1>3. UNION {terms(q) : q \in Ranks} = {<<q, i>> : q \in Ranks}
  BY <1>1
<1> USE DEF terms
<1> QED
  BY <1>1, <1>2, <1>3 DEF Combined, Reduced

(* The calls that meet are those of one place, and each is alone.            *)
LEMMA MeetsAtPlace ==
    ASSUME Inv, Carrying, Meet, script.promise = "reduced"
    PROVE  LET c == [r \in Ranks |-> CHOOSE x \in HeadCalls(r) : TRUE]
           IN  \E p \in Places(script, Moves) : \A r \in Ranks :
                 p < pc[r] /\ MadeAt(r, c[r], p) /\ stream[r] # <<>> /\ stream[r][1] = {c[r]}
<1> DEFINE c == [r \in Ranks |-> CHOOSE x \in HeadCalls(r) : TRUE]
<1>1. script \in Scripts /\ stream \in [Ranks -> Seq(SUBSET CallsOf)]
  BY DEF Inv, Types, TypeOK
<1>2. \A r \in Ranks : HeadCalls(r) # {}
  BY DEF Meet
<1>3. ASSUME NEW r \in Ranks
      PROVE  /\ stream[r] # <<>> /\ stream[r][1] = {c[r]} /\ HeadCalls(r) = {c[r]}
             /\ c[r] \in Waiting(r)
  <2>1. stream[r] # <<>> /\ HeadCalls(r) = Head(stream[r])
    BY <1>2 DEF HeadCalls
  <2>2. Len(stream[r]) \in Nat \ {0} /\ Head(stream[r]) = stream[r][1]
    BY <1>1, <2>1, LaunchedTail
  <2>3. 1 \in 1 .. Len(stream[r])
    BY <2>2
  <2>4. PICK x \in stream[r][1] : stream[r][1] = {x}
    BY <2>3 DEF Carrying, InTurn
  <2>5. c[r] = x
    BY <2>1, <2>2, <2>4
  <2>6. c[r] \in Launched(stream[r])
    BY <2>3, <2>4, <2>5 DEF Launched
  <2> QED
    BY <2>1, <2>2, <2>4, <2>5, <2>6 DEF Waiting
<1>4. \A r \in Ranks : Alike(c[r], c[Root])
  BY DEF Meet
<1> HIDE DEF c
<1>5. PICK p \in Places(script, Moves) : p < pc[Root] /\ MadeAt(Root, c[Root], p)
  BY <1>3, Ranked DEF Carrying, FromScript
<1>6. ASSUME NEW r \in Ranks PROVE p < pc[r] /\ MadeAt(r, c[r], p)
  <2>1. PICK q \in Places(script, Moves) : q < pc[r] /\ MadeAt(r, c[r], q)
    BY <1>3 DEF Carrying, FromScript
  <2>2. script.calls[q].call = script.calls[p].call
    BY <1>4, <1>5, <2>1 DEF Alike, MadeAt
  <2>3. p = q
    BY <1>1, <2>2, PlacesApart
  <2> QED
    BY <2>1, <2>3
<1>7. \E t \in Places(script, Moves) : \A r \in Ranks :
        t < pc[r] /\ MadeAt(r, c[r], t) /\ stream[r] # <<>> /\ stream[r][1] = {c[r]}
  BY <1>3, <1>6
<1> QED
  BY <1>7 DEF c

(* A rank whose stream has come to a call has the one before carried out.    *)
LEMMA BeforeHead ==
    ASSUME Inv, Carrying, script.promise = "reduced", NEW r \in Ranks, NEW c,
           NEW p \in Places(script, Moves), NEW q \in Places(script, Moves), p < q, q < pc[r],
           stream[r] # <<>>, stream[r][1] = {c}, c.call = script.calls[q].call
    PROVE  Carried(r, p)
<1>1. script \in Scripts /\ stream[r] \in Seq(SUBSET CallsOf)
  BY DEF Inv, Types, TypeOK
<1>2. p < pc[r]
  BY <1>1, PlacesPositive, PlaceNumbers DEF Inv
<1>3. Len(stream[r]) \in Nat \ {0}
  BY <1>1, LaunchedTail
<1>4. ASSUME NEW e \in Waiting(r), e.call = script.calls[p].call PROVE FALSE
  <2>1. group[r] = {}
    BY DEF Carrying, InTurn
  <2>2. PICK k \in 1 .. Len(stream[r]) : e \in stream[r][k]
    BY <2>1 DEF Waiting, Launched
  <2>3. 1 \in 1 .. Len(stream[r]) /\ c \in stream[r][1]
    BY <1>3
  <2>4. k < 1
    BY <1>4, <2>2, <2>3 DEF Carrying, InTurn
  <2> QED
    BY <1>3, <2>2, <2>4
<1> QED
  BY <1>2, <1>4 DEF Carrying, CarriedOut

(* What the meeting of the calls at a place leaves on each rank.             *)
LEMMA MeetWrites ==
    ASSUME Inv, Carrying, script.promise = "reduced", NEW c, NEW p \in Places(script, Moves),
           \A r \in Ranks : /\ p < pc[r] /\ MadeAt(r, c[r], p)
                            /\ stream[r] # <<>> /\ stream[r][1] = {c[r]},
           UNCHANGED script,
           buffer' = [r \in Ranks |-> [buffer[r] EXCEPT ![c[r].recv] =
                         [i \in Element |-> Written(c, r, i)]]]
    PROVE  /\ DOMAIN buffer' = Ranks /\ \A r \in Ranks : DOMAIN buffer'[r] = Buffers
           /\ \A r \in Ranks : Carried(r, p)' /\ buffer'[r]["in"] = buffer[r]["in"]
           /\ \A r \in Ranks, q \in Places(script, Moves) : q # p /\ Carried(r, q) => Carried(r, q)'
<1>1. script \in Scripts
  BY DEF Inv, Types, TypeOK
<1>2. PICK i \in DOMAIN script.calls : \E j \in DOMAIN script.calls : Reduces(script, i, j)
  BY <1>1, PromiseFacts
<1>3. PICK j \in DOMAIN script.calls : Reduces(script, i, j)
  BY <1>2
<1>4. /\ Places(script, Moves) = {i, j} /\ i < j
      /\ \/ /\ script.calls[i] = Moved("ReduceScatter", "in", "part", 1)
            /\ script.calls[j] = Moved("AllGather", "part", "out", 1)
         \/ /\ script.calls[i] = Moved("Reduce", "in", "part", NRanks)
            /\ script.calls[j] = Moved("Broadcast", "part", "out", NRanks)
  BY <1>3 DEF Reduces
<1>5. /\ DOMAIN buffer = Ranks /\ \A r \in Ranks : DOMAIN buffer[r] = Buffers
      /\ \A r \in Ranks, k \in Element : buffer[r]["in"][k] = Value(Dtype, "", {<<r, k>>})
  BY DEF Carrying, BuffersKept
<1>6. \A r \in Ranks : c[r].recv \in Buffers \ {"in"}
  <2>1. script.calls[p].recv \in Buffers \ {"in"}
    BY <1>4 DEF Moved, Buffers
  <2>2. \A r \in Ranks : c[r].recv = script.calls[p].recv
    BY DEF MadeAt
  <2> QED
    BY <2>1, <2>2
<1>7. /\ DOMAIN buffer' = Ranks
      /\ \A r \in Ranks : /\ DOMAIN buffer'[r] = Buffers
                          /\ \A k \in Element : buffer'[r][c[r].recv][k] = Written(c, r, k)
                          /\ \A b \in Buffers : b # c[r].recv => buffer'[r][b] = buffer[r][b]
  BY <1>5, <1>6
<1>8. \A r \in Ranks : buffer'[r]["in"] = buffer[r]["in"]
  BY <1>6, <1>7 DEF Buffers
<1>9. ASSUME NEW k \in Element
      PROVE  Combined([q \in Ranks |-> Read(q, "in", k)], Dtype, ReduceOp) = Reduced(k)
  <2>1. [q \in Ranks |-> Read(q, "in", k)] = [q \in Ranks |-> Value(Dtype, "", {<<q, k>>})]
    BY <1>5 DEF Read
  <2> QED
    BY <2>1, CombinedInputs
<1>10. Dtype' = Dtype /\ \A k : Reduced(k)' = Reduced(k)
  BY PromiseStays
<1>11. CASE p = i /\ script.calls[i] = Moved("ReduceScatter", "in", "part", 1)
  <2>1. \A r \in Ranks : /\ c[r].call = "ReduceScatter" /\ c[r].send = "in" /\ c[r].recv = "part"
                         /\ c[r].count = 1 /\ c[r].type = Dtype /\ c[r].op = ReduceOp
    <3>1. /\ script.calls[p].call = "ReduceScatter" /\ script.calls[p].send = "in"
          /\ script.calls[p].recv = "part" /\ script.calls[p].count = 1
      BY <1>11 DEF Moved
    <3> QED
      BY <3>1 DEF MadeAt
  <2>2. ASSUME NEW r \in Ranks PROVE buffer'[r]["part"][0] = Reduced(r)
    <3>1. 0 \in Element /\ r \in Element /\ r * 1 + 0 = r
      BY Ranked DEF Element
    <3>2. Written(c, r, 0) = Combined([q \in Ranks |-> Read(q, c[q].send, r * 1 + 0)], c[r].type, c[r].op)
      BY <2>1 DEF Written
    <3>3. [q \in Ranks |-> Read(q, c[q].send, r * 1 + 0)] = [q \in Ranks |-> Read(q, "in", r)]
      BY <2>1, <3>1
    <3> QED
      BY <1>7, <1>9, <2>1, <3>1, <3>2, <3>3
  <2>3. \A r \in Ranks : Carried(r, i)'
    BY <1>10, <1>11, <2>2 DEF Carried, Moved
  <2>4. ASSUME NEW r \in Ranks, Carried(r, j) PROVE Carried(r, j)'
    <3>1. buffer'[r]["out"] = buffer[r]["out"]
      BY <1>7, <2>1 DEF Buffers
    <3>2. script.calls[j].call = "AllGather"
      BY <1>4, <1>11 DEF Moved
    <3> QED
      BY <1>10, <2>4, <3>1, <3>2 DEF Carried
  <2> QED
    BY <1>4, <1>7, <1>8, <1>11, <2>3, <2>4
<1>12. CASE p = i /\ script.calls[i] = Moved("Reduce", "in", "part", NRanks)
  <2>1. \A r \in Ranks : /\ c[r].call = "Reduce" /\ c[r].send = "in" /\ c[r].recv = "part"
                         /\ c[r].count = NRanks /\ c[r].type = Dtype /\ c[r].op = ReduceOp
                         /\ c[r].peer = Root
    <3>1. /\ script.calls[p].call = "Reduce" /\ script.calls[p].send = "in"
          /\ script.calls[p].recv = "part" /\ script.calls[p].count = NRanks
      BY <1>12 DEF Moved
    <3> QED
      BY <3>1 DEF MadeAt, Collectives
  <2>2. ASSUME NEW k \in Element PROVE buffer'[Root]["part"][k] = Reduced(k)
    <3>1. k < NRanks /\ Root \in Ranks
      BY Ranked
    <3>2. Written(c, Root, k) = Combined([q \in Ranks |-> Read(q, c[q].send, k)], c[Root].type, c[Root].op)
      BY <2>1, <3>1 DEF Written
    <3>3. [q \in Ranks |-> Read(q, c[q].send, k)] = [q \in Ranks |-> Read(q, "in", k)]
      BY <2>1
    <3> QED
      BY <1>7, <1>9, <2>1, <3>1, <3>2, <3>3
  <2>3. \A r \in Ranks : Carried(r, i)'
    BY <1>10, <1>12, <2>2 DEF Carried, Moved
  <2>4. ASSUME NEW r \in Ranks, Carried(r, j) PROVE Carried(r, j)'
    <3>1. buffer'[r]["out"] = buffer[r]["out"]
      BY <1>7, <2>1 DEF Buffers
    <3>2. script.calls[j].call = "Broadcast"
      BY <1>4, <1>12 DEF Moved
    <3> QED
      BY <1>10, <2>4, <3>1, <3>2 DEF Carried
  <2> QED
    BY <1>4, <1>7, <1>8, <1>12, <2>3, <2>4
<1>13. ASSUME p = j, NEW r \in Ranks PROVE Carried(r, i)
  <2>1. c[r].call = script.calls[j].call
    BY <1>13 DEF MadeAt
  <2> QED
    BY <1>4, <1>13, <2>1, BeforeHead
<1>14. CASE p = j /\ script.calls[j] = Moved("AllGather", "part", "out", 1)
  <2>1. \A r \in Ranks : /\ c[r].call = "AllGather" /\ c[r].send = "part" /\ c[r].recv = "out"
                         /\ c[r].count = 1
    <3>1. /\ script.calls[p].call = "AllGather" /\ script.calls[p].send = "part"
          /\ script.calls[p].recv = "out" /\ script.calls[p].count = 1
      BY <1>14 DEF Moved
    <3> QED
      BY <3>1 DEF MadeAt
  <2>2. script.calls[i].call = "ReduceScatter"
    BY <1>4, <1>14 DEF Moved
  <2>3. \A q \in Ranks : buffer[q]["part"][0] = Reduced(q)
    BY <1>13, <1>14, <2>2 DEF Carried
  <2>4. ASSUME NEW r \in Ranks, NEW k \in Element PROVE buffer'[r]["out"][k] = Reduced(k)
    <3>1. k \in Ranks /\ k \in Nat /\ k < NRanks * 1 /\ k \div 1 = k /\ k % 1 = 0 /\ 0 \in Element
      BY Ranked DEF Element
    <3>2. Written(c, r, k) = Read(k \div 1, c[k \div 1].send, k % 1)
      BY <2>1, <3>1 DEF Written
    <3>3. Written(c, r, k) = buffer[k]["part"][0]
      BY <2>1, <3>1, <3>2 DEF Read
    <3> QED
      BY <1>7, <2>1, <2>3, <3>1, <3>3
  <2>5. \A r \in Ranks : Carried(r, j)'
    BY <1>10, <1>14, <2>4 DEF Carried, Moved
  <2>6. ASSUME NEW r \in Ranks PROVE Carried(r, i)'
    <3>1. buffer'[r]["part"] = buffer[r]["part"]
      BY <1>7, <2>1 DEF Buffers
    <3> QED
      BY <1>10, <2>2, <2>3, <3>1 DEF Carried
  <2> QED
    BY <1>4, <1>7, <1>8, <1>14, <2>5, <2>6
<1>15. CASE p = j /\ script.calls[j] = Moved("Broadcast", "part", "out", NRanks)
  <2>1. \A r \in Ranks : /\ c[r].call = "Broadcast" /\ c[r].send = "part" /\ c[r].recv = "out"
                         /\ c[r].count = NRanks /\ c[r].peer = Root
    <3>1. /\ script.calls[p].call = "Broadcast" /\ script.calls[p].send = "part"
          /\ script.calls[p].recv = "out" /\ script.calls[p].count = NRanks
      BY <1>15 DEF Moved
    <3> QED
      BY <3>1 DEF MadeAt, Collectives
  <2>2. script.calls[i].call = "Reduce"
    BY <1>4, <1>15 DEF Moved
  <2>3. \A k \in Element : buffer[Root]["part"][k] = Reduced(k)
    BY <1>13, <1>15, <2>2, Ranked DEF Carried
  <2>4. ASSUME NEW r \in Ranks, NEW k \in Element PROVE buffer'[r]["out"][k] = Reduced(k)
    <3>1. k < NRanks /\ Root \in Ranks
      BY Ranked
    <3>2. Written(c, r, k) = Read(Root, c[Root].send, k)
      BY <2>1, <3>1 DEF Written
    <3>3. Written(c, r, k) = buffer[Root]["part"][k]
      BY <2>1, <3>1, <3>2 DEF Read
    <3> QED
      BY <1>7, <2>1, <2>3, <3>3
  <2>5. \A r \in Ranks : Carried(r, j)'
    BY <1>10, <1>15, <2>4 DEF Carried, Moved
  <2>6. ASSUME NEW r \in Ranks PROVE Carried(r, i)'
    <3>1. buffer'[r]["part"] = buffer[r]["part"]
      BY <1>7, <2>1 DEF Buffers
    <3> QED
      BY <1>10, <2>2, <2>3, <3>1 DEF Carried
  <2> QED
    BY <1>4, <1>7, <1>8, <1>15, <2>5, <2>6
<1> QED
  BY <1>4, <1>11, <1>12, <1>14, <1>15 DEF Moved

(* Taking calls off the streams leaves the rest of the invariant alone.      *)
LEMMA DeviceCarries ==
    ASSUME Carrying, UNCHANGED <<script, pc>>, CarriedOut', InTurn',
           \A r \in Ranks : Waiting(r)' \subseteq Waiting(r),
           DOMAIN buffer' = Ranks, \A r \in Ranks : DOMAIN buffer'[r] = Buffers,
           script.promise # "abort" => \A r \in Ranks : buffer'[r]["in"] = buffer[r]["in"]
    PROVE  Carrying'
<1>1. \A names : Places(script, names)' = Places(script, names)
  BY ScriptStays
<1>2. FromScript'
  <2> SUFFICES ASSUME NEW r \in Ranks, NEW c \in Waiting(r)'
               PROVE  \E p \in Places(script, Moves) : p < pc[r] /\ MadeAt(r, c, p)
    BY <1>1, PromiseStays DEF FromScript
  <2> QED
    BY DEF Carrying, FromScript
<1>3. BuffersKept'
  BY PromiseStays DEF Carrying, BuffersKept
<1>4. HeldUp'
  BY DEF Carrying, HeldUp
<1> QED
  BY <1>2, <1>3, <1>4 DEF Carrying

LEMMA MeetCarries ==
    ASSUME Inv, Carrying, Meet
    PROVE  Carrying'
<1> DEFINE c == [r \in Ranks |-> CHOOSE x \in HeadCalls(r) : TRUE]
<1>1. /\ stream' = [r \in Ranks |-> Tail(stream[r])] /\ UNCHANGED <<script, pc, group>>
      /\ buffer' = [r \in Ranks |-> [buffer[r] EXCEPT ![c[r].recv] =
                      [i \in Element |-> Written(c, r, i)]]]
      /\ \A r \in Ranks : \E x \in HeadCalls(r) : x.call \in Collectives
  BY DEF Meet
<1>2. /\ script \in Scripts /\ stream \in [Ranks -> Seq(SUBSET CallsOf)]
      /\ \A names : Places(script, names)' = Places(script, names)
  BY <1>1, ScriptStays DEF Inv, Types, TypeOK
<1>3. \A r \in Ranks : stream[r] # <<>> /\ HeadCalls(r) = Head(stream[r])
  BY <1>1 DEF HeadCalls
<1>4. ASSUME NEW r \in Ranks
      PROVE  /\ Waiting(r) = Waiting(r)' \cup stream[r][1] /\ HeadCalls(r) \subseteq Waiting(r)
             /\ Len(stream'[r]) \in Nat /\ Len(stream[r]) = Len(stream'[r]) + 1
             /\ \A k \in 1 .. Len(stream'[r]) : stream'[r][k] = stream[r][k + 1]
  <2>1. /\ Launched(stream[r]) = Head(stream[r]) \cup Launched(stream'[r])
        /\ Len(stream'[r]) = Len(stream[r]) - 1 /\ Len(stream[r]) \in Nat \ {0}
        /\ Head(stream[r]) = stream[r][1]
        /\ \A k \in 1 .. Len(stream'[r]) : stream'[r][k] = stream[r][k + 1]
    BY <1>1, <1>2, <1>3, LaunchedTail
  <2> QED
    BY <1>1, <1>3, <2>1 DEF Waiting
<1> HIDE DEF c
<1>5. DOMAIN buffer' = Ranks /\ \A r \in Ranks : DOMAIN buffer'[r] = Buffers
  BY <1>1 DEF Carrying, BuffersKept
<1>6. \A r \in Ranks : Waiting(r)' \subseteq Waiting(r)
  BY <1>4
<1>7. CASE script.promise = "reduced"
  <2>1. PICK p \in Places(script, Moves) : \A r \in Ranks :
           p < pc[r] /\ MadeAt(r, c[r], p) /\ stream[r] # <<>> /\ stream[r][1] = {c[r]}
    BY <1>7, MeetsAtPlace DEF c
  <2>2. /\ \A r \in Ranks : Carried(r, p)' /\ buffer'[r]["in"] = buffer[r]["in"]
        /\ \A r \in Ranks, q \in Places(script, Moves) : q # p /\ Carried(r, q) => Carried(r, q)'
    BY <1>1, <1>7, <2>1, MeetWrites
  <2>3. CarriedOut'
    <3> SUFFICES ASSUME NEW r \in Ranks, NEW q \in Places(script, Moves), q < pc[r], ~Carried(r, q)'
                 PROVE  /\ \E e \in Waiting(r)' : e.call = script.calls[q].call
                        /\ \A d \in Places(script, {"CommDestroy"}) : d > q => pc[r] <= d
      BY <1>1, <1>2 DEF CarriedOut
    <3>1. q # p /\ ~Carried(r, q)
      BY <2>2
    <3>2. /\ \E e \in Waiting(r) : e.call = script.calls[q].call
          /\ \A d \in Places(script, {"CommDestroy"}) : d > q => pc[r] <= d
      BY <1>7, <3>1 DEF Carrying, CarriedOut
    <3>3. PICK e \in Waiting(r) : e.call = script.calls[q].call
      BY <3>2
    <3>4. e # c[r]
      <4>1. c[r].call = script.calls[p].call
        BY <2>1 DEF MadeAt
      <4>2. script.calls[q].call # script.calls[p].call
        BY <1>2, <1>7, <3>1, PlacesApart
      <4> QED
        BY <3>3, <4>1, <4>2
    <3>5. e \in Waiting(r)'
      BY <1>4, <2>1, <3>4
    <3> QED
      BY <3>2, <3>3, <3>5
  <2>4. ASSUME NEW r \in Ranks
        PROVE  /\ group'[r] = {}
               /\ \A k \in 1 .. Len(stream'[r]) : \E x \in stream'[r][k] : stream'[r][k] = {x}
               /\ \A k, l \in 1 .. Len(stream'[r]) : \A x \in stream'[r][k], e \in stream'[r][l] :
                    \A s, t \in Places(script, Moves) :
                      s < t /\ x.call = script.calls[s].call /\ e.call = script.calls[t].call => k < l
    <3>1. /\ group[r] = {}
          /\ \A k \in 1 .. Len(stream[r]) : \E x \in stream[r][k] : stream[r][k] = {x}
          /\ \A k, l \in 1 .. Len(stream[r]) : \A x \in stream[r][k], e \in stream[r][l] :
               \A s, t \in Places(script, Moves) :
                 s < t /\ x.call = script.calls[s].call /\ e.call = script.calls[t].call => k < l
      BY <1>7 DEF Carrying, InTurn
    <3>2. \A k \in 1 .. Len(stream'[r]) : k + 1 \in 1 .. Len(stream[r]) /\ stream'[r][k] = stream[r][k + 1]
      BY <1>4
    <3>3. \A k \in 1 .. Len(stream'[r]) : \E x \in stream'[r][k] : stream'[r][k] = {x}
      BY <3>1, <3>2
    <3>4. ASSUME NEW k \in 1 .. Len(stream'[r]), NEW l \in 1 .. Len(stream'[r]),
                 NEW x \in stream'[r][k], NEW e \in stream'[r][l],
                 NEW s \in Places(script, Moves), NEW t \in Places(script, Moves),
                 s < t, x.call = script.calls[s].call, e.call = script.calls[t].call
          PROVE  k < l
      <4>1. /\ k + 1 \in 1 .. Len(stream[r]) /\ l + 1 \in 1 .. Len(stream[r])
            /\ x \in stream[r][k + 1] /\ e \in stream[r][l + 1]
        BY <3>2
      <4>2. k + 1 < l + 1
        BY <3>1, <3>4, <4>1
      <4> QED
        BY <1>4, <4>2
    <3>5. group'[r] = {}
      BY <1>1, <3>1
    <3> QED
      BY <3>3, <3>4, <3>5
  <2>5. InTurn'
    <3>1. script' = script /\ Places(script, Moves)' = Places(script, Moves)
      BY <1>1, <1>2
    <3> QED
      BY <2>4, <3>1 DEF InTurn
  <2> QED
    BY <1>1, <1>5, <1>6, <2>2, <2>3, <2>5, DeviceCarries
<1>8. script.promise # "previous"
  <2> SUFFICES ASSUME script.promise = "previous" PROVE FALSE
    OBVIOUS
  <2>1. PICK x \in HeadCalls(Root) : x.call \in Collectives
    BY <1>1, Ranked
  <2>2. PICK p \in Places(script, Moves) : MadeAt(Root, x, p)
    BY <1>4, Ranked DEF Carrying, FromScript
  <2>3. script.calls[p].call \in Collectives
    BY <2>1, <2>2 DEF MadeAt
  <2>4. script.calls[p].call \in {"Send", "Recv"}
    BY <1>2, PreviousFacts
  <2> QED
    BY <2>3, <2>4 DEF Collectives
<1>9. CASE script.promise = "abort"
  BY <1>1, <1>5, <1>6, <1>9, DeviceCarries DEF CarriedOut, InTurn
<1> QED
  BY <1>2, <1>7, <1>8, <1>9, PromiseFacts

(* What is sent by a rank is received by the next.                           *)
LEMMA TransferCarries ==
    ASSUME Inv, Carrying, NEW r \in Ranks, Transfer(r)
    PROVE  Carrying'
<1> DEFINE f == Follower(r)
<1>1. PICK s \in HeadCalls(r), d \in HeadCalls(f) :
         /\ s.call = "Send" /\ d.call = "Recv"
         /\ buffer' = [buffer EXCEPT ![f][d.recv] = [i \in Element |->
                         IF i < d.count THEN Read(r, s.send, i) ELSE @[i]]]
         /\ stream' = [Sent(r, s) EXCEPT ![f] = Without(@, d)]
         /\ UNCHANGED <<script, pc, group>>
  BY DEF Transfer
<1>2. /\ script \in Scripts /\ stream \in [Ranks -> Seq(SUBSET CallsOf)]
      /\ \A names : Places(script, names)' = Places(script, names)
  BY <1>1, ScriptStays DEF Inv, Types, TypeOK
<1>3. s # d /\ f \in Ranks /\ Leader(f) = r
  BY <1>1, Neighbours
<1>4. /\ \A q \in Ranks : Launched(stream'[q]) \subseteq Launched(stream[q])
      /\ \A q \in Ranks : q # f => Launched(stream[q]) \ {s} \subseteq Launched(stream'[q])
  BY <1>1, <1>2, <1>3, TransferStreams
<1>5. s \in Waiting(r) /\ d \in Waiting(f)
  <2>1. ASSUME NEW q \in Ranks PROVE HeadCalls(q) \subseteq Waiting(q)
    BY <1>2, LaunchedTail DEF HeadCalls, Waiting
  <2> QED
    BY <1>3, <2>1
<1> HIDE DEF f
<1>6. /\ \A q \in Ranks : Waiting(q)' \subseteq Waiting(q)
      /\ \A q \in Ranks : q # f => Waiting(q) \ {s} \subseteq Waiting(q)'
  BY <1>1, <1>4 DEF Waiting
<1>7. DOMAIN buffer' = Ranks /\ \A q \in Ranks : DOMAIN buffer'[q] = Buffers
  BY <1>1, <1>3 DEF Carrying, BuffersKept
<1>8. PICK a \in Places(script, Moves) : a < pc[r] /\ MadeAt(r, s, a)
  BY <1>5 DEF Carrying, FromScript
<1>9. PICK b \in Places(script, Moves) : b < pc[f] /\ MadeAt(f, d, b)
  BY <1>3, <1>5 DEF Carrying, FromScript
<1>10. script.calls[a].call = "Send" /\ script.calls[b].call = "Recv"
  BY <1>1, <1>8, <1>9 DEF MadeAt
<1>11. script.promise # "reduced"
  BY <1>2, <1>10, ReducedFacts DEF Collectives
<1>12. CASE script.promise = "previous"
  <2>1. s.send = "in" /\ d.recv = "out" /\ d.count = NRanks
    BY <1>2, <1>8, <1>9, <1>10, <1>12, PreviousFacts DEF MadeAt
  <2>2. /\ DOMAIN buffer = Ranks /\ DOMAIN buffer[f] = Buffers
        /\ \A k \in Element : buffer[r]["in"][k] = Value(Dtype, "", {<<r, k>>})
    BY <1>3, <1>12 DEF Carrying, BuffersKept
  <2>3. /\ buffer'[f]["in"] = buffer[f]["in"]
        /\ buffer'[f]["out"] = [i \in Element |->
             IF i < NRanks THEN Read(r, "in", i) ELSE buffer[f]["out"][i]]
        /\ \A q \in Ranks \ {f} : buffer'[q] = buffer[q]
    BY <1>1, <1>3, <2>1, <2>2 DEF Buffers
  <2>4. ASSUME NEW k \in Element PROVE buffer'[f]["out"][k] = Handed(f, k)
    <3>1. k < NRanks
      BY Ranked
    <3> QED
      BY <1>3, <2>2, <2>3, <3>1 DEF Read, Handed
  <2>5. CarriedOut'
    <3> SUFFICES ASSUME NEW q \in Ranks, NEW p \in Places(script, Moves), p < pc[q], ~Carried(q, p)'
                 PROVE  /\ \E e \in Waiting(q)' : e.call = script.calls[p].call
                        /\ \A e \in Places(script, {"CommDestroy"}) : e > p => pc[q] <= e
      BY <1>1, <1>2 DEF CarriedOut
    <3>1. script.calls[p].call = "Recv"
      <4>1. script.calls[p].call \in {"Send", "Recv"}
        BY <1>2, <1>12, PreviousFacts
      <4> QED
        BY <1>1, <4>1 DEF Carried
    <3>2. q # f
      BY <1>1, <2>4, <3>1, PromiseStays DEF Carried
    <3>3. ~Carried(q, p)
      BY <1>1, <2>3, <3>1, <3>2, PromiseStays DEF Carried
    <3>4. /\ \E e \in Waiting(q) : e.call = script.calls[p].call
          /\ \A e \in Places(script, {"CommDestroy"}) : e > p => pc[q] <= e
      BY <1>12, <3>3 DEF Carrying, CarriedOut
    <3>5. \A e \in Waiting(q) : e.call = script.calls[p].call => e # s
      BY <1>1, <3>1
    <3> QED
      BY <1>6, <3>2, <3>4, <3>5
  <2>6. \A q \in Ranks : buffer'[q]["in"] = buffer[q]["in"]
    BY <2>3
  <2> QED
    BY <1>1, <1>6, <1>7, <1>12, <2>5, <2>6, DeviceCarries DEF InTurn
<1>13. CASE script.promise = "abort"
  BY <1>1, <1>6, <1>7, <1>13, DeviceCarries DEF CarriedOut, InTurn
<1> QED
  BY <1>2, <1>11, <1>12, <1>13, PromiseFacts

LEMMA CarryingStep == Inv /\ Carrying /\ [Next]_vars => Carrying'
<1> SUFFICES ASSUME Inv, Carrying, [Next]_vars PROVE Carrying'
  OBVIOUS
<1>1. ASSUME Device PROVE Carrying'
  BY <1>1, MeetCarries, TransferCarries DEF Device
<1>2. ASSUME NEW r \in Ranks, Rank(r) PROVE Carrying'
  <2>1. ASSUME GetUniqueId(r) \/ Load(r) PROVE Carrying'
    <3>1. Calling(r, {"GetUniqueId"}) /\ Returns(r) /\ UNCHANGED <<script, data>>
      BY <2>1 DEF GetUniqueId, Load
    <3> QED
      BY <3>1, CallKeepsCarrying DEF Moves, Collectives
  <2>2. ASSUME CommInitRank(r) PROVE Carrying'
    BY <2>2, StayKeepsCarrying DEF CommInitRank
  <2>3. ASSUME CommInitRankReturns(r) PROVE Carrying'
    <3>1. Calling(r, {"CommInitRank"}) /\ Returns(r) /\ UNCHANGED <<script, data>>
      BY <2>3 DEF CommInitRankReturns
    <3> QED
      BY <3>1, CallKeepsCarrying DEF Moves, Collectives
  <2>4. ASSUME CommInitAll(r) \/ FindComm(r) PROVE Carrying'
    <3>1. Calling(r, {"CommInitAll"}) /\ Returns(r) /\ UNCHANGED <<script, data>>
      BY <2>4 DEF CommInitAll, FindComm
    <3> QED
      BY <3>1, CallKeepsCarrying DEF Moves, Collectives
  <2>5. ASSUME CommDestroy(r) PROVE Carrying'
    <3>1. Calling(r, {"CommDestroy"}) /\ Returns(r) /\ UNCHANGED <<script, data>>
      BY <2>5 DEF CommDestroy
    <3>2. Waiting(r) = {}
      BY <2>5, DestroyedEmpty
    <3> QED
      BY <3>1, <3>2, CallKeepsCarrying DEF Moves, Collectives
  <2>6. ASSUME GroupStart(r) PROVE Carrying'
    <3>1. Calling(r, {"GroupStart"}) /\ Returns(r) /\ UNCHANGED <<script, data>>
      BY <2>6 DEF GroupStart
    <3> QED
      BY <3>1, CallKeepsCarrying DEF Moves, Collectives
  <2> QED
    BY <1>2, <2>1, <2>2, <2>3, <2>4, <2>5, <2>6, GroupEndCarries, SubmitCarries,
       NextGenerationCarries DEF Rank
<1>3. ASSUME UNCHANGED vars PROVE Carrying'
  BY <1>3, StayKeepsCarrying DEF vars
<1> QED
  BY <1>1, <1>2, <1>3 DEF Next

(* What the calls of a rank come to, in every generation it ends: with a     *)
(* ReduceScatter and an AllGather, or a Reduce and a Broadcast, of           *)
(* mccl_impl.cc each rank has the reduction of all ranks' input, and with a  *)
(* Send and a Recv the input of the rank before, however the ranks and MCCL  *)
(* take their turns.                                                         *)
THEOREM ResultsAreDelivered == Spec => []Delivered
<1>1. Inv /\ Carrying => Delivered
  <2> SUFFICES ASSUME Inv, Carrying, NEW r \in Ranks, pc[r] > Len(script.calls), NEW k \in Element
               PROVE  buffer[r]["out"][k] = Promised(r, k)
    BY DEF Delivered
  <2>1. /\ script \in Scripts /\ pc[r] \in Nat /\ Len(script.calls) \in Nat
        /\ DOMAIN script.calls = 1 .. Len(script.calls)
        /\ \A names : Places(script, names) \subseteq DOMAIN script.calls
    BY ScriptFacts, PlaceNumbers DEF Inv, Types, TypeOK, Places
  <2>2. ASSUME NEW p \in Places(script, Moves), script.promise # "abort",
               \E d \in Places(script, {"CommDestroy"}) : d > p
        PROVE  Carried(r, p)
    <3>1. PICK d \in Places(script, {"CommDestroy"}) : d > p
      BY <2>2
    <3>2. d \in 1 .. Len(script.calls) /\ p \in 1 .. Len(script.calls)
      BY <2>1
    <3>3. p < pc[r] /\ ~(pc[r] <= d)
      BY <2>1, <3>2
    <3> QED
      BY <2>2, <3>1, <3>3 DEF Carrying, CarriedOut
  <2>3. CASE script.promise = "reduced"
    <3>1. PICK i \in DOMAIN script.calls : \E j \in DOMAIN script.calls : Reduces(script, i, j)
      BY <2>1, <2>3, PromiseFacts
    <3>2. PICK j \in DOMAIN script.calls : Reduces(script, i, j)
      BY <3>1
    <3>3. /\ j \in Places(script, Moves) /\ \E d \in Places(script, {"CommDestroy"}) : d > j
          /\ script.calls[j].call \in {"AllGather", "Broadcast"}
      BY <3>2 DEF Reduces, Moved
    <3>4. buffer[r]["out"][k] = Reduced(k)
      BY <2>2, <2>3, <3>3 DEF Carried
    <3> QED
      BY <2>3, <3>4 DEF Promised, Reduced, Dtype, ReduceOp
  <2>4. CASE script.promise = "previous"
    <3>1. PICK i \in DOMAIN script.calls : \E j \in DOMAIN script.calls : HandsOn(script, i, j)
      BY <2>1, <2>4, PromiseFacts
    <3>2. PICK j \in DOMAIN script.calls : HandsOn(script, i, j)
      BY <3>1
    <3>3. /\ j \in Places(script, Moves) /\ \E d \in Places(script, {"CommDestroy"}) : d > j
          /\ script.calls[j].call = "Recv"
      BY <3>2 DEF HandsOn
    <3>4. buffer[r]["out"][k] = Handed(r, k)
      BY <2>2, <2>4, <3>3 DEF Carried
    <3> QED
      BY <2>4, <3>4 DEF Promised, Handed, Dtype
  <2>5. script.promise # "abort"
    <3> SUFFICES ASSUME script.promise = "abort" PROVE FALSE
      OBVIOUS
    <3>1. PICK i \in DOMAIN script.calls : Stops(script, i)
      BY <2>1, PromiseFacts
    <3>2. pc[r] <= i
      BY <3>1 DEF Carrying, HeldUp
    <3> QED
      BY <2>1, <3>2
  <2> QED
    BY <2>1, <2>3, <2>4, <2>5, PromiseFacts
<1>2. Spec => []Carrying
  BY CarryingInit, CarryingStep, InvAlways, PTL DEF Spec
<1> QED
  BY <1>1, <1>2, InvAlways, PTL

=============================================================================
