------------------------ MODULE MacaDeviceContextProofs ------------------------
(***************************************************************************)
(* Proofs about MacaDeviceContext, for any threads and devices.            *)
(*                                                                         *)
(* What is left of a thread's call tells where the thread stands: which    *)
(* devices it has to go back to, which call_once functions it is running,  *)
(* and what the steps it has made have built (Place).  A call_once flag is *)
(* running exactly while one thread still owes the step that ends its      *)
(* function (Owners).                                                      *)
(***************************************************************************)
EXTENDS MacaDeviceContext, SequenceTheorems, FiniteSetTheorems, TLAPS

Names == {"onceInitialize", "onceStream", "onceHandle", "initialized", "streamReady", "handleReady",
          "capture", "resize", "makeFlags", "enter", "restore", "createDefault", "retainPool", "createHandle",
          "create", "gotStream", "gotHandle", "gotCreated"}

(* The steps that end the function of a call_once.                           *)
Ends == {"initialized", "streamReady", "handleReady"}

Owes(q, step) == \E i \in 1 .. Len(q) : q[i] = step

-----------------------------------------------------------------------------
(* Sequences of steps.                                                       *)

LEMMA ConcatHeadTail ==
    ASSUME NEW S, NEW s \in Seq(S), NEW r \in Seq(S), s # <<>>
    PROVE  /\ s \o r \in Seq(S) /\ s \o r # <<>>
           /\ Head(s \o r) = Head(s) /\ Tail(s \o r) = Tail(s) \o r
<1>1. /\ s \o r \in Seq(S) /\ Len(s \o r) = Len(s) + Len(r) /\ Len(s) \in Nat \ {0} /\ Len(r) \in Nat
      /\ \A i \in 1 .. Len(s) + Len(r) : (s \o r)[i] = IF i <= Len(s) THEN s[i] ELSE r[i - Len(s)]
  BY ConcatProperties, EmptySeq, LenProperties
<1>2. s \o r # <<>>
  BY <1>1, EmptySeq
<1>3. Head(s) = s[1] /\ Head(s \o r) = (s \o r)[1]
  BY <1>2, HeadTailProperties
<1>4. (s \o r)[1] = s[1]
  BY <1>1
<1>5. /\ Tail(s) \in Seq(S) /\ Len(Tail(s)) = Len(s) - 1
      /\ \A i \in 1 .. Len(Tail(s)) : Tail(s)[i] = s[i + 1]
  BY HeadTailProperties
<1>6. /\ Tail(s \o r) \in Seq(S) /\ Len(Tail(s \o r)) = Len(s) + Len(r) - 1
      /\ \A i \in 1 .. Len(s) + Len(r) - 1 : Tail(s \o r)[i] = (s \o r)[i + 1]
  BY <1>1, <1>2, HeadTailProperties
<1>7. /\ Tail(s) \o r \in Seq(S) /\ Len(Tail(s) \o r) = Len(s) - 1 + Len(r)
      /\ \A i \in 1 .. Len(s) - 1 + Len(r) :
            (Tail(s) \o r)[i] = IF i <= Len(s) - 1 THEN Tail(s)[i] ELSE r[i - (Len(s) - 1)]
  BY <1>1, <1>5, ConcatProperties
<1>8. ASSUME NEW i \in 1 .. Len(s) + Len(r) - 1
      PROVE  Tail(s \o r)[i] = (Tail(s) \o r)[i]
  <2>1. i \in Nat \ {0} /\ i + 1 \in 1 .. Len(s) + Len(r)
    BY <1>1
  <2>2. CASE i <= Len(s) - 1
    <3>1. i + 1 <= Len(s) /\ i \in 1 .. Len(s) - 1
      BY <1>1, <2>1, <2>2
    <3> QED  BY <1>1, <1>5, <1>6, <1>7, <2>1, <3>1
  <2>3. CASE ~(i <= Len(s) - 1)
    <3>1. ~(i + 1 <= Len(s)) /\ i - (Len(s) - 1) = (i + 1) - Len(s) /\ i \in 1 .. Len(s) - 1 + Len(r)
      BY <1>1, <2>1, <2>3
    <3> QED  BY <1>1, <1>6, <1>7, <2>1, <3>1
  <2> QED  BY <2>2, <2>3
<1>9. Tail(s \o r) = Tail(s) \o r
  <2>1. Len(Tail(s \o r)) = Len(Tail(s) \o r) /\ Len(s) - 1 + Len(r) = Len(s) + Len(r) - 1
    BY <1>1, <1>6, <1>7
  <2>2. \A i \in 1 .. Len(Tail(s \o r)) : Tail(s \o r)[i] = (Tail(s) \o r)[i]
    BY <1>6, <1>8
  <2> QED  BY <1>6, <1>7, <2>1, <2>2, SeqEqual
<1> QED  BY <1>1, <1>2, <1>3, <1>4, <1>9

LEMMA PushPop ==
    ASSUME NEW S, NEW v \in S, NEW s \in Seq(S)
    PROVE  <<v>> \o s \in Seq(S) /\ Head(<<v>> \o s) = v /\ Tail(<<v>> \o s) = s
<1>1. <<v>> \in Seq(S) /\ <<v>> # <<>> /\ Head(<<v>>) = v /\ Tail(<<v>>) = <<>>
  OBVIOUS
<1>2. <<>> \o s = s
  BY ConcatEmptySeq
<1> QED  BY <1>1, <1>2, ConcatHeadTail

LEMMA Pair ==
    ASSUME NEW S, NEW v \in S, NEW w \in S
    PROVE  <<v>> \o <<w>> = <<v, w>>
<1>1. <<v>> \in Seq(S) /\ <<w>> \in Seq(S) /\ Len(<<v>>) = 1 /\ Len(<<w>>) = 1 /\ <<v>>[1] = v /\ <<w>>[1] = w
  OBVIOUS
<1>2. <<v, w>> \in Seq(S) /\ Len(<<v, w>>) = 2 /\ <<v, w>>[1] = v /\ <<v, w>>[2] = w
  OBVIOUS
<1> DEFINE a == <<v>>
           b == <<w>>
<1> HIDE DEF a, b
<1>3. /\ a \o b \in Seq(S) /\ Len(a \o b) = Len(a) + Len(b)
      /\ \A i \in 1 .. Len(a) + Len(b) : (a \o b)[i] = IF i <= Len(a) THEN a[i] ELSE b[i - Len(a)]
  BY <1>1, ConcatProperties DEF a, b
<1>4. Len(a \o b) = 2 /\ (a \o b)[1] = v /\ (a \o b)[2] = w
  BY <1>1, <1>3 DEF a, b
<1>5. \A i \in 1 .. Len(a \o b) : (a \o b)[i] = <<v, w>>[i]
  BY <1>2, <1>4
<1> QED  BY <1>2, <1>3, <1>4, <1>5, SeqEqual DEF a, b

LEMMA OwesTail ==
    ASSUME NEW q \in Seq(Names), q # <<>>, NEW step
    PROVE  /\ Tail(q) \in Seq(Names)
           /\ Owes(Tail(q), step) => Owes(q, step)
           /\ Owes(q, step) /\ Head(q) # step => Owes(Tail(q), step)
<1>1. /\ Tail(q) \in Seq(Names) /\ Len(Tail(q)) = Len(q) - 1 /\ Len(q) \in Nat \ {0}
      /\ \A i \in 1 .. Len(q) - 1 : Tail(q)[i] = q[i + 1]
      /\ Head(q) = q[1]
  BY HeadTailProperties, EmptySeq, LenProperties
<1>2. ASSUME Owes(Tail(q), step) PROVE Owes(q, step)
  <2>1. PICK i \in 1 .. Len(q) - 1 : Tail(q)[i] = step
    BY <1>1, <1>2 DEF Owes
  <2>2. i + 1 \in 1 .. Len(q) /\ q[i + 1] = step
    BY <1>1, <2>1
  <2> QED  BY <2>2 DEF Owes
<1>3. ASSUME Owes(q, step), Head(q) # step PROVE Owes(Tail(q), step)
  <2>1. PICK i \in 1 .. Len(q) : q[i] = step
    BY <1>3 DEF Owes
  <2>2. i # 1
    BY <1>1, <1>3, <2>1
  <2>3. i - 1 \in 1 .. Len(q) - 1 /\ (i - 1) + 1 = i
    BY <1>1, <2>1, <2>2
  <2>4. Tail(q)[i - 1] = step
    BY <1>1, <2>1, <2>3
  <2> QED  BY <1>1, <2>3, <2>4 DEF Owes
<1> QED  BY <1>1, <1>2, <1>3

LEMMA OwesConcat ==
    ASSUME NEW s \in Seq(Names), NEW r \in Seq(Names), NEW step
    PROVE  s \o r \in Seq(Names) /\ (Owes(s \o r, step) <=> Owes(s, step) \/ Owes(r, step))
<1>1. /\ s \o r \in Seq(Names) /\ Len(s \o r) = Len(s) + Len(r) /\ Len(s) \in Nat /\ Len(r) \in Nat
      /\ \A i \in 1 .. Len(s) + Len(r) : (s \o r)[i] = IF i <= Len(s) THEN s[i] ELSE r[i - Len(s)]
  BY ConcatProperties, LenProperties
<1>2. ASSUME Owes(s \o r, step) PROVE Owes(s, step) \/ Owes(r, step)
  <2>1. PICK i \in 1 .. Len(s) + Len(r) : (s \o r)[i] = step
    BY <1>1, <1>2 DEF Owes
  <2>2. CASE i <= Len(s)
    <3>1. i \in 1 .. Len(s) /\ s[i] = step
      BY <1>1, <2>1, <2>2
    <3> QED  BY <3>1 DEF Owes
  <2>3. CASE ~(i <= Len(s))
    <3>1. i - Len(s) \in 1 .. Len(r) /\ r[i - Len(s)] = step
      BY <1>1, <2>1, <2>3
    <3> QED  BY <3>1 DEF Owes
  <2> QED  BY <2>2, <2>3
<1>3. ASSUME Owes(s, step) PROVE Owes(s \o r, step)
  <2>1. PICK i \in 1 .. Len(s) : s[i] = step
    BY <1>3 DEF Owes
  <2>2. i \in 1 .. Len(s) + Len(r) /\ (s \o r)[i] = step
    BY <1>1, <2>1
  <2> QED  BY <1>1, <2>2 DEF Owes
<1>4. ASSUME Owes(r, step) PROVE Owes(s \o r, step)
  <2>1. PICK i \in 1 .. Len(r) : r[i] = step
    BY <1>4 DEF Owes
  <2>2. Len(s) + i \in 1 .. Len(s) + Len(r) /\ ~(Len(s) + i <= Len(s)) /\ (Len(s) + i) - Len(s) = i
    BY <1>1, <2>1
  <2>3. (s \o r)[Len(s) + i] = step
    BY <1>1, <2>1, <2>2
  <2> QED  BY <1>1, <2>2, <2>3 DEF Owes
<1> QED  BY <1>1, <1>2, <1>3, <1>4

-----------------------------------------------------------------------------
(* What can be left of a call.                                               *)

GotStream == <<"gotStream">>
GotHandle == <<"gotHandle">>
GotCreated == <<"gotCreated">>
CreateRests == <<"create", "restore", "gotCreated">>
RestoreRests == <<"restore", "gotCreated">>
Back == <<"restore">>

Called == <<"onceInitialize">>

Bodies == {GetStreamBody, GetBlasHandleBody, CreateStreamBody, SynchronizeDeviceBody}

(* Tails of the functions of call_once, in front of what comes after them.   *)
Init1 == InitializeBody
Init2 == <<"resize", "makeFlags", "initialized">>
Init3 == <<"makeFlags", "initialized">>
Init4 == <<"initialized">>
Stream1(r) == InitSingleStreamBody \o r
Stream2(r) == <<"createDefault", "retainPool", "restore", "streamReady">> \o r
Stream3(r) == <<"retainPool", "restore", "streamReady">> \o r
Stream4(r) == <<"restore", "streamReady">> \o r
Stream5(r) == <<"streamReady">> \o r
Handle1 == InitSingleHandleBody \o GotHandle
Handle2 == <<"onceStream", "createHandle", "restore", "handleReady">> \o GotHandle
Handle3 == <<"createHandle", "restore", "handleReady">> \o GotHandle
Handle4 == <<"restore", "handleReady">> \o GotHandle
Handle5 == <<"handleReady">> \o GotHandle

LEMMA Literals ==
    /\ Called \in Seq(Names) /\ Called # <<>> /\ Head(Called) = "onceInitialize" /\ Tail(Called) = <<>>
    /\ GetStreamBody \in Seq(Names) /\ GetStreamBody # <<>> /\ Head(GetStreamBody) = "onceStream" /\ Tail(GetStreamBody) = GotStream
    /\ GetBlasHandleBody \in Seq(Names) /\ GetBlasHandleBody # <<>> /\ Head(GetBlasHandleBody) = "onceHandle" /\ Tail(GetBlasHandleBody) = GotHandle
    /\ CreateStreamBody \in Seq(Names) /\ CreateStreamBody # <<>> /\ Head(CreateStreamBody) = "enter" /\ Tail(CreateStreamBody) = CreateRests
    /\ SynchronizeDeviceBody \in Seq(Names) /\ SynchronizeDeviceBody # <<>> /\ Head(SynchronizeDeviceBody) = "enter" /\ Tail(SynchronizeDeviceBody) = Back
    /\ CreateRests \in Seq(Names) /\ CreateRests # <<>> /\ Head(CreateRests) = "create" /\ Tail(CreateRests) = RestoreRests
    /\ RestoreRests \in Seq(Names) /\ RestoreRests # <<>> /\ Head(RestoreRests) = "restore" /\ Tail(RestoreRests) = GotCreated
    /\ GotCreated \in Seq(Names) /\ GotCreated # <<>> /\ Head(GotCreated) = "gotCreated" /\ Tail(GotCreated) = <<>>
    /\ Back \in Seq(Names) /\ Back # <<>> /\ Head(Back) = "restore" /\ Tail(Back) = <<>>
    /\ GotStream \in Seq(Names) /\ GotStream # <<>> /\ Head(GotStream) = "gotStream" /\ Tail(GotStream) = <<>>
    /\ GotHandle \in Seq(Names) /\ GotHandle # <<>> /\ Head(GotHandle) = "gotHandle" /\ Tail(GotHandle) = <<>>
<1> USE DEF Names
<1>1. Called \in Seq(Names) /\ Called # <<>> /\ Head(Called) = "onceInitialize" /\ Tail(Called) = <<>>
  BY DEF Called
<1>2. GetStreamBody \in Seq(Names) /\ GetStreamBody # <<>> /\ Head(GetStreamBody) = "onceStream" /\ Tail(GetStreamBody) = GotStream
  BY DEF GetStreamBody, GotStream
<1>3. GetBlasHandleBody \in Seq(Names) /\ GetBlasHandleBody # <<>> /\ Head(GetBlasHandleBody) = "onceHandle" /\ Tail(GetBlasHandleBody) = GotHandle
  BY DEF GetBlasHandleBody, GotHandle
<1>4. CreateStreamBody \in Seq(Names) /\ CreateStreamBody # <<>> /\ Head(CreateStreamBody) = "enter" /\ Tail(CreateStreamBody) = CreateRests
  BY DEF CreateStreamBody, CreateRests
<1>5. SynchronizeDeviceBody \in Seq(Names) /\ SynchronizeDeviceBody # <<>> /\ Head(SynchronizeDeviceBody) = "enter" /\ Tail(SynchronizeDeviceBody) = Back
  BY DEF SynchronizeDeviceBody, Back
<1>7. CreateRests \in Seq(Names) /\ CreateRests # <<>> /\ Head(CreateRests) = "create" /\ Tail(CreateRests) = RestoreRests
  BY DEF CreateRests, RestoreRests
<1>8. RestoreRests \in Seq(Names) /\ RestoreRests # <<>> /\ Head(RestoreRests) = "restore" /\ Tail(RestoreRests) = GotCreated
  BY DEF RestoreRests, GotCreated
<1>9. GotCreated \in Seq(Names) /\ GotCreated # <<>> /\ Head(GotCreated) = "gotCreated" /\ Tail(GotCreated) = <<>>
  BY DEF GotCreated
<1>10. Back \in Seq(Names) /\ Back # <<>> /\ Head(Back) = "restore" /\ Tail(Back) = <<>>
  BY DEF Back
<1>11. GotStream \in Seq(Names) /\ GotStream # <<>> /\ Head(GotStream) = "gotStream" /\ Tail(GotStream) = <<>>
  BY DEF GotStream
<1>12. GotHandle \in Seq(Names) /\ GotHandle # <<>> /\ Head(GotHandle) = "gotHandle" /\ Tail(GotHandle) = <<>>
  BY DEF GotHandle
<1> QED  BY <1>1, <1>2, <1>3, <1>4, <1>5, <1>7, <1>8, <1>9, <1>10, <1>11, <1>12

LEMMA BodiesFacts ==
    ASSUME NEW r \in Bodies
    PROVE  /\ r \in Seq(Names) /\ r # <<>>
           /\ Head(r) \in {"onceStream", "onceHandle", "enter"}
BY Literals DEF Bodies

(* A function with its call_once in front of r.                              *)
LEMMA Shift ==
    \A s \in Seq(Names), r \in Seq(Names) : s # <<>> =>
        /\ s \o r \in Seq(Names) /\ s \o r # <<>>
        /\ Head(s \o r) = Head(s) /\ Tail(s \o r) = Tail(s) \o r
BY ConcatHeadTail

LEMMA InitTails ==
    /\ Init1 \in Seq(Names) /\ Init1 # <<>> /\ Head(Init1) = "capture" /\ Tail(Init1) = Init2
    /\ Init2 \in Seq(Names) /\ Init2 # <<>> /\ Head(Init2) = "resize" /\ Tail(Init2) = Init3
    /\ Init3 \in Seq(Names) /\ Init3 # <<>> /\ Head(Init3) = "makeFlags" /\ Tail(Init3) = Init4
    /\ Init4 \in Seq(Names) /\ Init4 # <<>> /\ Head(Init4) = "initialized" /\ Tail(Init4) = <<>>
<1>1. Init1 \in Seq(Names) /\ Init1 # <<>> /\ Head(Init1) = "capture" /\ Tail(Init1) = Init2
  BY DEF Init1, Init2, InitializeBody, Names
<1>2. Init2 \in Seq(Names) /\ Init2 # <<>> /\ Head(Init2) = "resize" /\ Tail(Init2) = Init3
  BY DEF Init2, Init3, Names
<1>3. Init3 \in Seq(Names) /\ Init3 # <<>> /\ Head(Init3) = "makeFlags" /\ Tail(Init3) = Init4
  BY DEF Init3, Init4, Names
<1>4. Init4 \in Seq(Names) /\ Init4 # <<>> /\ Head(Init4) = "initialized" /\ Tail(Init4) = <<>>
  BY DEF Init4, Names
<1> QED  BY <1>1, <1>2, <1>3, <1>4

LEMMA StreamTails ==
    ASSUME NEW r \in Seq(Names)
    PROVE  /\ Stream1(r) \in Seq(Names) /\ Stream1(r) # <<>> /\ Head(Stream1(r)) = "enter" /\ Tail(Stream1(r)) = Stream2(r)
           /\ Stream2(r) \in Seq(Names) /\ Stream2(r) # <<>> /\ Head(Stream2(r)) = "createDefault" /\ Tail(Stream2(r)) = Stream3(r)
           /\ Stream3(r) \in Seq(Names) /\ Stream3(r) # <<>> /\ Head(Stream3(r)) = "retainPool" /\ Tail(Stream3(r)) = Stream4(r)
           /\ Stream4(r) \in Seq(Names) /\ Stream4(r) # <<>> /\ Head(Stream4(r)) = "restore" /\ Tail(Stream4(r)) = Stream5(r)
           /\ Stream5(r) \in Seq(Names) /\ Stream5(r) # <<>> /\ Head(Stream5(r)) = "streamReady" /\ Tail(Stream5(r)) = r
<1> DEFINE s1 == InitSingleStreamBody
           s2 == <<"createDefault", "retainPool", "restore", "streamReady">>
           s3 == <<"retainPool", "restore", "streamReady">>
           s4 == <<"restore", "streamReady">>
           s5 == <<"streamReady">>
<1>1. s1 \in Seq(Names) /\ s1 # <<>> /\ Head(s1) = "enter" /\ Tail(s1) = s2
  BY DEF InitSingleStreamBody, Names
<1>2. s2 \in Seq(Names) /\ s2 # <<>> /\ Head(s2) = "createDefault" /\ Tail(s2) = s3
  BY DEF Names
<1>3. s3 \in Seq(Names) /\ s3 # <<>> /\ Head(s3) = "retainPool" /\ Tail(s3) = s4
  BY DEF Names
<1>4. s4 \in Seq(Names) /\ s4 # <<>> /\ Head(s4) = "restore" /\ Tail(s4) = s5
  BY DEF Names
<1>5. s5 \in Seq(Names) /\ s5 # <<>> /\ Head(s5) = "streamReady" /\ Tail(s5) = <<>>
  BY DEF Names
<1>6. /\ {"enter", "createDefault", "retainPool", "restore", "streamReady"} \subseteq Names
      /\ <<>> \in Seq(Names) /\ <<>> \o r = r
  BY ConcatEmptySeq DEF Names
<1>7. /\ Stream1(r) = s1 \o r /\ Stream2(r) = s2 \o r /\ Stream3(r) = s3 \o r
      /\ Stream4(r) = s4 \o r /\ Stream5(r) = s5 \o r
  BY DEF Stream1, Stream2, Stream3, Stream4, Stream5
<1> HIDE DEF s1, s2, s3, s4, s5
<1>8. s1 \o r \in Seq(Names) /\ s1 \o r # <<>> /\ Head(s1 \o r) = "enter" /\ Tail(s1 \o r) = s2 \o r
  BY <1>1, <1>2, <1>6, Shift
<1>9. s2 \o r \in Seq(Names) /\ s2 \o r # <<>> /\ Head(s2 \o r) = "createDefault" /\ Tail(s2 \o r) = s3 \o r
  BY <1>2, <1>3, <1>6, Shift
<1>10. s3 \o r \in Seq(Names) /\ s3 \o r # <<>> /\ Head(s3 \o r) = "retainPool" /\ Tail(s3 \o r) = s4 \o r
  BY <1>3, <1>4, <1>6, Shift
<1>11. s4 \o r \in Seq(Names) /\ s4 \o r # <<>> /\ Head(s4 \o r) = "restore" /\ Tail(s4 \o r) = s5 \o r
  BY <1>4, <1>5, <1>6, Shift
<1>12. s5 \o r \in Seq(Names) /\ s5 \o r # <<>> /\ Head(s5 \o r) = "streamReady" /\ Tail(s5 \o r) = r
  <2>1. s5 \o r \in Seq(Names) /\ s5 \o r # <<>> /\ Head(s5 \o r) = Head(s5) /\ Tail(s5 \o r) = Tail(s5) \o r
    BY <1>5, Shift
  <2> QED  BY <1>5, <1>6, <2>1
<1> QED  BY <1>7, <1>8, <1>9, <1>10, <1>11, <1>12

LEMMA HandleTails ==
    /\ Handle1 \in Seq(Names) /\ Handle1 # <<>> /\ Head(Handle1) = "enter" /\ Tail(Handle1) = Handle2
    /\ Handle2 \in Seq(Names) /\ Handle2 # <<>> /\ Head(Handle2) = "onceStream" /\ Tail(Handle2) = Handle3
    /\ Handle3 \in Seq(Names) /\ Handle3 # <<>> /\ Head(Handle3) = "createHandle" /\ Tail(Handle3) = Handle4
    /\ Handle4 \in Seq(Names) /\ Handle4 # <<>> /\ Head(Handle4) = "restore" /\ Tail(Handle4) = Handle5
    /\ Handle5 \in Seq(Names) /\ Handle5 # <<>> /\ Head(Handle5) = "handleReady" /\ Tail(Handle5) = GotHandle
<1> DEFINE s1 == InitSingleHandleBody
           s2 == <<"onceStream", "createHandle", "restore", "handleReady">>
           s3 == <<"createHandle", "restore", "handleReady">>
           s4 == <<"restore", "handleReady">>
           s5 == <<"handleReady">>
<1>1. s1 \in Seq(Names) /\ s1 # <<>> /\ Head(s1) = "enter" /\ Tail(s1) = s2
  BY DEF InitSingleHandleBody, Names
<1>2. s2 \in Seq(Names) /\ s2 # <<>> /\ Head(s2) = "onceStream" /\ Tail(s2) = s3
  BY DEF Names
<1>3. s3 \in Seq(Names) /\ s3 # <<>> /\ Head(s3) = "createHandle" /\ Tail(s3) = s4
  BY DEF Names
<1>4. s4 \in Seq(Names) /\ s4 # <<>> /\ Head(s4) = "restore" /\ Tail(s4) = s5
  BY DEF Names
<1>5. s5 \in Seq(Names) /\ s5 # <<>> /\ Head(s5) = "handleReady" /\ Tail(s5) = <<>>
  BY DEF Names
<1>6. /\ {"enter", "onceStream", "createHandle", "restore", "handleReady"} \subseteq Names
      /\ <<>> \in Seq(Names) /\ GotHandle \in Seq(Names) /\ <<>> \o GotHandle = GotHandle
  BY ConcatEmptySeq, Literals DEF Names
<1>7. /\ Handle1 = s1 \o GotHandle /\ Handle2 = s2 \o GotHandle /\ Handle3 = s3 \o GotHandle
      /\ Handle4 = s4 \o GotHandle /\ Handle5 = s5 \o GotHandle
  BY DEF Handle1, Handle2, Handle3, Handle4, Handle5
<1> HIDE DEF s1, s2, s3, s4, s5
<1>8. /\ s1 \o GotHandle \in Seq(Names) /\ s1 \o GotHandle # <<>>
      /\ Head(s1 \o GotHandle) = "enter" /\ Tail(s1 \o GotHandle) = s2 \o GotHandle
  BY <1>1, <1>2, <1>6, Shift
<1>9. /\ s2 \o GotHandle \in Seq(Names) /\ s2 \o GotHandle # <<>>
      /\ Head(s2 \o GotHandle) = "onceStream" /\ Tail(s2 \o GotHandle) = s3 \o GotHandle
  BY <1>2, <1>3, <1>6, Shift
<1>10. /\ s3 \o GotHandle \in Seq(Names) /\ s3 \o GotHandle # <<>>
       /\ Head(s3 \o GotHandle) = "createHandle" /\ Tail(s3 \o GotHandle) = s4 \o GotHandle
  BY <1>3, <1>4, <1>6, Shift
<1>11. /\ s4 \o GotHandle \in Seq(Names) /\ s4 \o GotHandle # <<>>
       /\ Head(s4 \o GotHandle) = "restore" /\ Tail(s4 \o GotHandle) = s5 \o GotHandle
  BY <1>4, <1>5, <1>6, Shift
<1>12. /\ s5 \o GotHandle \in Seq(Names) /\ s5 \o GotHandle # <<>>
       /\ Head(s5 \o GotHandle) = "handleReady" /\ Tail(s5 \o GotHandle) = GotHandle
  <2>1. /\ s5 \o GotHandle \in Seq(Names) /\ s5 \o GotHandle # <<>>
        /\ Head(s5 \o GotHandle) = Head(s5) /\ Tail(s5 \o GotHandle) = Tail(s5) \o GotHandle
    BY <1>5, <1>6, Shift
  <2> QED  BY <1>5, <1>6, <2>1
<1> QED  BY <1>7, <1>8, <1>9, <1>10, <1>11, <1>12

(* What is left of a call_once function that has begun.                      *)
LEMMA OwesTable ==
    /\ \A q \in Bodies \cup {Called, CreateRests, RestoreRests, GotCreated, Back, GotStream, GotHandle, <<>>} :
          \A e \in Ends : ~Owes(q, e)
    /\ \A r \in Seq(Names), e \in Ends :
          /\ Owes(Stream1(r), e) <=> e = "streamReady" \/ Owes(r, e)
          /\ Owes(Stream2(r), e) <=> e = "streamReady" \/ Owes(r, e)
          /\ Owes(Stream3(r), e) <=> e = "streamReady" \/ Owes(r, e)
          /\ Owes(Stream4(r), e) <=> e = "streamReady" \/ Owes(r, e)
          /\ Owes(Stream5(r), e) <=> e = "streamReady" \/ Owes(r, e)
    /\ \A e \in Ends :
          /\ Owes(Init1, e) <=> e = "initialized"
          /\ Owes(Init2, e) <=> e = "initialized"
          /\ Owes(Init3, e) <=> e = "initialized"
          /\ Owes(Init4, e) <=> e = "initialized"
          /\ Owes(Handle1, e) <=> e = "handleReady"
          /\ Owes(Handle2, e) <=> e = "handleReady"
          /\ Owes(Handle3, e) <=> e = "handleReady"
          /\ Owes(Handle4, e) <=> e = "handleReady"
          /\ Owes(Handle5, e) <=> e = "handleReady"
<1>1. ASSUME NEW q \in Bodies, NEW e \in Ends PROVE ~Owes(q, e)
  BY <1>1 DEF Bodies, GetStreamBody, GetBlasHandleBody, CreateStreamBody, SynchronizeDeviceBody, Owes, Ends
<1>2. ASSUME NEW q \in {Called}, NEW e \in Ends PROVE ~Owes(q, e)
  BY <1>2 DEF Called, Owes, Ends
<1>3. ASSUME NEW q \in {CreateRests, RestoreRests, GotCreated, Back, GotStream, GotHandle, <<>>}, NEW e \in Ends
      PROVE  ~Owes(q, e)
  BY <1>3 DEF CreateRests, RestoreRests, GotCreated, Back, GotStream, GotHandle, Owes, Ends
<1>4. \A e \in Ends : Owes(Init1, e) <=> e = "initialized"
  BY DEF Init1, InitializeBody, Owes, Ends
<1>5. \A e \in Ends : Owes(Init2, e) <=> e = "initialized"
  BY DEF Init2, Owes, Ends
<1>6. \A e \in Ends : (Owes(Init3, e) <=> e = "initialized") /\ (Owes(Init4, e) <=> e = "initialized")
  BY DEF Init3, Init4, Owes, Ends
<1>7. \A e \in Ends : Owes(InitSingleStreamBody, e) <=> e = "streamReady"
  BY DEF InitSingleStreamBody, Owes, Ends
<1>8. \A e \in Ends : Owes(<<"createDefault", "retainPool", "restore", "streamReady">>, e) <=> e = "streamReady"
  BY DEF Owes, Ends
<1>9. \A e \in Ends : Owes(<<"retainPool", "restore", "streamReady">>, e) <=> e = "streamReady"
  BY DEF Owes, Ends
<1>10. \A e \in Ends : Owes(<<"restore", "streamReady">>, e) <=> e = "streamReady"
  BY DEF Owes, Ends
<1>11. \A e \in Ends : Owes(<<"streamReady">>, e) <=> e = "streamReady"
  BY DEF Owes, Ends
<1>12. \A e \in Ends : Owes(InitSingleHandleBody, e) <=> e = "handleReady"
  BY DEF InitSingleHandleBody, Owes, Ends
<1>13. \A e \in Ends : Owes(<<"onceStream", "createHandle", "restore", "handleReady">>, e) <=> e = "handleReady"
  BY DEF Owes, Ends
<1>14. \A e \in Ends : Owes(<<"createHandle", "restore", "handleReady">>, e) <=> e = "handleReady"
  BY DEF Owes, Ends
<1>15. \A e \in Ends : Owes(<<"restore", "handleReady">>, e) <=> e = "handleReady"
  BY DEF Owes, Ends
<1>16. \A e \in Ends : Owes(<<"handleReady">>, e) <=> e = "handleReady"
  BY DEF Owes, Ends
<1>17. \A s \in Seq(Names), r \in Seq(Names), e \in Ends : Owes(s \o r, e) <=> Owes(s, e) \/ Owes(r, e)
  BY OwesConcat
<1>18. /\ InitSingleStreamBody \in Seq(Names)
       /\ <<"createDefault", "retainPool", "restore", "streamReady">> \in Seq(Names)
       /\ <<"retainPool", "restore", "streamReady">> \in Seq(Names)
       /\ <<"restore", "streamReady">> \in Seq(Names) /\ <<"streamReady">> \in Seq(Names)
  BY DEF Names, InitSingleStreamBody
<1>19. /\ InitSingleHandleBody \in Seq(Names)
       /\ <<"onceStream", "createHandle", "restore", "handleReady">> \in Seq(Names)
       /\ <<"createHandle", "restore", "handleReady">> \in Seq(Names)
       /\ <<"restore", "handleReady">> \in Seq(Names) /\ <<"handleReady">> \in Seq(Names)
       /\ GotHandle \in Seq(Names) /\ \A e \in Ends : ~Owes(GotHandle, e)
  BY <1>3, Literals DEF Names, InitSingleHandleBody
<1>21. ASSUME NEW r \in Seq(Names), NEW e \in Ends
       PROVE  /\ Owes(Stream1(r), e) <=> e = "streamReady" \/ Owes(r, e)
              /\ Owes(Stream2(r), e) <=> e = "streamReady" \/ Owes(r, e)
              /\ Owes(Stream3(r), e) <=> e = "streamReady" \/ Owes(r, e)
              /\ Owes(Stream4(r), e) <=> e = "streamReady" \/ Owes(r, e)
              /\ Owes(Stream5(r), e) <=> e = "streamReady" \/ Owes(r, e)
  BY <1>7, <1>8, <1>9, <1>10, <1>11, <1>17, <1>18 DEF Stream1, Stream2, Stream3, Stream4, Stream5
<1>22. ASSUME NEW e \in Ends
       PROVE  /\ Owes(Handle1, e) <=> e = "handleReady"
              /\ Owes(Handle2, e) <=> e = "handleReady"
              /\ Owes(Handle3, e) <=> e = "handleReady"
              /\ Owes(Handle4, e) <=> e = "handleReady"
              /\ Owes(Handle5, e) <=> e = "handleReady"
  BY <1>12, <1>13, <1>14, <1>15, <1>16, <1>17, <1>19 DEF Handle1, Handle2, Handle3, Handle4, Handle5
<1> QED  BY <1>1, <1>2, <1>3, <1>4, <1>5, <1>6, <1>21, <1>22

-----------------------------------------------------------------------------
(* The invariant.                                                            *)

Slots == {Null} \cup Streams
HandleSlots == {Null} \cup [dev : Devices, stream : Streams]

Types ==
    /\ FLAGS \in Flags /\ captured \in Flags
    /\ once \in [OnceFlags -> {"none", "fresh", "running", "done"}]
    /\ threshold \in [Devices -> {0, RetainedThreshold}]
    /\ device \in [Threads -> Devices] /\ target \in [Threads -> Devices] /\ chosen \in [Threads -> Devices]
    /\ created \in [Threads -> Slots]
    /\ saved \in [Threads -> Seq(Devices)]
    /\ todo \in [Threads -> Seq(Names)]
    /\ given \in BOOLEAN /\ modes \subseteq BOOLEAN

(* The vectors have their size: devices are known.                           *)
Ready == DOMAIN g_maca_streams # {}
StreamDone(d) == once[StreamFlag(d)] = "done"
HandleDone(d) == once[HandleFlag(d)] = "done"

Sized == /\ g_maca_streams \in [Devices -> Slots]
         /\ g_maca_blas_handles \in [Devices -> HandleSlots]
Built(d) == g_maca_streams[d] # Null
Bound(d) == g_maca_blas_handles[d] # Null
Retained(d) == captured.retain => threshold[d] = RetainedThreshold

(* What the vectors hold, and what a flag that is done stands for.           *)
Objects ==
    /\ Ready => Sized
    /\ \A d \in Devices :
         /\ Sized /\ Built(d) => g_maca_streams[d] = [dev |-> d]
         /\ Sized /\ Bound(d) => StreamDone(d) /\ g_maca_blas_handles[d] = [dev |-> d, stream |-> [dev |-> d]]
         /\ StreamDone(d) => Built(d) /\ Retained(d)
         /\ HandleDone(d) => Bound(d)
    /\ \A d \in Devices : once[StreamFlag(d)] = "none" => once[HandleFlag(d)] = "none"
    /\ \A f \in OnceFlags : f # InitFlag /\ once[f] \notin {"none", "fresh"} => Ready
    /\ once[InitFlag] = "fresh" => captured.workarounds = FALSE /\ ~Ready
    /\ given => Ready
    /\ modes \subseteq {captured.workarounds}
    /\ modes # {} => given \/ captured.workarounds = TRUE

(* The device a thread is on and the devices it has to go back to.           *)
Home(t) == saved[t] = <<>> /\ device[t] = chosen[t]
Away(t) == saved[t] = <<chosen[t]>> /\ device[t] = target[t]
Farther(t) == saved[t] = <<target[t], chosen[t]>> /\ device[t] = target[t]

(* No device is known before the flags are captured.                         *)
InInitialize(t) ==
    /\ Home(t)
    /\ \/ todo[t] = Init1 /\ captured.workarounds = FALSE /\ ~Ready
       \/ todo[t] = Init2 /\ ~Ready
       \/ todo[t] = Init3 /\ Ready
       \/ todo[t] = Init4 /\ Ready

InStream(t) ==
    \/ Home(t) /\ todo[t] = Stream1(GotStream)
    \/ Away(t) /\ todo[t] = Stream2(GotStream)
    \/ Away(t) /\ todo[t] = Stream3(GotStream) /\ Built(target[t])
    \/ Away(t) /\ todo[t] = Stream4(GotStream) /\ Built(target[t]) /\ Retained(target[t])
    \/ Home(t) /\ todo[t] = Stream5(GotStream) /\ Built(target[t]) /\ Retained(target[t])

InNested(t) ==
    \/ Away(t) /\ todo[t] = Stream1(Handle3)
    \/ Farther(t) /\ todo[t] = Stream2(Handle3)
    \/ Farther(t) /\ todo[t] = Stream3(Handle3) /\ Built(target[t])
    \/ Farther(t) /\ todo[t] = Stream4(Handle3) /\ Built(target[t]) /\ Retained(target[t])
    \/ Away(t) /\ todo[t] = Stream5(Handle3) /\ Built(target[t]) /\ Retained(target[t])

InHandle(t) ==
    \/ Home(t) /\ todo[t] = Handle1
    \/ Away(t) /\ todo[t] = Handle2
    \/ Away(t) /\ todo[t] = Handle3 /\ StreamDone(target[t])
    \/ Away(t) /\ todo[t] = Handle4 /\ Bound(target[t])
    \/ Home(t) /\ todo[t] = Handle5 /\ Bound(target[t])

InCall(t) ==
    \/ Home(t) /\ todo[t] \in Bodies
    \/ Away(t) /\ todo[t] = CreateRests
    \/ Away(t) /\ todo[t] = RestoreRests /\ created[t] = [dev |-> target[t]]
    \/ Home(t) /\ todo[t] = GotCreated /\ created[t] = [dev |-> target[t]]
    \/ Away(t) /\ todo[t] = Back
    \/ Home(t) /\ todo[t] = GotStream /\ StreamDone(target[t])
    \/ Home(t) /\ todo[t] = GotHandle /\ HandleDone(target[t])

Place(t) ==
    \/ Home(t) /\ todo[t] \in {<<>>, Called}
    \/ InInitialize(t)
    \/ Ready /\ (InCall(t) \/ InStream(t) \/ InNested(t) \/ InHandle(t))

(* Thread t is running the function of flag f.                               *)
Executes(t, f) ==
    \/ f = InitFlag /\ Owes(todo[t], "initialized")
    \/ f = StreamFlag(target[t]) /\ Owes(todo[t], "streamReady")
    \/ f = HandleFlag(target[t]) /\ Owes(todo[t], "handleReady")

Owners ==
    /\ \A f \in OnceFlags, t \in Threads : Executes(t, f) => once[f] = "running"
    /\ \A f \in OnceFlags : once[f] = "running" => \E t \in Threads : Executes(t, f)
    /\ \A f \in OnceFlags, t \in Threads, u \in Threads : Executes(t, f) /\ Executes(u, f) => t = u

IInv == Types /\ Objects /\ Owners /\ \A t \in Threads : Place(t)

-----------------------------------------------------------------------------
(* Where a thread can be that is at a given step.                            *)

LEMMA AllHeads ==
    /\ Head(Called) = "onceInitialize"
    /\ Head(Init1) = "capture" /\ Head(Init2) = "resize" /\ Head(Init3) = "makeFlags" /\ Head(Init4) = "initialized"
    /\ Head(GetStreamBody) = "onceStream" /\ Head(GetBlasHandleBody) = "onceHandle" /\ Head(CreateStreamBody) = "enter"
    /\ Head(SynchronizeDeviceBody) = "enter" /\ Head(CreateRests) = "create"
    /\ Head(RestoreRests) = "restore" /\ Head(GotCreated) = "gotCreated" /\ Head(Back) = "restore"
    /\ Head(GotStream) = "gotStream" /\ Head(GotHandle) = "gotHandle"
    /\ \A r \in {GotStream, Handle3} :
         /\ Head(Stream1(r)) = "enter" /\ Head(Stream2(r)) = "createDefault" /\ Head(Stream3(r)) = "retainPool"
         /\ Head(Stream4(r)) = "restore" /\ Head(Stream5(r)) = "streamReady"
    /\ Head(Handle1) = "enter" /\ Head(Handle2) = "onceStream" /\ Head(Handle3) = "createHandle"
    /\ Head(Handle4) = "restore" /\ Head(Handle5) = "handleReady"
<1>1. Head(Init1) = "capture" /\ Head(Init2) = "resize" /\ Head(Init3) = "makeFlags" /\ Head(Init4) = "initialized"
  BY InitTails
<1>2. \A r \in {GotStream, Handle3} :
         /\ Head(Stream1(r)) = "enter" /\ Head(Stream2(r)) = "createDefault" /\ Head(Stream3(r)) = "retainPool"
         /\ Head(Stream4(r)) = "restore" /\ Head(Stream5(r)) = "streamReady"
  <2>1. GotStream \in Seq(Names) /\ Handle3 \in Seq(Names)
    BY Literals, HandleTails
  <2> QED  BY <2>1, StreamTails
<1> QED  BY <1>1, <1>2, Literals, HandleTails

Entering(t) ==
    \/ Home(t) /\ todo[t] \in {CreateStreamBody, SynchronizeDeviceBody, Stream1(GotStream), Handle1}
    \/ Away(t) /\ todo[t] = Stream1(Handle3)

Restoring(t) ==
    \/ Away(t) /\ todo[t] = RestoreRests /\ created[t] = [dev |-> target[t]]
    \/ Away(t) /\ todo[t] = Back
    \/ Away(t) /\ todo[t] = Stream4(GotStream) /\ Built(target[t]) /\ Retained(target[t])
    \/ Farther(t) /\ todo[t] = Stream4(Handle3) /\ Built(target[t]) /\ Retained(target[t])
    \/ Away(t) /\ todo[t] = Handle4 /\ Bound(target[t])

LEMMA Heads ==
    ASSUME NEW t \in Threads, Place(t)
    PROVE  /\ At(t, "onceInitialize") => Home(t) /\ todo[t] = Called
           /\ At(t, "capture") => Home(t) /\ todo[t] = Init1 /\ captured.workarounds = FALSE /\ ~Ready
           /\ At(t, "resize") => Home(t) /\ todo[t] = Init2 /\ ~Ready
           /\ At(t, "makeFlags") => Home(t) /\ todo[t] = Init3 /\ Ready
           /\ At(t, "initialized") => Home(t) /\ todo[t] = Init4 /\ Ready
           /\ At(t, "onceStream") => Ready /\ ((Home(t) /\ todo[t] = GetStreamBody) \/ (Away(t) /\ todo[t] = Handle2))
           /\ At(t, "onceHandle") => Ready /\ Home(t) /\ todo[t] = GetBlasHandleBody
           /\ At(t, "enter") => Ready /\ Entering(t)
           /\ At(t, "create") => Ready /\ Away(t) /\ todo[t] = CreateRests
           /\ At(t, "gotCreated") => Ready /\ Home(t) /\ todo[t] = GotCreated /\ created[t] = [dev |-> target[t]]
           /\ At(t, "gotStream") => Ready /\ Home(t) /\ todo[t] = GotStream /\ StreamDone(target[t])
           /\ At(t, "gotHandle") => Ready /\ Home(t) /\ todo[t] = GotHandle /\ HandleDone(target[t])
           /\ At(t, "createDefault") => Ready /\ ((Away(t) /\ todo[t] = Stream2(GotStream)) \/ (Farther(t) /\ todo[t] = Stream2(Handle3)))
           /\ At(t, "retainPool") => Ready /\ ((Away(t) /\ todo[t] = Stream3(GotStream)) \/ (Farther(t) /\ todo[t] = Stream3(Handle3))) /\ Built(target[t])
           /\ At(t, "restore") => Ready /\ Restoring(t)
           /\ At(t, "streamReady") => Ready /\ ((Home(t) /\ todo[t] = Stream5(GotStream)) \/ (Away(t) /\ todo[t] = Stream5(Handle3))) /\ Built(target[t]) /\ Retained(target[t])
           /\ At(t, "createHandle") => Ready /\ Away(t) /\ todo[t] = Handle3 /\ StreamDone(target[t])
           /\ At(t, "handleReady") => Ready /\ Home(t) /\ todo[t] = Handle5 /\ Bound(target[t])
<1> USE DEF At
<1>1. InInitialize(t) => Head(todo[t]) \in {"capture", "resize", "makeFlags", "initialized"}
  BY AllHeads DEF InInitialize
<1>2. /\ InCall(t) => todo[t] \in Bodies \cup {CreateRests, RestoreRests, GotCreated, Back, GotStream, GotHandle}
      /\ InCall(t) => Head(todo[t]) \in {"onceStream", "onceHandle", "enter", "create", "restore",
                                         "gotCreated", "gotStream", "gotHandle"}
  BY AllHeads DEF InCall, Bodies
<1>3. InStream(t) \/ InNested(t) => Head(todo[t]) \in {"enter", "createDefault", "retainPool", "restore", "streamReady"}
  BY AllHeads DEF InStream, InNested
<1>4. InHandle(t) => Head(todo[t]) \in {"enter", "onceStream", "createHandle", "restore", "handleReady"}
  BY AllHeads DEF InHandle
<1>5. todo[t] = Called => Head(todo[t]) = "onceInitialize"
  BY AllHeads
<1>6. At(t, "onceInitialize") => Home(t) /\ todo[t] = Called
  BY <1>1, <1>2, <1>3, <1>4 DEF Place
<1>7. At(t, "capture") => Home(t) /\ todo[t] = Init1 /\ captured.workarounds = FALSE /\ ~Ready
  <2>1. At(t, "capture") => InInitialize(t)
    BY <1>2, <1>3, <1>4, <1>5 DEF Place
  <2>2. InInitialize(t) /\ Head(todo[t]) = "capture" => Home(t) /\ todo[t] = Init1 /\ captured.workarounds = FALSE /\ ~Ready
    BY AllHeads DEF InInitialize
  <2> QED  BY <2>1, <2>2
<1>8. At(t, "resize") => Home(t) /\ todo[t] = Init2 /\ ~Ready
  <2>1. At(t, "resize") => InInitialize(t)
    BY <1>2, <1>3, <1>4, <1>5 DEF Place
  <2>2. InInitialize(t) /\ Head(todo[t]) = "resize" => Home(t) /\ todo[t] = Init2 /\ ~Ready
    BY AllHeads DEF InInitialize
  <2> QED  BY <2>1, <2>2
<1>9. At(t, "makeFlags") => Home(t) /\ todo[t] = Init3 /\ Ready
  <2>1. At(t, "makeFlags") => InInitialize(t)
    BY <1>2, <1>3, <1>4, <1>5 DEF Place
  <2>2. InInitialize(t) /\ Head(todo[t]) = "makeFlags" => Home(t) /\ todo[t] = Init3 /\ Ready
    BY AllHeads DEF InInitialize
  <2> QED  BY <2>1, <2>2
<1>12. At(t, "initialized") => Home(t) /\ todo[t] = Init4 /\ Ready
  <2>1. At(t, "initialized") => InInitialize(t)
    BY <1>2, <1>3, <1>4, <1>5 DEF Place
  <2>2. InInitialize(t) /\ Head(todo[t]) = "initialized" => Home(t) /\ todo[t] = Init4 /\ Ready
    BY AllHeads DEF InInitialize
  <2> QED  BY <2>1, <2>2
<1>10. At(t, "onceStream") => Ready /\ ((Home(t) /\ todo[t] = GetStreamBody) \/ (Away(t) /\ todo[t] = Handle2))
  <2>1. At(t, "onceStream") => Ready /\ (InCall(t) \/ InHandle(t))
    BY <1>1, <1>2, <1>3, <1>4, <1>5 DEF Place
  <2>2. InCall(t) /\ Head(todo[t]) = "onceStream" => ((Home(t) /\ todo[t] = GetStreamBody) \/ (Away(t) /\ todo[t] = Handle2))
    BY AllHeads DEF InCall, Bodies
  <2>3. InHandle(t) /\ Head(todo[t]) = "onceStream" => ((Home(t) /\ todo[t] = GetStreamBody) \/ (Away(t) /\ todo[t] = Handle2))
    BY AllHeads DEF InHandle
  <2> QED  BY <2>1, <2>2, <2>3
<1>11. At(t, "onceHandle") => Ready /\ Home(t) /\ todo[t] = GetBlasHandleBody
  <2>1. At(t, "onceHandle") => Ready /\ (InCall(t))
    BY <1>1, <1>2, <1>3, <1>4, <1>5 DEF Place
  <2>2. InCall(t) /\ Head(todo[t]) = "onceHandle" => Home(t) /\ todo[t] = GetBlasHandleBody
    BY AllHeads DEF InCall, Bodies
  <2> QED  BY <2>1, <2>2
<1>13. At(t, "enter") => Ready /\ Entering(t)
  <2>1. At(t, "enter") => Ready /\ (InCall(t) \/ InStream(t) \/ InNested(t) \/ InHandle(t))
    BY <1>1, <1>2, <1>3, <1>4, <1>5 DEF Place
  <2>2. InCall(t) /\ Head(todo[t]) = "enter" => Entering(t)
    BY AllHeads DEF Entering, InCall, Bodies
  <2>3. InStream(t) /\ Head(todo[t]) = "enter" => Entering(t)
    BY AllHeads DEF Entering, InStream
  <2>4. InNested(t) /\ Head(todo[t]) = "enter" => Entering(t)
    BY AllHeads DEF Entering, InNested
  <2>5. InHandle(t) /\ Head(todo[t]) = "enter" => Entering(t)
    BY AllHeads DEF Entering, InHandle
  <2> QED  BY <2>1, <2>2, <2>3, <2>4, <2>5
<1>14. At(t, "create") => Ready /\ Away(t) /\ todo[t] = CreateRests
  <2>1. At(t, "create") => Ready /\ (InCall(t))
    BY <1>1, <1>2, <1>3, <1>4, <1>5 DEF Place
  <2>2. InCall(t) /\ Head(todo[t]) = "create" => Away(t) /\ todo[t] = CreateRests
    BY AllHeads DEF InCall, Bodies
  <2> QED  BY <2>1, <2>2
<1>15. At(t, "gotCreated") => Ready /\ Home(t) /\ todo[t] = GotCreated /\ created[t] = [dev |-> target[t]]
  <2>1. At(t, "gotCreated") => Ready /\ (InCall(t))
    BY <1>1, <1>2, <1>3, <1>4, <1>5 DEF Place
  <2>2. InCall(t) /\ Head(todo[t]) = "gotCreated" => Home(t) /\ todo[t] = GotCreated /\ created[t] = [dev |-> target[t]]
    BY AllHeads DEF InCall, Bodies
  <2> QED  BY <2>1, <2>2
<1>16. At(t, "gotStream") => Ready /\ Home(t) /\ todo[t] = GotStream /\ StreamDone(target[t])
  <2>1. At(t, "gotStream") => Ready /\ (InCall(t))
    BY <1>1, <1>2, <1>3, <1>4, <1>5 DEF Place
  <2>2. InCall(t) /\ Head(todo[t]) = "gotStream" => Home(t) /\ todo[t] = GotStream /\ StreamDone(target[t])
    BY AllHeads DEF InCall, Bodies
  <2> QED  BY <2>1, <2>2
<1>17. At(t, "gotHandle") => Ready /\ Home(t) /\ todo[t] = GotHandle /\ HandleDone(target[t])
  <2>1. At(t, "gotHandle") => Ready /\ (InCall(t))
    BY <1>1, <1>2, <1>3, <1>4, <1>5 DEF Place
  <2>2. InCall(t) /\ Head(todo[t]) = "gotHandle" => Home(t) /\ todo[t] = GotHandle /\ HandleDone(target[t])
    BY AllHeads DEF InCall, Bodies
  <2> QED  BY <2>1, <2>2
<1>18. At(t, "createDefault") => Ready /\ ((Away(t) /\ todo[t] = Stream2(GotStream)) \/ (Farther(t) /\ todo[t] = Stream2(Handle3)))
  <2>1. At(t, "createDefault") => Ready /\ (InStream(t) \/ InNested(t))
    BY <1>1, <1>2, <1>3, <1>4, <1>5 DEF Place
  <2>2. InStream(t) /\ Head(todo[t]) = "createDefault" => ((Away(t) /\ todo[t] = Stream2(GotStream)) \/ (Farther(t) /\ todo[t] = Stream2(Handle3)))
    BY AllHeads DEF InStream
  <2>3. InNested(t) /\ Head(todo[t]) = "createDefault" => ((Away(t) /\ todo[t] = Stream2(GotStream)) \/ (Farther(t) /\ todo[t] = Stream2(Handle3)))
    BY AllHeads DEF InNested
  <2> QED  BY <2>1, <2>2, <2>3
<1>19. At(t, "retainPool") => Ready /\ ((Away(t) /\ todo[t] = Stream3(GotStream)) \/ (Farther(t) /\ todo[t] = Stream3(Handle3))) /\ Built(target[t])
  <2>1. At(t, "retainPool") => Ready /\ (InStream(t) \/ InNested(t))
    BY <1>1, <1>2, <1>3, <1>4, <1>5 DEF Place
  <2>2. InStream(t) /\ Head(todo[t]) = "retainPool" => ((Away(t) /\ todo[t] = Stream3(GotStream)) \/ (Farther(t) /\ todo[t] = Stream3(Handle3))) /\ Built(target[t])
    BY AllHeads DEF InStream
  <2>3. InNested(t) /\ Head(todo[t]) = "retainPool" => ((Away(t) /\ todo[t] = Stream3(GotStream)) \/ (Farther(t) /\ todo[t] = Stream3(Handle3))) /\ Built(target[t])
    BY AllHeads DEF InNested
  <2> QED  BY <2>1, <2>2, <2>3
<1>20. At(t, "restore") => Ready /\ Restoring(t)
  <2>1. At(t, "restore") => Ready /\ (InCall(t) \/ InStream(t) \/ InNested(t) \/ InHandle(t))
    BY <1>1, <1>2, <1>3, <1>4, <1>5 DEF Place
  <2>2. InCall(t) /\ Head(todo[t]) = "restore" => Restoring(t)
    BY AllHeads DEF Restoring, InCall, Bodies
  <2>3. InStream(t) /\ Head(todo[t]) = "restore" => Restoring(t)
    BY AllHeads DEF Restoring, InStream
  <2>4. InNested(t) /\ Head(todo[t]) = "restore" => Restoring(t)
    BY AllHeads DEF Restoring, InNested
  <2>5. InHandle(t) /\ Head(todo[t]) = "restore" => Restoring(t)
    BY AllHeads DEF Restoring, InHandle
  <2> QED  BY <2>1, <2>2, <2>3, <2>4, <2>5
<1>21. At(t, "streamReady") => Ready /\ ((Home(t) /\ todo[t] = Stream5(GotStream)) \/ (Away(t) /\ todo[t] = Stream5(Handle3))) /\ Built(target[t]) /\ Retained(target[t])
  <2>1. At(t, "streamReady") => Ready /\ (InStream(t) \/ InNested(t))
    BY <1>1, <1>2, <1>3, <1>4, <1>5 DEF Place
  <2>2. InStream(t) /\ Head(todo[t]) = "streamReady" => ((Home(t) /\ todo[t] = Stream5(GotStream)) \/ (Away(t) /\ todo[t] = Stream5(Handle3))) /\ Built(target[t]) /\ Retained(target[t])
    BY AllHeads DEF InStream
  <2>3. InNested(t) /\ Head(todo[t]) = "streamReady" => ((Home(t) /\ todo[t] = Stream5(GotStream)) \/ (Away(t) /\ todo[t] = Stream5(Handle3))) /\ Built(target[t]) /\ Retained(target[t])
    BY AllHeads DEF InNested
  <2> QED  BY <2>1, <2>2, <2>3
<1>22. At(t, "createHandle") => Ready /\ Away(t) /\ todo[t] = Handle3 /\ StreamDone(target[t])
  <2>1. At(t, "createHandle") => Ready /\ (InHandle(t))
    BY <1>1, <1>2, <1>3, <1>4, <1>5 DEF Place
  <2>2. InHandle(t) /\ Head(todo[t]) = "createHandle" => Away(t) /\ todo[t] = Handle3 /\ StreamDone(target[t])
    BY AllHeads DEF InHandle
  <2> QED  BY <2>1, <2>2
<1>23. At(t, "handleReady") => Ready /\ Home(t) /\ todo[t] = Handle5 /\ Bound(target[t])
  <2>1. At(t, "handleReady") => Ready /\ (InHandle(t))
    BY <1>1, <1>2, <1>3, <1>4, <1>5 DEF Place
  <2>2. InHandle(t) /\ Head(todo[t]) = "handleReady" => Home(t) /\ todo[t] = Handle5 /\ Bound(target[t])
    BY AllHeads DEF InHandle
  <2> QED  BY <2>1, <2>2
<1> QED  BY <1>6, <1>7, <1>8, <1>9, <1>10, <1>11, <1>12, <1>13, <1>14, <1>15, <1>16, <1>17, <1>18, <1>19, <1>20, <1>21, <1>22, <1>23

-----------------------------------------------------------------------------
(* call_once flags and who runs their functions.                             *)

LEMMA FlagFacts ==
    /\ InitFlag \in OnceFlags
    /\ \A d \in Devices : /\ StreamFlag(d) \in OnceFlags /\ HandleFlag(d) \in OnceFlags
                          /\ StreamFlag(d) # InitFlag /\ HandleFlag(d) # InitFlag
    /\ \A d \in Devices, e \in Devices :
          /\ StreamFlag(d) # HandleFlag(e)
          /\ StreamFlag(d) = StreamFlag(e) => d = e
          /\ HandleFlag(d) = HandleFlag(e) => d = e
    /\ \A f \in OnceFlags : f = InitFlag \/ \E d \in Devices : f = StreamFlag(d) \/ f = HandleFlag(d)
BY DEF InitFlag, StreamFlag, HandleFlag, OnceFlags

(* What a thread has left after a step.                                      *)
LEMMA Advanced ==
    ASSUME Types, NEW t \in Threads, todo[t] # <<>>, Advance(t)
    PROVE  /\ todo'[t] = Tail(todo[t]) /\ todo' \in [Threads -> Seq(Names)]
           /\ target' \in [Threads -> Devices]
           /\ Tail(todo[t]) # <<>> => target'[t] = target[t]
           /\ \A u \in Threads : u # t => todo'[u] = todo[u] /\ target'[u] = target[u]
<1>1. todo \in [Threads -> Seq(Names)] /\ target \in [Threads -> Devices] /\ 0 \in Devices
  BY ContextAssumption DEF Types, Devices
<1>2. Tail(todo[t]) \in Seq(Names)
  BY <1>1, OwesTail
<1>3. /\ todo' = [todo EXCEPT ![t] = Tail(todo[t])]
      /\ target' = IF Tail(todo[t]) = <<>> THEN [target EXCEPT ![t] = 0] ELSE target
  BY DEF Advance
<1> QED  BY <1>1, <1>2, <1>3

LEMMA OthersRun ==
    ASSUME NEW u \in Threads, todo'[u] = todo[u], target'[u] = target[u], NEW f
    PROVE  Executes(u, f)' <=> Executes(u, f)
BY DEF Executes

LEMMA Keep ==
    ASSUME Owners, once' = once,
           \A t \in Threads, f \in OnceFlags : Executes(t, f)' <=> Executes(t, f)
    PROVE  Owners'
BY DEF Owners

LEMMA PlainRuns ==
    ASSUME Types, NEW t \in Threads, todo[t] # <<>>, Head(todo[t]) \notin Ends, Advance(t), NEW f
    PROVE  Executes(t, f)' <=> Executes(t, f)
<1>1. todo[t] \in Seq(Names)
  BY DEF Types
<1>2. \A e \in Ends : Owes(Tail(todo[t]), e) <=> Owes(todo[t], e)
  BY <1>1, OwesTail
<1>3. todo'[t] = Tail(todo[t])
  BY Advanced
<1>4. CASE Tail(todo[t]) = <<>>
  <2>1. \A e \in Ends : ~Owes(<<>>, e)
    BY OwesTable
  <2> QED  BY <1>2, <1>3, <1>4, <2>1 DEF Executes, Ends
<1>5. CASE Tail(todo[t]) # <<>>
  <2>1. target'[t] = target[t]
    BY <1>5, Advanced
  <2> QED  BY <1>2, <1>3, <2>1 DEF Executes, Ends
<1> QED  BY <1>4, <1>5

(* A step that neither begins nor ends a function.                           *)
LEMMA PlainOwners ==
    ASSUME Types, Owners, NEW t \in Threads, todo[t] # <<>>, Head(todo[t]) \notin Ends, Advance(t), once' = once
    PROVE  Owners'
<1>1. ASSUME NEW u \in Threads, NEW f \in OnceFlags PROVE Executes(u, f)' <=> Executes(u, f)
  <2>1. CASE u = t
    BY <2>1, PlainRuns
  <2>2. CASE u # t
    BY <2>2, Advanced, OthersRun
  <2> QED  BY <2>1, <2>2
<1> QED  BY <1>1, Keep

(* Thread t begins the function of f, or comes to its end.                   *)
LEMMA StartOwners ==
    ASSUME Types, Owners, NEW t \in Threads, NEW f \in OnceFlags, once[f] = "fresh",
           once' = [once EXCEPT ![f] = "running"], target' = target,
           \A u \in Threads : u # t => todo'[u] = todo[u],
           Executes(t, f)', \A g \in OnceFlags : g # f => (Executes(t, g)' <=> Executes(t, g))
    PROVE  Owners'
<1>1. /\ once \in [OnceFlags -> {"none", "fresh", "running", "done"}]
      /\ once'[f] = "running" /\ \A g \in OnceFlags : g # f => once'[g] = once[g]
  BY DEF Types
<1>2. \A u \in Threads, g \in OnceFlags : u # t => (Executes(u, g)' <=> Executes(u, g))
  BY OthersRun
<1>3. \A u \in Threads : ~Executes(u, f)
  BY DEF Owners
<1>4. \A u \in Threads, g \in OnceFlags : Executes(u, g)' <=> IF g = f THEN u = t ELSE Executes(u, g)
  BY <1>2, <1>3
<1>5. \A g \in OnceFlags, u \in Threads : Executes(u, g)' => once'[g] = "running"
  BY <1>1, <1>4 DEF Owners
<1>6. \A g \in OnceFlags : once'[g] = "running" => \E u \in Threads : Executes(u, g)'
  BY <1>1, <1>4 DEF Owners
<1>7. \A g \in OnceFlags, u \in Threads, v \in Threads : Executes(u, g)' /\ Executes(v, g)' => u = v
  BY <1>4 DEF Owners
<1> QED  BY <1>5, <1>6, <1>7 DEF Owners

LEMMA FinishOwners ==
    ASSUME Types, Owners, NEW t \in Threads, NEW f \in OnceFlags, Executes(t, f),
           once' = [once EXCEPT ![f] = "done"],
           \A u \in Threads : u # t => todo'[u] = todo[u] /\ target'[u] = target[u],
           ~Executes(t, f)', \A g \in OnceFlags : g # f => (Executes(t, g)' <=> Executes(t, g))
    PROVE  Owners'
<1>1. /\ once \in [OnceFlags -> {"none", "fresh", "running", "done"}]
      /\ once'[f] = "done" /\ \A g \in OnceFlags : g # f => once'[g] = once[g]
  BY DEF Types
<1>2. \A u \in Threads, g \in OnceFlags : u # t => (Executes(u, g)' <=> Executes(u, g))
  BY OthersRun
<1>3. \A u \in Threads : Executes(u, f) => u = t
  BY DEF Owners
<1>4. \A u \in Threads, g \in OnceFlags : Executes(u, g)' <=> g # f /\ Executes(u, g)
  BY <1>2, <1>3
<1>5. \A g \in OnceFlags, u \in Threads : Executes(u, g)' => once'[g] = "running"
  BY <1>1, <1>4 DEF Owners
<1>6. \A g \in OnceFlags : once'[g] = "running" => \E u \in Threads : Executes(u, g)'
  BY <1>1, <1>4 DEF Owners
<1>7. \A g \in OnceFlags, u \in Threads, v \in Threads : Executes(u, g)' /\ Executes(v, g)' => u = v
  BY <1>4 DEF Owners
<1> QED  BY <1>5, <1>6, <1>7 DEF Owners

-----------------------------------------------------------------------------
(* What a thread has come to holds whatever the others do.                   *)

Grows ==
    /\ Ready => Ready'
    /\ \A u \in Threads : (At(u, "capture") \/ At(u, "resize")) /\ todo'[u] = todo[u] =>
                           captured' = captured /\ (Ready' => Ready)
    /\ Sized => Sized'
    /\ \A d \in Devices :
         /\ StreamDone(d) => StreamDone(d)'
         /\ HandleDone(d) => HandleDone(d)'
         /\ Ready /\ Built(d) => Built(d)'
         /\ Ready /\ Bound(d) => Bound(d)'
         /\ Ready /\ Retained(d) => Retained(d)'

LEMMA OthersStay ==
    ASSUME Types, Grows, NEW u \in Threads, Place(u), todo'[u] = todo[u], target'[u] = target[u],
           device'[u] = device[u], saved'[u] = saved[u], chosen'[u] = chosen[u], created'[u] = created[u]
    PROVE  Place(u)'
<1>1. target[u] \in Devices
  BY DEF Types
<1>2. /\ Home(u)' <=> Home(u)
      /\ Away(u)' <=> Away(u)
      /\ Farther(u)' <=> Farther(u)
  BY DEF Home, Away, Farther
<1>3. (Ready => Ready') /\ (Sized => Sized')
  BY DEF Grows
<1>4. /\ StreamDone(target[u]) => StreamDone(target[u])'
      /\ HandleDone(target[u]) => HandleDone(target[u])'
      /\ Ready /\ Built(target[u]) => Built(target[u])'
      /\ Ready /\ Bound(target[u]) => Bound(target[u])'
      /\ Ready /\ Retained(target[u]) => Retained(target[u])'
  <2>1. SUFFICES ASSUME NEW d \in Devices, d = target[u]
        PROVE /\ StreamDone(d) => StreamDone(d)'
              /\ HandleDone(d) => HandleDone(d)'
              /\ Ready /\ Built(d) => Built(d)'
              /\ Ready /\ Bound(d) => Bound(d)'
              /\ Ready /\ Retained(d) => Retained(d)'
    BY <1>1 DEF StreamDone, HandleDone, Built, Bound, Retained
  <2> QED  BY DEF Grows
<1>5. ASSUME InInitialize(u) PROVE InInitialize(u)'
  <2>1. CASE todo[u] = Init1 \/ todo[u] = Init2
    <3>1. At(u, "capture") \/ At(u, "resize")
      BY <2>1, InitTails DEF At
    <3>2. captured' = captured /\ (Ready' => Ready)
      BY <3>1 DEF Grows
    <3> QED  BY <1>2, <1>3, <1>5, <3>2 DEF InInitialize
  <2>2. CASE ~(todo[u] = Init1 \/ todo[u] = Init2)
    BY <1>2, <1>3, <1>5, <2>2 DEF InInitialize
  <2> QED  BY <2>1, <2>2
<1>6. Ready /\ InCall(u) => InCall(u)'
  BY <1>2, <1>4 DEF InCall
<1>7. Ready /\ InStream(u) => InStream(u)'
  BY <1>2, <1>4 DEF InStream
<1>8. Ready /\ InNested(u) => InNested(u)'
  BY <1>2, <1>4 DEF InNested
<1>9. Ready /\ InHandle(u) => InHandle(u)'
  BY <1>2, <1>4 DEF InHandle
<1>10. Home(u) /\ todo[u] \in {<<>>, Called} => Home(u)' /\ todo'[u] \in {<<>>, Called}
  BY <1>2
<1> QED  BY <1>3, <1>5, <1>6, <1>7, <1>8, <1>9, <1>10 DEF Place

(* Thread t is the only one a step changes.                                  *)
Only(t) ==
    \A u \in Threads : u # t =>
        /\ todo'[u] = todo[u] /\ target'[u] = target[u] /\ device'[u] = device[u]
        /\ saved'[u] = saved[u] /\ chosen'[u] = chosen[u] /\ created'[u] = created[u]

LEMMA AllPlaces ==
    ASSUME IInv, Grows, NEW t \in Threads, Only(t), Place(t)'
    PROVE  \A u \in Threads : Place(u)'
<1>1. ASSUME NEW u \in Threads, u # t PROVE Place(u)'
  <2>1. Types /\ Place(u)
    BY DEF IInv
  <2>2. /\ todo'[u] = todo[u] /\ target'[u] = target[u] /\ device'[u] = device[u]
        /\ saved'[u] = saved[u] /\ chosen'[u] = chosen[u] /\ created'[u] = created[u]
    BY <1>1 DEF Only
  <2> QED  BY <2>1, <2>2, OthersStay
<1> QED  BY <1>1

LEMMA SameObjects ==
    ASSUME Objects, UNCHANGED <<captured, once, g_maca_streams, g_maca_blas_handles, threshold, given, modes>>
    PROVE  Objects' /\ Grows
<1>1. /\ Ready' <=> Ready
      /\ Sized' <=> Sized
      /\ \A d \in Devices : /\ StreamDone(d)' <=> StreamDone(d)
                            /\ HandleDone(d)' <=> HandleDone(d)
                            /\ Built(d)' <=> Built(d)
                            /\ Bound(d)' <=> Bound(d)
                            /\ Retained(d)' <=> Retained(d)
  BY DEF Ready, Sized, StreamDone, HandleDone, Built, Bound, Retained
<1>2. Grows
  BY <1>1 DEF Grows
<1>3. Objects'
  BY <1>1 DEF Objects
<1> QED  BY <1>2, <1>3

LEMMA IdleAtHome ==
    ASSUME NEW t \in Threads, Place(t), todo[t] = <<>>
    PROVE  Home(t)
<1>1. ~InInitialize(t)
  BY InitTails DEF InInitialize
<1>2. ~InCall(t)
  <2>1. <<>> \notin Bodies \cup {CreateRests, RestoreRests, GotCreated, Back, GotStream, GotHandle}
    BY Literals DEF Bodies
  <2> QED  BY <2>1 DEF InCall
<1>3. ~InStream(t) /\ ~InNested(t)
  <2>1. GotStream \in Seq(Names) /\ Handle3 \in Seq(Names)
    BY Literals, HandleTails
  <2>2. \A r \in {GotStream, Handle3} : <<>> \notin {Stream1(r), Stream2(r), Stream3(r), Stream4(r), Stream5(r)}
    BY <2>1, StreamTails
  <2> QED  BY <2>2 DEF InStream, InNested
<1>4. ~InHandle(t)
  BY HandleTails DEF InHandle
<1> QED  BY <1>1, <1>2, <1>3, <1>4 DEF Place

(* While a thread runs Initialize nothing has been built.                    *)
LEMMA Unready ==
    ASSUME IInv, NEW t \in Threads, todo[t] # <<>>,
           Head(todo[t]) \in {"capture", "resize", "makeFlags", "initialized"}
    PROVE  /\ Executes(t, InitFlag) /\ once[InitFlag] = "running"
           /\ Head(todo[t]) \in {"capture", "resize"} =>
                /\ ~Ready /\ ~given
                /\ \A d \in Devices : ~StreamDone(d) /\ ~HandleDone(d)
                /\ \A u \in Threads : u # t => ~At(u, "capture") /\ ~At(u, "resize")
<1>1. \A u \in Threads : At(u, "capture") \/ At(u, "resize") \/ At(u, "makeFlags") \/ At(u, "initialized")
                           => Executes(u, InitFlag)
  <2> SUFFICES ASSUME NEW u \in Threads, At(u, "capture") \/ At(u, "resize") \/ At(u, "makeFlags") \/ At(u, "initialized")
               PROVE  Executes(u, InitFlag)
    OBVIOUS
  <2>1. todo[u] \in {Init1, Init2, Init3, Init4}
    BY Heads DEF IInv
  <2>2. Owes(todo[u], "initialized")
    BY <2>1, OwesTable DEF Ends
  <2> QED  BY <2>2 DEF Executes
<1>2. Executes(t, InitFlag) /\ once[InitFlag] = "running"
  BY <1>1, FlagFacts DEF At, IInv, Owners
<1>3. ASSUME Head(todo[t]) \in {"capture", "resize"}
      PROVE  /\ ~Ready /\ ~given
             /\ \A d \in Devices : ~StreamDone(d) /\ ~HandleDone(d)
             /\ \A u \in Threads : u # t => ~At(u, "capture") /\ ~At(u, "resize")
  <2>1. ~Ready
    BY <1>3, Heads DEF IInv, At
  <2>2. ~given /\ \A d \in Devices : ~StreamDone(d) /\ ~HandleDone(d)
    BY <2>1, FlagFacts DEF IInv, Objects, StreamDone, HandleDone
  <2>3. \A u \in Threads : u # t => ~At(u, "capture") /\ ~At(u, "resize")
    BY <1>1, <1>2, FlagFacts DEF IInv, Owners
  <2> QED  BY <2>1, <2>2, <2>3
<1> QED  BY <1>2, <1>3

-----------------------------------------------------------------------------
(* Calls.                                                                    *)

LEMMA BeginKeeps ==
    ASSUME IInv, NEW t \in Threads, NEW body \in Bodies, Begin(t, body)
    PROVE  IInv'
<1>1. Types /\ Objects /\ Owners /\ Place(t)
  BY DEF IInv
<1>2. /\ todo[t] = <<>> /\ todo' = [todo EXCEPT ![t] = body]
      /\ UNCHANGED <<FLAGS, captured, once, g_maca_streams, g_maca_blas_handles, threshold, created,
                     device, saved, chosen, given, modes>>
  BY DEF Begin, objects, history
<1>3. PICK d \in Devices : Known(d) /\ target' = [target EXCEPT ![t] = d]
  BY DEF Begin
<1>4. body \in Seq(Names)
  BY BodiesFacts
<1>5. Types'
  BY <1>1, <1>2, <1>3, <1>4 DEF Types
<1>6. Only(t) /\ todo'[t] = body
  BY <1>1, <1>2, <1>3 DEF Types, Only
<1>7. Objects' /\ Grows
  BY <1>1, <1>2, SameObjects
<1>8. Owners'
  <2>1. \A e \in Ends : ~Owes(todo[t], e) /\ ~Owes(todo'[t], e)
    BY <1>2, <1>6, OwesTable
  <2>2. \A f \in OnceFlags : ~Executes(t, f) /\ ~Executes(t, f)'
    BY <2>1 DEF Executes, Ends
  <2>3. \A u \in Threads, f \in OnceFlags : u # t => (Executes(u, f)' <=> Executes(u, f))
    BY <1>6, OthersRun DEF Only
  <2> QED  BY <1>1, <1>2, <2>2, <2>3, Keep
<1>9. Place(t)'
  <2>1. Home(t)
    BY <1>1, <1>2, IdleAtHome
  <2>2. Home(t)'
    BY <1>2, <2>1 DEF Home
  <2> QED  BY <1>3, <1>6, <1>7, <2>2 DEF Place, InCall, Known, Ready, Grows
<1>10. \A u \in Threads : Place(u)'
  BY <1>6, <1>7, <1>9, AllPlaces
<1> QED  BY <1>5, <1>7, <1>8, <1>10 DEF IInv

LEMMA InitializeKeeps ==
    ASSUME IInv, NEW t \in Threads, Initialize(t)
    PROVE  IInv'
<1>1. Types /\ Objects /\ Owners /\ Place(t)
  BY DEF IInv
<1>2. /\ todo[t] = <<>> /\ todo' = [todo EXCEPT ![t] = Called]
      /\ UNCHANGED <<FLAGS, captured, once, g_maca_streams, g_maca_blas_handles, threshold, created,
                     device, target, saved, chosen, given, modes>>
  BY DEF Initialize, Called, objects, history
<1>3. Types'
  BY <1>1, <1>2, Literals DEF Types
<1>4. Only(t) /\ todo'[t] = Called
  BY <1>1, <1>2 DEF Types, Only
<1>5. Objects' /\ Grows
  BY <1>1, <1>2, SameObjects
<1>6. Owners'
  <2>1. \A e \in Ends : ~Owes(todo[t], e) /\ ~Owes(todo'[t], e)
    BY <1>2, <1>4, OwesTable
  <2>2. \A f \in OnceFlags : ~Executes(t, f) /\ ~Executes(t, f)'
    BY <2>1 DEF Executes, Ends
  <2>3. \A u \in Threads, f \in OnceFlags : u # t => (Executes(u, f)' <=> Executes(u, f))
    BY <1>4, OthersRun DEF Only
  <2> QED  BY <1>1, <1>2, <2>2, <2>3, Keep
<1>7. Place(t)'
  <2>1. Home(t)
    BY <1>1, <1>2, IdleAtHome
  <2> QED  BY <1>2, <1>4, <2>1 DEF Home, Place
<1>8. \A u \in Threads : Place(u)'
  BY <1>4, <1>5, <1>7, AllPlaces
<1> QED  BY <1>3, <1>5, <1>6, <1>8 DEF IInv

LEMMA SetDeviceKeeps ==
    ASSUME IInv, NEW t \in Threads, SetDevice(t)
    PROVE  IInv'
<1>1. Types /\ Objects /\ Owners /\ Place(t)
  BY DEF IInv
<1>2. /\ todo[t] = <<>>
      /\ UNCHANGED <<FLAGS, captured, once, g_maca_streams, g_maca_blas_handles, threshold, created,
                     todo, target, saved, given, modes>>
  BY DEF SetDevice, objects
<1>3. PICK d \in Devices : device' = [device EXCEPT ![t] = d] /\ chosen' = [chosen EXCEPT ![t] = d]
  BY DEF SetDevice
<1>4. Types'
  BY <1>1, <1>2, <1>3 DEF Types
<1>5. Only(t) /\ device'[t] = chosen'[t]
  BY <1>1, <1>2, <1>3 DEF Types, Only
<1>6. Objects' /\ Grows
  BY <1>1, <1>2, SameObjects
<1>7. Owners'
  <2>1. \A u \in Threads, f \in OnceFlags : Executes(u, f)' <=> Executes(u, f)
    BY <1>2, OthersRun
  <2> QED  BY <1>1, <1>2, <2>1, Keep
<1>8. Place(t)'
  <2>1. Home(t)
    BY <1>1, <1>2, IdleAtHome
  <2>2. Home(t)' /\ todo'[t] = <<>>
    BY <1>2, <1>5, <2>1 DEF Home
  <2> QED  BY <2>2 DEF Place
<1>9. \A u \in Threads : Place(u)'
  BY <1>5, <1>6, <1>8, AllPlaces
<1> QED  BY <1>4, <1>6, <1>7, <1>9 DEF IInv

LEMMA AssignFlagsKeeps ==
    ASSUME IInv, AssignFlags
    PROVE  IInv'
<1>1. Types /\ Objects /\ Owners /\ \A t \in Threads : Place(t)
  BY DEF IInv
<1>2. /\ FLAGS' \in Flags
      /\ UNCHANGED <<captured, once, g_maca_streams, g_maca_blas_handles, threshold, created,
                     device, todo, target, saved, chosen, given, modes>>
  BY DEF AssignFlags, objects, history
<1>3. Types'
  BY <1>1, <1>2 DEF Types
<1>4. Objects' /\ Grows
  BY <1>1, <1>2, SameObjects
<1>5. Owners'
  <2>1. \A u \in Threads, f \in OnceFlags : Executes(u, f)' <=> Executes(u, f)
    BY <1>2, OthersRun
  <2> QED  BY <1>1, <1>2, <2>1, Keep
<1>6. \A u \in Threads : Place(u)'
  BY <1>1, <1>2, <1>4, OthersStay
<1> QED  BY <1>3, <1>4, <1>5, <1>6 DEF IInv

LEMMA StutterKeeps ==
    ASSUME IInv, UNCHANGED state
    PROVE  IInv'
<1>1. Types /\ Objects /\ Owners /\ \A t \in Threads : Place(t)
  BY DEF IInv
<1>2. UNCHANGED <<FLAGS, captured, once, g_maca_streams, g_maca_blas_handles, threshold, created,
                  device, todo, target, saved, chosen, given, modes>>
  BY DEF state
<1>3. Types'
  BY <1>1, <1>2 DEF Types
<1>4. Objects' /\ Grows
  BY <1>1, <1>2, SameObjects
<1>5. Owners'
  <2>1. \A u \in Threads, f \in OnceFlags : Executes(u, f)' <=> Executes(u, f)
    BY <1>2, OthersRun
  <2> QED  BY <1>1, <1>2, <2>1, Keep
<1>6. \A u \in Threads : Place(u)'
  BY <1>1, <1>2, <1>4, OthersStay
<1> QED  BY <1>3, <1>4, <1>5, <1>6 DEF IInv

-----------------------------------------------------------------------------
(* call_once: the function begins, or is done.                               *)

(* A flag begins to run: what is done stays done, nothing more is.           *)
LEMMA BeginsToRun ==
    ASSUME IInv, NEW f \in OnceFlags, once[f] = "fresh", f # InitFlag => Ready,
           once' = [once EXCEPT ![f] = "running"],
           UNCHANGED <<captured, g_maca_streams, g_maca_blas_handles, threshold, given, modes>>
    PROVE  Objects' /\ Grows
<1>1. Objects /\ once \in [OnceFlags -> {"none", "fresh", "running", "done"}]
  BY DEF IInv, Types
<1>2. \A g \in OnceFlags : once'[g] = IF g = f THEN "running" ELSE once[g]
  BY <1>1
<1>3. /\ Ready' <=> Ready
      /\ Sized' <=> Sized
      /\ \A d \in Devices : /\ StreamDone(d)' <=> StreamDone(d)
                            /\ HandleDone(d)' <=> HandleDone(d)
                            /\ Built(d)' <=> Built(d)
                            /\ Bound(d)' <=> Bound(d)
                            /\ Retained(d)' <=> Retained(d)
  BY <1>2, FlagFacts DEF Ready, Sized, StreamDone, HandleDone, Built, Bound, Retained
<1>4. Grows
  BY <1>3 DEF Grows
<1>5. /\ \A g \in OnceFlags : g # InitFlag /\ once'[g] \notin {"none", "fresh"} => Ready
      /\ once'[InitFlag] = "fresh" => once[InitFlag] = "fresh"
  BY <1>1, <1>2, FlagFacts DEF Objects
<1>6. Objects'
  BY <1>1, <1>3, <1>5 DEF Objects
<1> QED  BY <1>4, <1>6

LEMMA OnceInitializeKeeps ==
    ASSUME IInv, NEW t \in Threads, OnceInitialize(t)
    PROVE  IInv'
<1>1. Types /\ Objects /\ Owners /\ Place(t)
  BY DEF IInv
<1>2. /\ At(t, "onceInitialize") /\ todo[t] # <<>> /\ Head(todo[t]) = "onceInitialize"
      /\ UNCHANGED <<FLAGS, captured, g_maca_streams, g_maca_blas_handles, threshold, created,
                     device, saved, chosen, given, modes>>
  BY DEF OnceInitialize, CallOnce, objects, history, At
<1>3. Home(t) /\ todo[t] = Called
  BY <1>1, <1>2, Heads
<1>4. Tail(todo[t]) = <<>> /\ \A e \in Ends : ~Owes(todo[t], e)
  BY <1>3, Literals, OwesTable
<1>5. Home(t)'
  BY <1>2, <1>3 DEF Home
<1>6. CASE once[InitFlag] = "fresh" /\ once' = [once EXCEPT ![InitFlag] = "running"]
           /\ todo' = [todo EXCEPT ![t] = InitializeBody \o Tail(@)] /\ target' = target
  <2>1. Init1 \in Seq(Names) /\ Init1 \o <<>> = Init1
    BY InitTails, ConcatEmptySeq
  <2>2. todo' = [todo EXCEPT ![t] = Init1]
    BY <1>4, <1>6, <2>1 DEF Init1
  <2>3. Types'
    <3>1. once \in [OnceFlags -> {"none", "fresh", "running", "done"}] /\ InitFlag \in OnceFlags
      BY <1>1, FlagFacts DEF Types
    <3>2. once' \in [OnceFlags -> {"none", "fresh", "running", "done"}]
      BY <1>6, <3>1
    <3>3. todo' \in [Threads -> Seq(Names)]
      BY <1>1, <2>1, <2>2 DEF Types
    <3> QED  BY <1>1, <1>2, <1>6, <3>2, <3>3 DEF Types
  <2>4. Only(t) /\ todo'[t] = Init1
    BY <1>1, <1>2, <1>6, <2>2 DEF Types, Only
  <2>5. Objects' /\ Grows
    BY <1>2, <1>6, BeginsToRun, FlagFacts
  <2>6. Owners'
    <3>1. \A e \in Ends : Owes(todo'[t], e) <=> e = "initialized"
      BY <2>4, OwesTable
    <3>2. Executes(t, InitFlag)' /\ \A g \in OnceFlags : g # InitFlag => ~Executes(t, g)'
      BY <3>1 DEF Executes, Ends
    <3>3. \A g \in OnceFlags : ~Executes(t, g)
      BY <1>4 DEF Executes, Ends
    <3>4. \A u \in Threads : u # t => todo'[u] = todo[u]
      BY <2>4 DEF Only
    <3> QED  BY <1>1, <1>6, <3>2, <3>3, <3>4, StartOwners, FlagFacts
  <2>7. Place(t)'
    <3>1. captured.workarounds = FALSE /\ ~Ready
      BY <1>1, <1>6 DEF Objects
    <3>2. InInitialize(t)'
      BY <1>2, <1>5, <2>4, <3>1 DEF InInitialize, Ready
    <3> QED  BY <3>2 DEF Place
  <2>8. \A u \in Threads : Place(u)'
    BY <2>4, <2>5, <2>7, AllPlaces
  <2> QED  BY <2>3, <2>5, <2>6, <2>8 DEF IInv
<1>7. CASE once[InitFlag] = "done" /\ Advance(t) /\ once' = once
  <2>1. /\ todo'[t] = <<>> /\ todo' \in [Threads -> Seq(Names)] /\ target' \in [Threads -> Devices]
        /\ \A u \in Threads : u # t => todo'[u] = todo[u] /\ target'[u] = target[u]
    BY <1>1, <1>2, <1>4, <1>7, Advanced
  <2>2. Types'
    BY <1>1, <1>2, <1>7, <2>1 DEF Types
  <2>3. Only(t)
    BY <1>2, <2>1 DEF Only
  <2>4. Objects' /\ Grows
    BY <1>1, <1>2, <1>7, SameObjects
  <2>5. Owners'
    BY <1>1, <1>2, <1>7, PlainOwners DEF Ends
  <2>6. Place(t)'
    BY <1>5, <2>1 DEF Place
  <2>7. \A u \in Threads : Place(u)'
    BY <2>3, <2>4, <2>6, AllPlaces
  <2> QED  BY <2>2, <2>4, <2>5, <2>7 DEF IInv
<1> QED  BY <1>6, <1>7 DEF OnceInitialize, CallOnce, Runs, Enters

LEMMA OnceStreamKeeps ==
    ASSUME IInv, NEW t \in Threads, OnceStream(t)
    PROVE  IInv'
<1>1. Types /\ Objects /\ Owners /\ Place(t)
  BY DEF IInv
<1>2. /\ At(t, "onceStream") /\ todo[t] # <<>> /\ Head(todo[t]) = "onceStream"
      /\ UNCHANGED <<FLAGS, captured, g_maca_streams, g_maca_blas_handles, threshold, created,
                     device, saved, chosen, given, modes>>
  BY DEF OnceStream, CallOnce, objects, history, At
<1>3. Ready /\ ((Home(t) /\ todo[t] = GetStreamBody) \/ (Away(t) /\ todo[t] = Handle2))
  BY <1>1, <1>2, Heads
<1>4. PICK d \in Devices : d = target[t]
  BY <1>1 DEF Types
<1>5. PICK r \in {GotStream, Handle3} : /\ r = Tail(todo[t])
                                        /\ (Home(t) /\ r = GotStream) \/ (Away(t) /\ r = Handle3)
  <2>1. /\ todo[t] = GetStreamBody => Tail(todo[t]) = GotStream
        /\ todo[t] = Handle2 => Tail(todo[t]) = Handle3
    BY Literals, HandleTails
  <2> QED  BY <1>3, <2>1
<1>6. /\ r \in Seq(Names) /\ r # <<>>
      /\ \A e \in Ends : Owes(todo[t], e) <=> Owes(r, e)
      /\ ~Owes(r, "streamReady") /\ ~Owes(r, "initialized")
  <2>1. r \in Seq(Names) /\ r # <<>>
    BY Literals, HandleTails
  <2>2. ~Owes(r, "streamReady") /\ ~Owes(r, "initialized")
    BY OwesTable DEF Ends
  <2>3. \A e \in Ends : Owes(todo[t], e) <=> Owes(r, e)
    <3>1. todo[t] \in Seq(Names)
      BY <1>1 DEF Types
    <3>2. \A e \in Ends : Head(todo[t]) # e
      BY <1>2 DEF Ends
    <3> QED  BY <1>2, <1>5, <3>1, <3>2, OwesTail
  <2> QED  BY <2>1, <2>2, <2>3
<1>7. CASE once[StreamFlag(target[t])] = "fresh" /\ once' = [once EXCEPT ![StreamFlag(target[t])] = "running"]
           /\ todo' = [todo EXCEPT ![t] = InitSingleStreamBody \o Tail(@)] /\ target' = target
  <2>1. Stream1(r) \in Seq(Names)
    BY <1>6, StreamTails
  <2>2. todo' = [todo EXCEPT ![t] = Stream1(r)] /\ once' = [once EXCEPT ![StreamFlag(d)] = "running"]
    <3>1. Stream1(r) = InitSingleStreamBody \o Tail(todo[t])
      BY <1>5 DEF Stream1
    <3>2. todo' = [todo EXCEPT ![t] = Stream1(r)]
      BY <1>7, <3>1
    <3>3. once' = [once EXCEPT ![StreamFlag(d)] = "running"]
      BY <1>4, <1>7
    <3> QED  BY <3>2, <3>3
  <2>3. Types'
    <3>1. once \in [OnceFlags -> {"none", "fresh", "running", "done"}] /\ StreamFlag(d) \in OnceFlags
      BY <1>1, FlagFacts DEF Types
    <3>2. once' \in [OnceFlags -> {"none", "fresh", "running", "done"}]
      BY <1>7, <2>2, <3>1
    <3>3. todo \in [Threads -> Seq(Names)]
      BY <1>1 DEF Types
    <3>4. todo' \in [Threads -> Seq(Names)]
      BY <2>1, <2>2, <3>3
    <3> QED  BY <1>1, <1>2, <1>7, <3>2, <3>4 DEF Types
  <2>4. Only(t) /\ todo'[t] = Stream1(r) /\ target'[t] = d
    BY <1>1, <1>2, <1>4, <1>7, <2>2 DEF Types, Only
  <2>5. Objects' /\ Grows
    BY <1>2, <1>3, <1>4, <1>7, <2>2, BeginsToRun, FlagFacts
  <2>6. Owners'
    <3>1. \A e \in Ends : Owes(todo'[t], e) <=> e = "streamReady" \/ Owes(todo[t], e)
      BY <1>6, <2>4, OwesTable
    <3>2. Executes(t, StreamFlag(d))'
      BY <2>4, <3>1 DEF Executes, Ends
    <3>3. \A g \in OnceFlags : g # StreamFlag(d) => (Executes(t, g)' <=> Executes(t, g))
      BY <1>4, <2>4, <3>1 DEF Executes, Ends
    <3>4. \A u \in Threads : u # t => todo'[u] = todo[u]
      BY <2>4 DEF Only
    <3> QED  BY <1>1, <1>4, <1>7, <2>2, <3>2, <3>3, <3>4, StartOwners, FlagFacts
  <2>7. Place(t)'
    <3>1. /\ Home(t)' <=> Home(t)
          /\ Away(t)' <=> Away(t)
          /\ Ready'
      BY <1>2, <1>3, <1>4, <2>4, <2>5 DEF Home, Away, Grows
    <3>2. (InStream(t) \/ InNested(t))'
      BY <1>5, <2>4, <3>1 DEF InStream, InNested
    <3> QED  BY <3>1, <3>2 DEF Place
  <2>8. \A u \in Threads : Place(u)'
    BY <2>4, <2>5, <2>7, AllPlaces
  <2> QED  BY <2>3, <2>5, <2>6, <2>8 DEF IInv
<1>8. CASE once[StreamFlag(target[t])] = "done" /\ Advance(t) /\ once' = once
  <2>1. /\ todo'[t] = r /\ todo' \in [Threads -> Seq(Names)] /\ target' \in [Threads -> Devices] /\ target'[t] = d
        /\ \A u \in Threads : u # t => todo'[u] = todo[u] /\ target'[u] = target[u]
    <3>1. /\ todo'[t] = Tail(todo[t]) /\ todo' \in [Threads -> Seq(Names)]
          /\ target' \in [Threads -> Devices]
          /\ Tail(todo[t]) # <<>> => target'[t] = target[t]
          /\ \A u \in Threads : u # t => todo'[u] = todo[u] /\ target'[u] = target[u]
      BY <1>1, <1>2, <1>8, Advanced
    <3>2. Tail(todo[t]) # <<>>
      BY <1>5, <1>6
    <3> QED  BY <1>4, <1>5, <3>1, <3>2
  <2>2. Types'
    BY <1>1, <1>2, <1>8, <2>1 DEF Types
  <2>3. Only(t)
    BY <1>2, <2>1 DEF Only
  <2>4. Objects' /\ Grows
    BY <1>1, <1>2, <1>8, SameObjects
  <2>5. Owners'
    BY <1>1, <1>2, <1>8, PlainOwners DEF Ends
  <2>6. Place(t)'
    <3>1. /\ Home(t)' <=> Home(t)
          /\ Away(t)' <=> Away(t)
          /\ Ready' /\ StreamDone(target[t])'
      BY <1>2, <1>3, <1>4, <1>8, <2>1 DEF Home, Away, Ready, StreamDone
    <3>2. (InCall(t) \/ InHandle(t))'
      BY <1>5, <2>1, <3>1 DEF InCall, InHandle
    <3> QED  BY <3>1, <3>2 DEF Place
  <2>7. \A u \in Threads : Place(u)'
    BY <2>3, <2>4, <2>6, AllPlaces
  <2> QED  BY <2>2, <2>4, <2>5, <2>7 DEF IInv
<1> QED  BY <1>7, <1>8 DEF OnceStream, CallOnce, Runs, Enters

LEMMA OnceHandleKeeps ==
    ASSUME IInv, NEW t \in Threads, OnceHandle(t)
    PROVE  IInv'
<1>1. Types /\ Objects /\ Owners /\ Place(t)
  BY DEF IInv
<1>2. /\ At(t, "onceHandle") /\ todo[t] # <<>> /\ Head(todo[t]) = "onceHandle"
      /\ UNCHANGED <<FLAGS, captured, g_maca_streams, g_maca_blas_handles, threshold, created,
                     device, saved, chosen, given, modes>>
  BY DEF OnceHandle, CallOnce, objects, history, At
<1>3. Ready /\ Home(t) /\ todo[t] = GetBlasHandleBody /\ Tail(todo[t]) = GotHandle
  BY <1>1, <1>2, Heads, Literals
<1>4. PICK d \in Devices : d = target[t]
  BY <1>1 DEF Types
<1>5. GotHandle # <<>> /\ \A e \in Ends : ~Owes(todo[t], e)
  <2>1. todo[t] \in Bodies
    BY <1>3 DEF Bodies
  <2>2. \A e \in Ends : ~Owes(todo[t], e)
    BY <2>1, OwesTable
  <2> QED  BY <2>2, Literals
<1>6. CASE once[HandleFlag(target[t])] = "fresh" /\ once' = [once EXCEPT ![HandleFlag(target[t])] = "running"]
           /\ todo' = [todo EXCEPT ![t] = InitSingleHandleBody \o Tail(@)] /\ target' = target
  <2>1. Handle1 \in Seq(Names)
    BY HandleTails
  <2>2. todo' = [todo EXCEPT ![t] = Handle1] /\ once' = [once EXCEPT ![HandleFlag(d)] = "running"]
    BY <1>3, <1>4, <1>6 DEF Handle1
  <2>3. Types'
    <3>1. once \in [OnceFlags -> {"none", "fresh", "running", "done"}] /\ HandleFlag(d) \in OnceFlags
      BY <1>1, FlagFacts DEF Types
    <3>2. once' \in [OnceFlags -> {"none", "fresh", "running", "done"}]
      BY <1>6, <2>2, <3>1
    <3>3. todo \in [Threads -> Seq(Names)]
      BY <1>1 DEF Types
    <3>4. todo' \in [Threads -> Seq(Names)]
      BY <2>1, <2>2, <3>3
    <3> QED  BY <1>1, <1>2, <1>6, <3>2, <3>4 DEF Types
  <2>4. Only(t) /\ todo'[t] = Handle1 /\ target'[t] = d
    BY <1>1, <1>2, <1>4, <1>6, <2>2 DEF Types, Only
  <2>5. Objects' /\ Grows
    BY <1>2, <1>3, <1>4, <1>6, <2>2, BeginsToRun, FlagFacts
  <2>6. Owners'
    <3>1. \A e \in Ends : Owes(todo'[t], e) <=> e = "handleReady"
      BY <2>4, OwesTable
    <3>2. Executes(t, HandleFlag(d))' /\ \A g \in OnceFlags : g # HandleFlag(d) => ~Executes(t, g)'
      BY <2>4, <3>1 DEF Executes, Ends
    <3>3. \A g \in OnceFlags : ~Executes(t, g)
      BY <1>5 DEF Executes, Ends
    <3>4. \A u \in Threads : u # t => todo'[u] = todo[u]
      BY <2>4 DEF Only
    <3> QED  BY <1>1, <1>4, <1>6, <2>2, <3>2, <3>3, <3>4, StartOwners, FlagFacts
  <2>7. Place(t)'
    <3>1. Home(t)' /\ Ready'
      BY <1>2, <1>3, <2>5 DEF Home, Grows
    <3>2. InHandle(t)'
      BY <2>4, <3>1 DEF InHandle
    <3> QED  BY <3>1, <3>2 DEF Place
  <2>8. \A u \in Threads : Place(u)'
    BY <2>4, <2>5, <2>7, AllPlaces
  <2> QED  BY <2>3, <2>5, <2>6, <2>8 DEF IInv
<1>7. CASE once[HandleFlag(target[t])] = "done" /\ Advance(t) /\ once' = once
  <2>1. /\ todo'[t] = GotHandle /\ todo' \in [Threads -> Seq(Names)] /\ target' \in [Threads -> Devices] /\ target'[t] = d
        /\ \A u \in Threads : u # t => todo'[u] = todo[u] /\ target'[u] = target[u]
    BY <1>1, <1>2, <1>3, <1>4, <1>5, <1>7, Advanced
  <2>2. Types'
    BY <1>1, <1>2, <1>7, <2>1 DEF Types
  <2>3. Only(t)
    BY <1>2, <2>1 DEF Only
  <2>4. Objects' /\ Grows
    BY <1>1, <1>2, <1>7, SameObjects
  <2>5. Owners'
    BY <1>1, <1>2, <1>7, PlainOwners DEF Ends
  <2>6. Place(t)'
    <3>1. Home(t)' /\ Ready' /\ HandleDone(target[t])'
      BY <1>2, <1>3, <1>4, <1>7, <2>1 DEF Home, Ready, HandleDone
    <3>2. InCall(t)'
      BY <2>1, <3>1 DEF InCall
    <3> QED  BY <3>1, <3>2 DEF Place
  <2>7. \A u \in Threads : Place(u)'
    BY <2>3, <2>4, <2>6, AllPlaces
  <2> QED  BY <2>2, <2>4, <2>5, <2>7 DEF IInv
<1> QED  BY <1>6, <1>7 DEF OnceHandle, CallOnce, Runs, Enters

-----------------------------------------------------------------------------
(* call_once: the function has ended.                                        *)

(* A step that ends the function of f.                                       *)
Ending(t, f) ==
    \/ Head(todo[t]) = "initialized" /\ f = InitFlag
    \/ Head(todo[t]) = "streamReady" /\ f = StreamFlag(target[t])
    \/ Head(todo[t]) = "handleReady" /\ f = HandleFlag(target[t])

LEMMA Ended ==
    ASSUME IInv, NEW t \in Threads, NEW f \in OnceFlags, Ending(t, f),
           todo[t] # <<>>, ~Owes(Tail(todo[t]), Head(todo[t])),
           Executes(t, f), Advance(t), once' = [once EXCEPT ![f] = "done"],
           UNCHANGED <<FLAGS, captured, g_maca_streams, g_maca_blas_handles, threshold, created,
                       device, saved, chosen, given, modes>>
    PROVE  /\ Types' /\ Owners' /\ Only(t)
           /\ todo'[t] = Tail(todo[t])
           /\ Tail(todo[t]) # <<>> => target'[t] = target[t]
           /\ \A g \in OnceFlags : once'[g] = IF g = f THEN "done" ELSE once[g]
<1> DEFINE r == Tail(todo[t])
           step == Head(todo[t])
<1>0. step \in Ends
  BY DEF Ending, Ends
<1> HIDE DEF r, step
<1>1. Types /\ Owners
  BY DEF IInv
<1>2. /\ todo'[t] = r /\ todo' \in [Threads -> Seq(Names)] /\ target' \in [Threads -> Devices]
      /\ r # <<>> => target'[t] = target[t]
      /\ \A u \in Threads : u # t => todo'[u] = todo[u] /\ target'[u] = target[u]
  BY <1>1, Advanced DEF r
<1>3. /\ once \in [OnceFlags -> {"none", "fresh", "running", "done"}]
      /\ once' \in [OnceFlags -> {"none", "fresh", "running", "done"}]
      /\ \A g \in OnceFlags : once'[g] = IF g = f THEN "done" ELSE once[g]
  BY <1>1 DEF Types
<1>4. Types'
  BY <1>1, <1>2, <1>3 DEF Types
<1>5. Only(t)
  BY <1>2 DEF Only
<1>6. todo[t] \in Seq(Names) /\ target[t] \in Devices
  BY <1>1 DEF Types
<1>7. \A e \in Ends : Owes(r, e) <=> e # step /\ Owes(todo[t], e)
  BY <1>0, <1>6, OwesTail DEF r, step
<1>8. ~Executes(t, f)' /\ \A g \in OnceFlags : g # f => (Executes(t, g)' <=> Executes(t, g))
  <2>0. CASE r = <<>>
    <3>1. \A e \in Ends : ~Owes(r, e)
      BY <2>0, OwesTable
    <3>2. \A g \in OnceFlags : ~Executes(t, g)'
      BY <1>2, <3>1 DEF Executes, Ends
    <3>3. \A e \in Ends : Owes(todo[t], e) => e = step
      BY <1>7, <3>1
    <3>4. \A g \in OnceFlags : g # f => ~Executes(t, g)
      BY <3>3 DEF Executes, Ending, Ends, step
    <3> QED  BY <3>2, <3>4
  <2>1. CASE r # <<>> /\ step = "initialized" /\ f = InitFlag
    BY <1>2, <1>6, <1>7, <2>1, FlagFacts DEF Executes, Ends
  <2>2. CASE r # <<>> /\ step = "streamReady" /\ f = StreamFlag(target[t])
    BY <1>2, <1>6, <1>7, <2>2, FlagFacts DEF Executes, Ends
  <2>3. CASE r # <<>> /\ step = "handleReady" /\ f = HandleFlag(target[t])
    BY <1>2, <1>6, <1>7, <2>3, FlagFacts DEF Executes, Ends
  <2> QED  BY <2>0, <2>1, <2>2, <2>3 DEF Ending, step
<1>9. Owners'
  BY <1>1, <1>2, <1>8, FinishOwners
<1> QED  BY <1>2, <1>3, <1>4, <1>5, <1>9 DEF r

LEMMA InitializedKeeps ==
    ASSUME IInv, NEW t \in Threads, Initialized(t)
    PROVE  IInv'
<1>1. Types /\ Objects /\ Owners /\ Place(t)
  BY DEF IInv
<1>2. /\ todo[t] # <<>> /\ Head(todo[t]) = "initialized" /\ At(t, "initialized") /\ Advance(t)
      /\ once' = [once EXCEPT ![InitFlag] = "done"]
      /\ UNCHANGED <<FLAGS, captured, g_maca_streams, g_maca_blas_handles, threshold, created,
                     device, saved, chosen, given, modes>>
  BY DEF Initialized, Done, objects, history, At
<1>3. Home(t) /\ todo[t] = Init4
  BY <1>1, <1>2, Heads
<1>4. Tail(todo[t]) = <<>> /\ ~Owes(<<>>, "initialized")
  BY <1>3, InitTails, OwesTable DEF Ends
<1>5. Executes(t, InitFlag)
  BY <1>1, <1>2, Unready
<1>6. /\ Types' /\ Owners' /\ Only(t) /\ todo'[t] = <<>>
      /\ \A g \in OnceFlags : once'[g] = IF g = InitFlag THEN "done" ELSE once[g]
  BY <1>2, <1>4, <1>5, Ended, FlagFacts DEF Ending
<1>7. /\ Ready' <=> Ready
      /\ Sized' <=> Sized
      /\ \A d \in Devices : /\ StreamDone(d)' <=> StreamDone(d)
                            /\ HandleDone(d)' <=> HandleDone(d)
                            /\ Built(d)' <=> Built(d)
                            /\ Bound(d)' <=> Bound(d)
                            /\ Retained(d)' <=> Retained(d)
  BY <1>2, <1>6, FlagFacts DEF Ready, Sized, StreamDone, HandleDone, Built, Bound, Retained
<1>8. Grows
  BY <1>2, <1>7 DEF Grows
<1>9. Objects'
  <2>1. /\ \A g \in OnceFlags : g # InitFlag /\ once'[g] \notin {"none", "fresh"} => Ready'
        /\ once'[InitFlag] # "fresh"
    BY <1>1, <1>6, <1>7, FlagFacts DEF Objects
  <2>9. \A c \in Devices : once'[StreamFlag(c)] = "none" => once'[HandleFlag(c)] = "none"
    BY <1>1, <1>6, FlagFacts DEF Objects
  <2> QED  BY <1>1, <1>2, <1>7, <2>1, <2>9 DEF Objects
<1>10. Place(t)'
  BY <1>2, <1>3, <1>6 DEF Place, Home
<1>11. \A u \in Threads : Place(u)'
  BY <1>6, <1>8, <1>10, AllPlaces
<1> QED  BY <1>6, <1>9, <1>11 DEF IInv

LEMMA StreamReadyKeeps ==
    ASSUME IInv, NEW t \in Threads, StreamReady(t)
    PROVE  IInv'
<1>1. Types /\ Objects /\ Owners /\ Place(t)
  BY DEF IInv
<1>2. PICK d \in Devices : d = target[t]
  BY <1>1 DEF Types
<1>3. /\ todo[t] # <<>> /\ Head(todo[t]) = "streamReady" /\ At(t, "streamReady") /\ Advance(t)
      /\ once' = [once EXCEPT ![StreamFlag(target[t])] = "done"]
      /\ UNCHANGED <<FLAGS, captured, g_maca_streams, g_maca_blas_handles, threshold, created,
                     device, saved, chosen, given, modes>>
  BY DEF StreamReady, Done, objects, history, At
<1>4. /\ Ready /\ ((Home(t) /\ todo[t] = Stream5(GotStream)) \/ (Away(t) /\ todo[t] = Stream5(Handle3)))
      /\ Built(d) /\ Retained(d)
  BY <1>1, <1>2, <1>3, Heads
<1>5. PICK r \in {GotStream, Handle3} : /\ todo[t] = Stream5(r)
                                        /\ (Home(t) /\ r = GotStream) \/ (Away(t) /\ r = Handle3)
  BY <1>4
<1>6. /\ r \in Seq(Names) /\ r # <<>> /\ Tail(todo[t]) = r
      /\ ~Owes(r, "streamReady") /\ Owes(todo[t], "streamReady")
  <2>1. r \in Seq(Names) /\ r # <<>>
    BY Literals, HandleTails
  <2>2. ~Owes(r, "streamReady")
    BY OwesTable DEF Ends
  <2>3. Owes(todo[t], "streamReady")
    BY <1>5, <2>1, OwesTable DEF Ends
  <2>4. Tail(todo[t]) = r
    BY <1>5, <2>1, StreamTails
  <2> QED  BY <2>1, <2>2, <2>3, <2>4
<1>7. Executes(t, StreamFlag(target[t])) /\ StreamFlag(target[t]) \in OnceFlags
  BY <1>2, <1>6, FlagFacts DEF Executes
<1>8. /\ Types' /\ Owners' /\ Only(t) /\ todo'[t] = r /\ target'[t] = d
      /\ \A g \in OnceFlags : once'[g] = IF g = StreamFlag(d) THEN "done" ELSE once[g]
  <2>1. PICK f \in OnceFlags : f = StreamFlag(target[t])
    BY <1>7
  <2>2. Executes(t, f) /\ once' = [once EXCEPT ![f] = "done"]
    BY <1>3, <1>7, <2>1
  <2>3. Ending(t, f) /\ Tail(todo[t]) # <<>> /\ ~Owes(Tail(todo[t]), Head(todo[t]))
    BY <1>3, <1>6, <2>1 DEF Ending
  <2>4. /\ Types' /\ Owners' /\ Only(t) /\ todo'[t] = r /\ target'[t] = target[t]
        /\ \A g \in OnceFlags : once'[g] = IF g = f THEN "done" ELSE once[g]
    BY <1>3, <1>6, <2>1, <2>2, <2>3, Ended
  <2> QED  BY <1>2, <2>1, <2>4
<1>9. /\ Ready' <=> Ready
      /\ Sized' <=> Sized
      /\ \A c \in Devices : /\ StreamDone(c)' <=> (c = d \/ StreamDone(c))
                            /\ HandleDone(c)' <=> HandleDone(c)
                            /\ Built(c)' <=> Built(c)
                            /\ Bound(c)' <=> Bound(c)
                            /\ Retained(c)' <=> Retained(c)
  BY <1>3, <1>8, FlagFacts DEF Ready, Sized, StreamDone, HandleDone, Built, Bound, Retained
<1>10. Grows
  BY <1>3, <1>9 DEF Grows
<1>11. Objects'
  <2>1. \A f \in OnceFlags : f # InitFlag /\ once'[f] \notin {"none", "fresh"} => Ready'
    BY <1>4, <1>9
  <2>2. once'[InitFlag] = once[InitFlag]
    BY <1>8, FlagFacts
  <2>9. \A c \in Devices : once'[StreamFlag(c)] = "none" => once'[HandleFlag(c)] = "none"
    BY <1>1, <1>8, FlagFacts DEF Objects
  <2> QED  BY <1>1, <1>3, <1>4, <1>9, <2>1, <2>2, <2>9 DEF Objects
<1>12. Place(t)'
  <2>1. /\ Home(t)' <=> Home(t)
        /\ Away(t)' <=> Away(t)
        /\ Ready' /\ StreamDone(target[t])'
    <3>1. StreamDone(d)'
      BY <1>9
    <3>2. StreamDone(target[t])'
      BY <1>8, <3>1 DEF StreamDone
    <3> QED  BY <1>2, <1>3, <1>4, <1>8, <1>9, <3>2 DEF Home, Away
  <2>2. (InCall(t) \/ InHandle(t))'
    BY <1>5, <1>8, <2>1 DEF InCall, InHandle
  <2> QED  BY <2>1, <2>2 DEF Place
<1>13. \A u \in Threads : Place(u)'
  BY <1>8, <1>10, <1>12, AllPlaces
<1> QED  BY <1>8, <1>11, <1>13 DEF IInv

LEMMA HandleReadyKeeps ==
    ASSUME IInv, NEW t \in Threads, HandleReady(t)
    PROVE  IInv'
<1>1. Types /\ Objects /\ Owners /\ Place(t)
  BY DEF IInv
<1>2. PICK d \in Devices : d = target[t]
  BY <1>1 DEF Types
<1>3. /\ todo[t] # <<>> /\ Head(todo[t]) = "handleReady" /\ At(t, "handleReady") /\ Advance(t)
      /\ once' = [once EXCEPT ![HandleFlag(target[t])] = "done"]
      /\ UNCHANGED <<FLAGS, captured, g_maca_streams, g_maca_blas_handles, threshold, created,
                     device, saved, chosen, given, modes>>
  BY DEF HandleReady, Done, objects, history, At
<1>4. Ready /\ Home(t) /\ todo[t] = Handle5 /\ Bound(d)
  BY <1>1, <1>2, <1>3, Heads
<1>5. /\ GotHandle # <<>> /\ Tail(todo[t]) = GotHandle
      /\ ~Owes(GotHandle, "handleReady") /\ Owes(todo[t], "handleReady")
  BY <1>4, Literals, HandleTails, OwesTable DEF Ends
<1>6. Executes(t, HandleFlag(target[t])) /\ HandleFlag(target[t]) \in OnceFlags
  BY <1>2, <1>5, FlagFacts DEF Executes
<1>7. /\ Types' /\ Owners' /\ Only(t) /\ todo'[t] = GotHandle /\ target'[t] = d
      /\ \A g \in OnceFlags : once'[g] = IF g = HandleFlag(d) THEN "done" ELSE once[g]
  <2>1. PICK f \in OnceFlags : f = HandleFlag(target[t])
    BY <1>6
  <2>2. Executes(t, f) /\ once' = [once EXCEPT ![f] = "done"]
    BY <1>3, <1>6, <2>1
  <2>3. Ending(t, f) /\ Tail(todo[t]) # <<>> /\ ~Owes(Tail(todo[t]), Head(todo[t]))
    BY <1>3, <1>5, <2>1 DEF Ending
  <2>4. /\ Types' /\ Owners' /\ Only(t) /\ todo'[t] = GotHandle /\ target'[t] = target[t]
        /\ \A g \in OnceFlags : once'[g] = IF g = f THEN "done" ELSE once[g]
    BY <1>3, <1>5, <2>1, <2>2, <2>3, Ended
  <2> QED  BY <1>2, <2>1, <2>4
<1>8. /\ Ready' <=> Ready
      /\ Sized' <=> Sized
      /\ \A c \in Devices : /\ StreamDone(c)' <=> StreamDone(c)
                            /\ HandleDone(c)' <=> (c = d \/ HandleDone(c))
                            /\ Built(c)' <=> Built(c)
                            /\ Bound(c)' <=> Bound(c)
                            /\ Retained(c)' <=> Retained(c)
  BY <1>3, <1>7, FlagFacts DEF Ready, Sized, StreamDone, HandleDone, Built, Bound, Retained
<1>9. Grows
  BY <1>3, <1>8 DEF Grows
<1>10. Objects'
  <2>1. \A f \in OnceFlags : f # InitFlag /\ once'[f] \notin {"none", "fresh"} => Ready'
    BY <1>4, <1>8
  <2>2. once'[InitFlag] = once[InitFlag]
    BY <1>7, FlagFacts
  <2>9. \A c \in Devices : once'[StreamFlag(c)] = "none" => once'[HandleFlag(c)] = "none"
    <3>1. once[HandleFlag(d)] # "none"
      BY <1>1, <1>2, <1>6 DEF Owners
    <3> QED  BY <1>1, <1>7, <3>1, FlagFacts DEF Objects
  <2> QED  BY <1>1, <1>3, <1>4, <1>8, <2>1, <2>2, <2>9 DEF Objects
<1>11. Place(t)'
  <2>1. Home(t)' /\ Ready' /\ HandleDone(target[t])'
    <3>1. HandleDone(d)'
      BY <1>8
    <3>2. HandleDone(target[t])'
      BY <1>7, <3>1 DEF HandleDone
    <3> QED  BY <1>3, <1>4, <1>8, <3>2 DEF Home
  <2>2. InCall(t)'
    BY <1>7, <2>1 DEF InCall
  <2> QED  BY <2>1, <2>2 DEF Place
<1>12. \A u \in Threads : Place(u)'
  BY <1>7, <1>9, <1>11, AllPlaces
<1> QED  BY <1>7, <1>10, <1>12 DEF IInv

-----------------------------------------------------------------------------
(* Steps that neither begin nor end a function.                              *)

LEMMA Plain ==
    ASSUME IInv, NEW t \in Threads, todo[t] # <<>>, Head(todo[t]) \notin Ends, Advance(t), once' = once
    PROVE  /\ Owners' /\ todo' \in [Threads -> Seq(Names)] /\ target' \in [Threads -> Devices]
           /\ todo'[t] = Tail(todo[t])
           /\ Tail(todo[t]) # <<>> => target'[t] = target[t]
           /\ \A u \in Threads : u # t => todo'[u] = todo[u] /\ target'[u] = target[u]
BY Advanced, PlainOwners DEF IInv

LEMMA CaptureKeeps ==
    ASSUME IInv, NEW t \in Threads, Capture(t)
    PROVE  IInv'
<1>1. Types /\ Objects /\ Place(t)
  BY DEF IInv
<1>2. /\ todo[t] # <<>> /\ Head(todo[t]) = "capture" /\ At(t, "capture") /\ Advance(t) /\ captured' = FLAGS
      /\ UNCHANGED <<FLAGS, once, g_maca_streams, g_maca_blas_handles, threshold, created,
                     device, saved, chosen, given, modes>>
  BY DEF Capture, objects, history, At
<1>3. Home(t) /\ todo[t] = Init1 /\ captured.workarounds = FALSE /\ ~Ready
  BY <1>1, <1>2, Heads
<1>4. /\ ~given /\ once[InitFlag] = "running" /\ \A d \in Devices : ~StreamDone(d) /\ ~HandleDone(d)
      /\ \A u \in Threads : u # t => ~At(u, "capture") /\ ~At(u, "resize")
  BY <1>2, Unready
<1>5. /\ Owners' /\ todo' \in [Threads -> Seq(Names)] /\ target' \in [Threads -> Devices] /\ todo'[t] = Init2
      /\ \A u \in Threads : u # t => todo'[u] = todo[u] /\ target'[u] = target[u]
  <2>1. Tail(todo[t]) = Init2
    BY <1>3, InitTails
  <2> QED  BY <1>2, <2>1, Plain DEF Ends
<1>6. Types'
  BY <1>1, <1>2, <1>5 DEF Types
<1>7. Only(t) /\ todo'[t] # todo[t]
  BY <1>2, <1>3, <1>5, InitTails DEF Only
<1>8. /\ Ready' <=> Ready
      /\ Sized' <=> Sized
      /\ \A d \in Devices : /\ StreamDone(d)' <=> StreamDone(d)
                            /\ HandleDone(d)' <=> HandleDone(d)
                            /\ Built(d)' <=> Built(d)
                            /\ Bound(d)' <=> Bound(d)
  BY <1>2 DEF Ready, Sized, StreamDone, HandleDone, Built, Bound
<1>9. Grows
  BY <1>3, <1>4, <1>7, <1>8 DEF Grows
(* No implementation has been used: one needs a stream, the other the flag.  *)
<1>10. modes = {}
  BY <1>1, <1>3, <1>4 DEF Objects
<1>11. Objects'
  BY <1>1, <1>2, <1>3, <1>4, <1>8, <1>10 DEF Objects
<1>12. Place(t)'
  <2>1. InInitialize(t)'
    BY <1>2, <1>3, <1>5, <1>8 DEF InInitialize, Home
  <2> QED  BY <2>1 DEF Place
<1>13. \A u \in Threads : Place(u)'
  BY <1>7, <1>9, <1>12, AllPlaces
<1> QED  BY <1>5, <1>6, <1>11, <1>13 DEF IInv

LEMMA ResizeKeeps ==
    ASSUME IInv, NEW t \in Threads, Resize(t)
    PROVE  IInv'
<1>1. Types /\ Objects /\ Place(t)
  BY DEF IInv
<1>2. /\ todo[t] # <<>> /\ Head(todo[t]) = "resize" /\ At(t, "resize") /\ Advance(t)
      /\ g_maca_streams' = [d \in Devices |-> Null] /\ g_maca_blas_handles' = [d \in Devices |-> Null]
      /\ UNCHANGED <<FLAGS, captured, once, threshold, created, device, saved, chosen, given, modes>>
  BY DEF Resize, history, At
<1>3. Home(t) /\ todo[t] = Init2 /\ ~Ready
  BY <1>1, <1>2, Heads
<1>4. /\ ~given /\ once[InitFlag] = "running" /\ \A d \in Devices : ~StreamDone(d) /\ ~HandleDone(d)
      /\ \A u \in Threads : u # t => ~At(u, "capture") /\ ~At(u, "resize")
  BY <1>2, Unready
<1>5. /\ Owners' /\ todo' \in [Threads -> Seq(Names)] /\ target' \in [Threads -> Devices] /\ todo'[t] = Init3
      /\ \A u \in Threads : u # t => todo'[u] = todo[u] /\ target'[u] = target[u]
  <2>1. Tail(todo[t]) = Init3
    BY <1>3, InitTails
  <2> QED  BY <1>2, <2>1, Plain DEF Ends
<1>6. Types'
  BY <1>1, <1>2, <1>5 DEF Types
<1>7. Only(t) /\ todo'[t] # todo[t]
  BY <1>2, <1>3, <1>5, InitTails DEF Only
<1>8. /\ Ready'
      /\ Sized'
      /\ \A d \in Devices : /\ StreamDone(d)' <=> StreamDone(d)
                            /\ HandleDone(d)' <=> HandleDone(d)
                            /\ ~Built(d)' /\ ~Bound(d)'
  <2>1. 0 \in Devices
    BY ContextAssumption DEF Devices
  <2>2. DOMAIN g_maca_streams' = Devices
    BY <1>2
  <2>3. Ready'
    BY <2>1, <2>2 DEF Ready
  <2> QED  BY <1>2, <2>3 DEF Sized, Slots, HandleSlots, StreamDone, HandleDone, Built, Bound
<1>9. Grows
  BY <1>3, <1>4, <1>7, <1>8 DEF Grows
<1>10. Objects'
  BY <1>1, <1>2, <1>4, <1>8 DEF Objects
<1>11. Place(t)'
  <2>1. InInitialize(t)'
    BY <1>2, <1>3, <1>5, <1>8 DEF InInitialize, Home
  <2> QED  BY <2>1 DEF Place
<1>12. \A u \in Threads : Place(u)'
  BY <1>7, <1>9, <1>11, AllPlaces
<1> QED  BY <1>5, <1>6, <1>10, <1>12 DEF IInv

(* The flags of a device are made, or all are.                               *)
LEMMA MakeFlagsKeeps ==
    ASSUME IInv, NEW t \in Threads, MakeFlags(t)
    PROVE  IInv'
<1>1. Types /\ Objects /\ Owners /\ Place(t)
  BY DEF IInv
<1>2. /\ todo[t] # <<>> /\ Head(todo[t]) = "makeFlags" /\ At(t, "makeFlags")
      /\ UNCHANGED <<FLAGS, captured, g_maca_streams, g_maca_blas_handles, threshold, created,
                     device, saved, chosen, given, modes>>
  BY DEF MakeFlags, objects, history, At
<1>3. Home(t) /\ todo[t] = Init3 /\ Ready /\ once[InitFlag] = "running"
  BY <1>1, <1>2, Heads, Unready
<1>4. ASSUME NEW d \in Devices, once[StreamFlag(d)] = "none",
             once' = [once EXCEPT ![StreamFlag(d)] = "fresh", ![HandleFlag(d)] = "fresh"],
             UNCHANGED <<todo, target>>, once[HandleFlag(d)] = "none"
      PROVE  IInv'
  <2>1. /\ once \in [OnceFlags -> {"none", "fresh", "running", "done"}]
        /\ StreamFlag(d) \in OnceFlags /\ HandleFlag(d) \in OnceFlags
    BY <1>1, FlagFacts DEF Types
  <2>2. /\ once' \in [OnceFlags -> {"none", "fresh", "running", "done"}]
        /\ \A g \in OnceFlags : once'[g] = IF g \in {StreamFlag(d), HandleFlag(d)} THEN "fresh" ELSE once[g]
    BY <1>4, <2>1
  <2>3. \A g \in OnceFlags : /\ once'[g] = "done" <=> once[g] = "done"
                             /\ once'[g] = "running" <=> once[g] = "running"
    BY <1>4, <2>2
  <2>4. Types'
    BY <1>1, <1>2, <1>4, <2>2 DEF Types
  <2>5. /\ Ready' <=> Ready
        /\ Sized' <=> Sized
        /\ \A c \in Devices : /\ StreamDone(c)' <=> StreamDone(c)
                              /\ HandleDone(c)' <=> HandleDone(c)
                              /\ Built(c)' <=> Built(c)
                              /\ Bound(c)' <=> Bound(c)
                              /\ Retained(c)' <=> Retained(c)
    <3>1. ASSUME NEW c \in Devices
          PROVE  (StreamDone(c)' <=> StreamDone(c)) /\ (HandleDone(c)' <=> HandleDone(c))
      <4>1. StreamFlag(c) \in OnceFlags /\ HandleFlag(c) \in OnceFlags
        BY FlagFacts
      <4> QED  BY <2>3, <4>1 DEF StreamDone, HandleDone
    <3> QED  BY <1>2, <3>1 DEF Ready, Sized, Built, Bound, Retained
  <2>6. Grows
    BY <1>2, <2>5 DEF Grows
  <2>7. Objects'
    <3>1. once'[InitFlag] # "fresh"
      BY <1>3, <2>3, FlagFacts
    <3>2. \A c \in Devices : once'[StreamFlag(c)] = "none" => once'[HandleFlag(c)] = "none"
      BY <1>1, <2>2, FlagFacts DEF Objects
    <3> QED  BY <1>1, <1>2, <1>3, <2>5, <3>1, <3>2 DEF Objects
  <2>8. Owners'
    <3>1. \A u \in Threads, g \in OnceFlags : Executes(u, g)' <=> Executes(u, g)
      BY <1>4, OthersRun
    <3>2. \A g \in OnceFlags, u \in Threads : Executes(u, g)' => once'[g] = "running"
      BY <1>1, <2>3, <3>1 DEF Owners
    <3>3. ASSUME NEW g \in OnceFlags, once'[g] = "running" PROVE \E u \in Threads : Executes(u, g)'
      <4>1. once[g] = "running"
        BY <2>3, <3>3
      <4>2. PICK u \in Threads : Executes(u, g)
        BY <1>1, <4>1 DEF Owners
      <4> QED  BY <3>1, <4>2
    <3>4. \A g \in OnceFlags, u \in Threads, v \in Threads : Executes(u, g)' /\ Executes(v, g)' => u = v
      BY <1>1, <3>1 DEF Owners
    <3> QED  BY <3>2, <3>3, <3>4 DEF Owners
  <2>9. \A u \in Threads : Place(u)'
    BY <1>1, <1>2, <1>4, <2>6, OthersStay DEF IInv
  <2> QED  BY <2>4, <2>7, <2>8, <2>9 DEF IInv
<1>5. CASE Advance(t) /\ once' = once
  <2>1. /\ Owners' /\ todo' \in [Threads -> Seq(Names)] /\ target' \in [Threads -> Devices] /\ todo'[t] = Init4
        /\ \A u \in Threads : u # t => todo'[u] = todo[u] /\ target'[u] = target[u]
    <3>1. Tail(todo[t]) = Init4
      BY <1>3, InitTails
    <3> QED  BY <1>2, <1>5, <3>1, Plain DEF Ends
  <2>2. Types'
    BY <1>1, <1>2, <1>5, <2>1 DEF Types
  <2>3. Only(t)
    BY <1>2, <2>1 DEF Only
  <2>4. Objects' /\ Grows
    BY <1>1, <1>2, <1>5, SameObjects
  <2>5. Place(t)'
    <3>1. InInitialize(t)'
      BY <1>2, <1>3, <2>1 DEF InInitialize, Home, Ready
    <3> QED  BY <3>1 DEF Place
  <2>6. \A u \in Threads : Place(u)'
    BY <2>3, <2>4, <2>5, AllPlaces
  <2> QED  BY <2>1, <2>2, <2>4, <2>6 DEF IInv
<1> QED  BY <1>1, <1>4, <1>5 DEF MakeFlags, Objects

LEMMA EnterKeeps ==
    ASSUME IInv, NEW t \in Threads, Enter(t)
    PROVE  IInv'
<1>1. Types /\ Objects /\ Place(t)
  BY DEF IInv
<1>2. /\ todo[t] # <<>> /\ Head(todo[t]) = "enter" /\ At(t, "enter") /\ Advance(t)
      /\ saved' = [saved EXCEPT ![t] = <<device[t]>> \o @] /\ device' = [device EXCEPT ![t] = target[t]]
      /\ UNCHANGED <<FLAGS, captured, once, g_maca_streams, g_maca_blas_handles, threshold, created,
                     chosen, given, modes>>
  BY DEF Enter, objects, history, At
<1>3. Ready /\ Entering(t)
  BY <1>1, <1>2, Heads
<1>4. /\ saved[t] \in Seq(Devices) /\ device[t] \in Devices /\ target[t] \in Devices /\ chosen[t] \in Devices
      /\ saved \in [Threads -> Seq(Devices)] /\ device \in [Threads -> Devices]
  BY <1>1 DEF Types
<1>5. /\ Owners' /\ todo' \in [Threads -> Seq(Names)] /\ target' \in [Threads -> Devices]
      /\ todo'[t] = Tail(todo[t]) /\ Tail(todo[t]) # <<>> /\ target'[t] = target[t]
      /\ \A u \in Threads : u # t => todo'[u] = todo[u] /\ target'[u] = target[u]
  <2>1. todo[t] \in {CreateStreamBody, SynchronizeDeviceBody, Stream1(GotStream), Handle1, Stream1(Handle3)}
    BY <1>3 DEF Entering
  <2>2. Tail(todo[t]) # <<>>
    <3>1. GotStream \in Seq(Names) /\ Handle3 \in Seq(Names)
      BY Literals, HandleTails
    <3>2. \A r \in Seq(Names) : Tail(Stream1(r)) = Stream2(r) /\ Stream2(r) # <<>>
      BY StreamTails
    <3>3. Tail(Stream1(GotStream)) # <<>> /\ Tail(Stream1(Handle3)) # <<>>
      BY <3>1, <3>2
    <3>4. Tail(CreateStreamBody) # <<>> /\ Tail(SynchronizeDeviceBody) # <<>> /\ Tail(Handle1) # <<>>
      BY Literals, HandleTails
    <3> QED  BY <2>1, <3>2, <3>3, <3>4
  <2> QED  BY <1>2, <2>2, Plain DEF Ends
<1>6. <<device[t]>> \o saved[t] \in Seq(Devices)
  BY <1>4, PushPop
<1>7. saved' = [saved EXCEPT ![t] = <<device[t]>> \o saved[t]]
  BY <1>2, <1>4
<1>8. saved' \in [Threads -> Seq(Devices)] /\ device' \in [Threads -> Devices]
  BY <1>2, <1>4, <1>6, <1>7
<1>9. Types'
  BY <1>1, <1>2, <1>5, <1>8 DEF Types
<1>10. /\ Only(t) /\ saved'[t] = <<device[t]>> \o saved[t] /\ device'[t] = target'[t]
  BY <1>2, <1>4, <1>5, <1>7 DEF Only
<1>11. Objects' /\ Grows
  BY <1>1, <1>2, SameObjects
<1>12. /\ Home(t) => Away(t)'
       /\ Away(t) => Farther(t)'
  <2>1. ASSUME Home(t) PROVE Away(t)'
    <3>1. <<chosen[t]>> \o <<>> = <<chosen[t]>>
      BY <1>4, ConcatEmptySeq
    <3>2. saved'[t] = <<chosen'[t]>>
      BY <1>2, <1>10, <2>1, <3>1 DEF Home
    <3> QED  BY <1>10, <3>2 DEF Away
  <2>2. ASSUME Away(t) PROVE Farther(t)'
    <3>1. <<target[t]>> \o <<chosen[t]>> = <<target[t], chosen[t]>>
      BY <1>4, Pair
    <3>2. saved'[t] = <<target'[t], chosen'[t]>>
      BY <1>2, <1>5, <1>10, <2>2, <3>1 DEF Away
    <3> QED  BY <1>10, <3>2 DEF Farther
  <2> QED  BY <2>1, <2>2
<1>13. Place(t)'
  <2>1. GotStream \in Seq(Names) /\ Handle3 \in Seq(Names)
    BY Literals, HandleTails
  <2>2. Ready'
    BY <1>3, <1>11 DEF Grows
  <2>3. (InCall(t) \/ InStream(t) \/ InNested(t) \/ InHandle(t))'
    <3>1. CASE Home(t) /\ todo[t] = CreateStreamBody
      BY <1>5, <1>12, <3>1, Literals DEF InCall
    <3>2. CASE Home(t) /\ todo[t] = SynchronizeDeviceBody
      BY <1>5, <1>12, <3>2, Literals DEF InCall
    <3>3. CASE Home(t) /\ todo[t] = Stream1(GotStream)
      <4>1. todo'[t] = Stream2(GotStream)
        BY <1>5, <2>1, <3>3, StreamTails
      <4> QED  BY <1>12, <3>3, <4>1 DEF InStream
    <3>4. CASE Home(t) /\ todo[t] = Handle1
      BY <1>5, <1>12, <3>4, HandleTails DEF InHandle
    <3>5. CASE Away(t) /\ todo[t] = Stream1(Handle3)
      <4>1. todo'[t] = Stream2(Handle3)
        BY <1>5, <2>1, <3>5, StreamTails
      <4> QED  BY <1>12, <3>5, <4>1 DEF InNested
    <3> QED  BY <1>3, <3>1, <3>2, <3>3, <3>4, <3>5 DEF Entering
  <2> QED  BY <2>2, <2>3 DEF Place
<1>14. \A u \in Threads : Place(u)'
  BY <1>10, <1>11, <1>13, AllPlaces
<1> QED  BY <1>5, <1>9, <1>11, <1>14 DEF IInv

LEMMA RestoreKeeps ==
    ASSUME IInv, NEW t \in Threads, Restore(t)
    PROVE  IInv'
<1>1. Types /\ Objects /\ Place(t)
  BY DEF IInv
<1>2. /\ todo[t] # <<>> /\ Head(todo[t]) = "restore" /\ At(t, "restore") /\ Advance(t)
      /\ device' = [device EXCEPT ![t] = Head(saved[t])] /\ saved' = [saved EXCEPT ![t] = Tail(saved[t])]
      /\ UNCHANGED <<FLAGS, captured, once, g_maca_streams, g_maca_blas_handles, threshold, created,
                     chosen, given, modes>>
  <2>1. saved' = [saved EXCEPT ![t] = Tail(saved[t])]
    BY <1>1 DEF Restore, Types
  <2> QED  BY <2>1 DEF Restore, objects, history, At
<1>3. Ready /\ Restoring(t)
  BY <1>1, <1>2, Heads
<1>4. /\ saved \in [Threads -> Seq(Devices)] /\ device \in [Threads -> Devices]
      /\ target[t] \in Devices /\ chosen[t] \in Devices
  BY <1>1 DEF Types
<1>5. /\ Away(t) => Head(saved[t]) = chosen[t] /\ Tail(saved[t]) = <<>>
      /\ Farther(t) => Head(saved[t]) = target[t] /\ Tail(saved[t]) = <<chosen[t]>>
      /\ Away(t) \/ Farther(t)
  <2>1. Away(t) \/ Farther(t)
    BY <1>3 DEF Restoring
  <2>2. /\ \A v \in Devices : Head(<<v>>) = v /\ Tail(<<v>>) = <<>>
        /\ \A v \in Devices, w \in Devices : Head(<<v, w>>) = v /\ Tail(<<v, w>>) = <<w>>
    OBVIOUS
  <2>3. Away(t) => Head(saved[t]) = chosen[t] /\ Tail(saved[t]) = <<>>
    BY <1>4, <2>2 DEF Away
  <2>4. Farther(t) => Head(saved[t]) = target[t] /\ Tail(saved[t]) = <<chosen[t]>>
    BY <1>4, <2>2 DEF Farther
  <2> QED  BY <2>1, <2>3, <2>4
<1>6. saved' \in [Threads -> Seq(Devices)] /\ device' \in [Threads -> Devices]
  <2>1. <<>> \in Seq(Devices) /\ \A v \in Devices : <<v>> \in Seq(Devices)
    OBVIOUS
  <2>2. Head(saved[t]) \in Devices /\ Tail(saved[t]) \in Seq(Devices)
    BY <1>4, <1>5, <2>1
  <2> QED  BY <1>2, <1>4, <2>2
<1>7. /\ Owners' /\ todo' \in [Threads -> Seq(Names)] /\ target' \in [Threads -> Devices]
      /\ todo'[t] = Tail(todo[t])
      /\ Tail(todo[t]) # <<>> => target'[t] = target[t]
      /\ \A u \in Threads : u # t => todo'[u] = todo[u] /\ target'[u] = target[u]
  BY <1>2, Plain DEF Ends
<1>8. Types'
  BY <1>1, <1>2, <1>6, <1>7 DEF Types
<1>9. Only(t) /\ saved'[t] = Tail(saved[t]) /\ device'[t] = Head(saved[t])
  BY <1>2, <1>4, <1>7 DEF Only
<1>10. Objects' /\ Grows
  BY <1>1, <1>2, SameObjects
<1>11. /\ Away(t) => Home(t)'
       /\ Farther(t) /\ target'[t] = target[t] => Away(t)'
  BY <1>2, <1>5, <1>9 DEF Home, Away, Farther
<1>12. /\ Ready'
       /\ Built(target[t]) => (target'[t] = target[t] => Built(target[t])')
       /\ Bound(target[t]) => (target'[t] = target[t] => Bound(target[t])')
       /\ Retained(target[t]) => (target'[t] = target[t] => Retained(target[t])')
  BY <1>2, <1>3 DEF Ready, Built, Bound, Retained
<1>13. Place(t)'
  <2>1. GotStream \in Seq(Names) /\ Handle3 \in Seq(Names)
    BY Literals, HandleTails
  <2>2. \A r \in Seq(Names) : Tail(Stream4(r)) = Stream5(r) /\ Stream5(r) # <<>>
    BY StreamTails
  <2>3. CASE Away(t) /\ todo[t] = RestoreRests /\ created[t] = [dev |-> target[t]]
    <3>1. todo'[t] = GotCreated /\ target'[t] = target[t] /\ created'[t] = [dev |-> target'[t]]
      BY <1>2, <1>7, <2>3, Literals
    <3> QED  BY <1>11, <1>12, <2>3, <3>1 DEF InCall, Place
  <2>4. CASE Away(t) /\ todo[t] = Back
    <3>1. todo'[t] = <<>>
      BY <1>7, <2>4, Literals
    <3> QED  BY <1>11, <2>4, <3>1 DEF Place
  <2>5. CASE Away(t) /\ todo[t] = Stream4(GotStream) /\ Built(target[t]) /\ Retained(target[t])
    <3>1. todo'[t] = Stream5(GotStream) /\ target'[t] = target[t]
      BY <1>7, <2>1, <2>2, <2>5
    <3> QED  BY <1>11, <1>12, <2>5, <3>1 DEF InStream, Place
  <2>6. CASE Farther(t) /\ todo[t] = Stream4(Handle3) /\ Built(target[t]) /\ Retained(target[t])
    <3>1. todo'[t] = Stream5(Handle3) /\ target'[t] = target[t]
      BY <1>7, <2>1, <2>2, <2>6
    <3> QED  BY <1>11, <1>12, <2>6, <3>1 DEF InNested, Place
  <2>7. CASE Away(t) /\ todo[t] = Handle4 /\ Bound(target[t])
    <3>1. todo'[t] = Handle5 /\ target'[t] = target[t]
      BY <1>7, <2>7, HandleTails
    <3> QED  BY <1>11, <1>12, <2>7, <3>1 DEF InHandle, Place
  <2> QED  BY <1>3, <2>3, <2>4, <2>5, <2>6, <2>7 DEF Restoring
<1>14. \A u \in Threads : Place(u)'
  BY <1>9, <1>10, <1>13, AllPlaces
<1> QED  BY <1>7, <1>8, <1>10, <1>14 DEF IInv

LEMMA CreateDefaultKeeps ==
    ASSUME IInv, NEW t \in Threads, CreateDefault(t)
    PROVE  IInv'
<1>1. Types /\ Objects /\ Place(t)
  BY DEF IInv
<1>2. PICK d \in Devices : d = target[t]
  BY <1>1 DEF Types
<1>3. /\ todo[t] # <<>> /\ Head(todo[t]) = "createDefault" /\ At(t, "createDefault") /\ Advance(t)
      /\ g_maca_streams' = [g_maca_streams EXCEPT ![d] = [dev |-> device[t]]]
      /\ UNCHANGED <<FLAGS, captured, once, g_maca_blas_handles, threshold, created,
                     device, saved, chosen, given, modes>>
  BY <1>2 DEF CreateDefault, history, At
<1>4. Ready /\ ((Away(t) /\ todo[t] = Stream2(GotStream)) \/ (Farther(t) /\ todo[t] = Stream2(Handle3)))
  BY <1>1, <1>3, Heads
<1>5. Sized /\ device[t] = d
  BY <1>1, <1>2, <1>4 DEF Objects, Away, Farther
<1>6. /\ Owners' /\ todo' \in [Threads -> Seq(Names)] /\ target' \in [Threads -> Devices]
      /\ todo'[t] = Tail(todo[t])
      /\ Tail(todo[t]) # <<>> => target'[t] = target[t]
      /\ \A u \in Threads : u # t => todo'[u] = todo[u] /\ target'[u] = target[u]
  BY <1>3, Plain DEF Ends
<1>7. Types'
  BY <1>1, <1>3, <1>6 DEF Types
<1>8. Only(t)
  BY <1>3, <1>6 DEF Only
<1>9. /\ [dev |-> d] \in Slots /\ [dev |-> d] # Null
      /\ \A c \in Devices : g_maca_streams'[c] = IF c = d THEN [dev |-> d] ELSE g_maca_streams[c]
  BY <1>3, <1>5 DEF Sized, Slots, Streams, Null, Devices
<1>10. Sized'
  <2>1. g_maca_streams' \in [Devices -> Slots]
    BY <1>3, <1>5, <1>9 DEF Sized
  <2> QED  BY <1>3, <1>5, <2>1 DEF Sized
<1>11. /\ Ready' <=> Ready
       /\ \A c \in Devices : /\ StreamDone(c)' <=> StreamDone(c)
                             /\ HandleDone(c)' <=> HandleDone(c)
                             /\ Built(c)' <=> (c = d \/ Built(c))
                             /\ Bound(c)' <=> Bound(c)
                             /\ Retained(c)' <=> Retained(c)
  BY <1>3, <1>9 DEF Ready, StreamDone, HandleDone, Built, Bound, Retained
<1>12. Grows
  BY <1>3, <1>10, <1>11 DEF Grows
<1>13. Objects'
  <2>1. ASSUME NEW c \in Devices
        PROVE  /\ Built(c)' => g_maca_streams'[c] = [dev |-> c]
               /\ Bound(c)' => StreamDone(c)' /\ g_maca_blas_handles'[c] = [dev |-> c, stream |-> [dev |-> c]]
               /\ StreamDone(c)' => Built(c)' /\ Retained(c)'
               /\ HandleDone(c)' => Bound(c)'
    <3>1. Built(c)' => g_maca_streams'[c] = [dev |-> c]
      BY <1>1, <1>5, <1>9, <1>11 DEF Objects
    <3> QED  BY <1>1, <1>3, <1>5, <1>11, <3>1 DEF Objects
  <2> QED  BY <1>1, <1>3, <1>4, <1>10, <1>11, <2>1 DEF Objects
<1>14. Place(t)'
  <2>1. \A r \in Seq(Names) : Tail(Stream2(r)) = Stream3(r) /\ Stream3(r) # <<>>
    BY StreamTails
  <2>2. GotStream \in Seq(Names) /\ Handle3 \in Seq(Names)
    BY Literals, HandleTails
  <2>3. Tail(todo[t]) # <<>>
    BY <1>4, <2>1, <2>2
  <2>4. target'[t] = d /\ Ready' /\ Built(target[t])'
    <3>1. target'[t] = d /\ Built(d)'
      BY <1>2, <1>6, <1>11, <2>3
    <3> QED  BY <1>4, <1>11, <3>1 DEF Built
  <2>5. (Away(t)' <=> Away(t)) /\ (Farther(t)' <=> Farther(t))
    BY <1>2, <1>3, <2>4 DEF Away, Farther
  <2>6. (InStream(t) \/ InNested(t))'
    BY <1>4, <1>6, <2>1, <2>2, <2>4, <2>5 DEF InStream, InNested
  <2> QED  BY <2>4, <2>6 DEF Place
<1>15. \A u \in Threads : Place(u)'
  BY <1>8, <1>12, <1>14, AllPlaces
<1> QED  BY <1>6, <1>7, <1>13, <1>15 DEF IInv

LEMMA RetainPoolKeeps ==
    ASSUME IInv, NEW t \in Threads, RetainPool(t)
    PROVE  IInv'
<1>1. Types /\ Objects /\ Place(t)
  BY DEF IInv
<1>2. PICK d \in Devices : d = target[t]
  BY <1>1 DEF Types
<1>3. /\ todo[t] # <<>> /\ Head(todo[t]) = "retainPool" /\ At(t, "retainPool") /\ Advance(t)
      /\ threshold' = IF captured.retain THEN [threshold EXCEPT ![d] = RetainedThreshold] ELSE threshold
      /\ UNCHANGED <<FLAGS, captured, once, g_maca_streams, g_maca_blas_handles, created,
                     device, saved, chosen, given, modes>>
  BY <1>2 DEF RetainPool, history, At
<1>4. /\ Ready /\ ((Away(t) /\ todo[t] = Stream3(GotStream)) \/ (Farther(t) /\ todo[t] = Stream3(Handle3)))
      /\ Built(d)
  BY <1>1, <1>2, <1>3, Heads
<1>5. /\ Owners' /\ todo' \in [Threads -> Seq(Names)] /\ target' \in [Threads -> Devices]
      /\ todo'[t] = Tail(todo[t])
      /\ Tail(todo[t]) # <<>> => target'[t] = target[t]
      /\ \A u \in Threads : u # t => todo'[u] = todo[u] /\ target'[u] = target[u]
  BY <1>3, Plain DEF Ends
<1>6. /\ threshold \in [Devices -> {0, RetainedThreshold}] /\ threshold' \in [Devices -> {0, RetainedThreshold}]
      /\ \A c \in Devices : threshold'[c] = IF captured.retain /\ c = d THEN RetainedThreshold ELSE threshold[c]
  BY <1>1, <1>3 DEF Types
<1>7. Types'
  BY <1>1, <1>3, <1>5, <1>6 DEF Types
<1>8. Only(t)
  BY <1>3, <1>5 DEF Only
<1>9. /\ Ready' <=> Ready
      /\ Sized' <=> Sized
      /\ \A c \in Devices : /\ StreamDone(c)' <=> StreamDone(c)
                            /\ HandleDone(c)' <=> HandleDone(c)
                            /\ Built(c)' <=> Built(c)
                            /\ Bound(c)' <=> Bound(c)
                            /\ Retained(c) => Retained(c)'
      /\ Retained(d)'
  BY <1>3, <1>6 DEF Ready, Sized, StreamDone, HandleDone, Built, Bound, Retained
<1>10. Grows
  BY <1>3, <1>9 DEF Grows
<1>11. Objects'
  BY <1>1, <1>3, <1>9 DEF Objects
<1>12. Place(t)'
  <2>1. \A r \in Seq(Names) : Tail(Stream3(r)) = Stream4(r) /\ Stream4(r) # <<>>
    BY StreamTails
  <2>2. GotStream \in Seq(Names) /\ Handle3 \in Seq(Names)
    BY Literals, HandleTails
  <2>3. Tail(todo[t]) # <<>>
    BY <1>4, <2>1, <2>2
  <2>4. target'[t] = d /\ Ready' /\ Built(target[t])' /\ Retained(target[t])'
    <3>1. target'[t] = d /\ Built(d)' /\ Retained(d)'
      BY <1>2, <1>4, <1>5, <1>9, <2>3
    <3> QED  BY <1>4, <1>9, <3>1 DEF Built, Retained
  <2>5. (Away(t)' <=> Away(t)) /\ (Farther(t)' <=> Farther(t))
    BY <1>2, <1>3, <2>4 DEF Away, Farther
  <2>6. (InStream(t) \/ InNested(t))'
    BY <1>4, <1>5, <2>1, <2>2, <2>4, <2>5 DEF InStream, InNested
  <2> QED  BY <2>4, <2>6 DEF Place
<1>13. \A u \in Threads : Place(u)'
  BY <1>8, <1>10, <1>12, AllPlaces
<1> QED  BY <1>5, <1>7, <1>11, <1>13 DEF IInv

LEMMA CreateHandleKeeps ==
    ASSUME IInv, NEW t \in Threads, CreateHandle(t)
    PROVE  IInv'
<1>1. Types /\ Objects /\ Place(t)
  BY DEF IInv
<1>2. PICK d \in Devices : d = target[t]
  BY <1>1 DEF Types
<1>3. /\ todo[t] # <<>> /\ Head(todo[t]) = "createHandle" /\ At(t, "createHandle") /\ Advance(t)
      /\ g_maca_blas_handles' = [g_maca_blas_handles EXCEPT ![d] = [dev |-> device[t], stream |-> g_maca_streams[d]]]
      /\ UNCHANGED <<FLAGS, captured, once, g_maca_streams, threshold, created,
                     device, saved, chosen, given, modes>>
  BY <1>2 DEF CreateHandle, history, At
<1>4. Ready /\ Away(t) /\ todo[t] = Handle3 /\ StreamDone(d)
  BY <1>1, <1>2, <1>3, Heads
<1>5. Sized /\ device[t] = d /\ g_maca_streams[d] = [dev |-> d]
  <2>1. Sized /\ device[t] = d
    BY <1>1, <1>2, <1>4 DEF Objects, Away
  <2> QED  BY <1>1, <1>4, <2>1 DEF Objects
<1>6. /\ Owners' /\ todo' \in [Threads -> Seq(Names)] /\ target' \in [Threads -> Devices]
      /\ todo'[t] = Handle4 /\ target'[t] = d
      /\ \A u \in Threads : u # t => todo'[u] = todo[u] /\ target'[u] = target[u]
  <2>1. Tail(todo[t]) = Handle4 /\ Handle4 # <<>>
    BY <1>4, HandleTails
  <2> QED  BY <1>2, <1>3, <2>1, Plain DEF Ends
<1>7. Types'
  BY <1>1, <1>3, <1>6 DEF Types
<1>8. Only(t)
  BY <1>3, <1>6 DEF Only
<1> DEFINE h == [dev |-> d, stream |-> [dev |-> d]]
<1>9. h \in HandleSlots /\ h # Null
  <2>1. [dev |-> d] \in Streams
    BY DEF Streams
  <2>2. h \in [dev : Devices, stream : Streams]
    BY <2>1
  <2>3. h.dev = d /\ Null.dev = -1 /\ d # -1
    BY DEF Null, Devices
  <2> QED  BY <2>2, <2>3 DEF HandleSlots
<1>10. \A c \in Devices : g_maca_blas_handles'[c] = IF c = d THEN h ELSE g_maca_blas_handles[c]
  BY <1>3, <1>5 DEF Sized
<1>11. Sized'
  <2>1. g_maca_blas_handles' = [g_maca_blas_handles EXCEPT ![d] = h]
    BY <1>3, <1>5
  <2>2. g_maca_blas_handles' \in [Devices -> HandleSlots]
    BY <1>5, <1>9, <2>1 DEF Sized
  <2> QED  BY <1>3, <1>5, <2>2 DEF Sized
<1> HIDE DEF h
<1>12. /\ Ready' <=> Ready
       /\ \A c \in Devices : /\ StreamDone(c)' <=> StreamDone(c)
                             /\ HandleDone(c)' <=> HandleDone(c)
                             /\ Built(c)' <=> Built(c)
                             /\ Bound(c)' <=> (c = d \/ Bound(c))
                             /\ Retained(c)' <=> Retained(c)
  BY <1>3, <1>9, <1>10 DEF Ready, StreamDone, HandleDone, Built, Bound, Retained
<1>13. Grows
  BY <1>3, <1>11, <1>12 DEF Grows
<1>14. Objects'
  <2>1. ASSUME NEW c \in Devices
        PROVE  /\ Built(c)' => g_maca_streams'[c] = [dev |-> c]
               /\ Bound(c)' => StreamDone(c)' /\ g_maca_blas_handles'[c] = [dev |-> c, stream |-> [dev |-> c]]
               /\ StreamDone(c)' => Built(c)' /\ Retained(c)'
               /\ HandleDone(c)' => Bound(c)'
    <3>1. Bound(c)' => StreamDone(c)' /\ g_maca_blas_handles'[c] = [dev |-> c, stream |-> [dev |-> c]]
      BY <1>1, <1>4, <1>5, <1>10, <1>12 DEF Objects, h
    <3> QED  BY <1>1, <1>3, <1>5, <1>12, <3>1 DEF Objects
  <2> QED  BY <1>1, <1>3, <1>4, <1>11, <1>12, <2>1 DEF Objects
<1>15. Place(t)'
  <2>1. Ready' /\ Bound(target[t])' /\ Away(t)'
    <3>1. Bound(d)'
      BY <1>12
    <3> QED  BY <1>2, <1>3, <1>4, <1>6, <1>12, <3>1 DEF Bound, Away
  <2>2. InHandle(t)'
    BY <1>6, <2>1 DEF InHandle
  <2> QED  BY <2>1, <2>2 DEF Place
<1>16. \A u \in Threads : Place(u)'
  BY <1>8, <1>13, <1>15, AllPlaces
<1> QED  BY <1>6, <1>7, <1>14, <1>16 DEF IInv

LEMMA CreateKeeps ==
    ASSUME IInv, NEW t \in Threads, Create(t)
    PROVE  IInv'
<1>1. Types /\ Objects /\ Place(t)
  BY DEF IInv
<1>2. PICK d \in Devices : d = target[t]
  BY <1>1 DEF Types
<1>3. /\ todo[t] # <<>> /\ Head(todo[t]) = "create" /\ At(t, "create") /\ Advance(t)
      /\ created' = [created EXCEPT ![t] = [dev |-> device[t]]]
      /\ UNCHANGED <<FLAGS, captured, once, g_maca_streams, g_maca_blas_handles, threshold,
                     device, saved, chosen, given, modes>>
  BY DEF Create, history, At
<1>4. Ready /\ Away(t) /\ todo[t] = CreateRests
  BY <1>1, <1>3, Heads
<1>5. /\ Owners' /\ todo' \in [Threads -> Seq(Names)] /\ target' \in [Threads -> Devices]
      /\ todo'[t] = RestoreRests /\ target'[t] = d
      /\ \A u \in Threads : u # t => todo'[u] = todo[u] /\ target'[u] = target[u]
  <2>1. Tail(todo[t]) = RestoreRests /\ RestoreRests # <<>>
    BY <1>4, Literals
  <2> QED  BY <1>2, <1>3, <2>1, Plain DEF Ends
<1>6. created' = [created EXCEPT ![t] = [dev |-> d]] /\ [dev |-> d] \in Slots /\ created \in [Threads -> Slots]
  BY <1>1, <1>2, <1>3, <1>4 DEF Away, Types, Slots, Streams
<1>7. created' \in [Threads -> Slots] /\ created'[t] = [dev |-> d]
  BY <1>6
<1>8. Types'
  BY <1>1, <1>3, <1>5, <1>7 DEF Types
<1>9. Only(t)
  BY <1>3, <1>5, <1>6 DEF Only
<1>10. Objects' /\ Grows
  BY <1>1, <1>3, SameObjects
<1>11. Place(t)'
  <2>1. Ready' /\ Away(t)' /\ created'[t] = [dev |-> target'[t]]
    BY <1>2, <1>3, <1>4, <1>5, <1>7 DEF Ready, Away
  <2>2. InCall(t)'
    BY <1>5, <2>1 DEF InCall
  <2> QED  BY <2>1, <2>2 DEF Place
<1>12. \A u \in Threads : Place(u)'
  BY <1>9, <1>10, <1>11, AllPlaces
<1> QED  BY <1>5, <1>8, <1>10, <1>12 DEF IInv

LEMMA UseModeKeeps ==
    ASSUME IInv, NEW t \in Threads, UseMode(t), given \/ captured.workarounds = TRUE
    PROVE  IInv'
<1>1. Types /\ Objects /\ Owners /\ \A u \in Threads : Place(u)
  BY DEF IInv
<1>2. /\ modes' = modes \cup {captured.workarounds}
      /\ UNCHANGED <<FLAGS, captured, once, g_maca_streams, g_maca_blas_handles, threshold, created,
                     device, todo, target, saved, chosen, given>>
  BY DEF UseMode, AllocatorMode, objects
<1>3. modes' \subseteq BOOLEAN /\ modes' \subseteq {captured.workarounds}
  <2>1. captured.workarounds \in BOOLEAN
    BY <1>1 DEF Types, Flags
  <2>2. modes \subseteq BOOLEAN /\ modes \subseteq {captured.workarounds}
    BY <1>1 DEF Types, Objects
  <2> QED  BY <1>2, <2>1, <2>2, Zenon
<1>4. Types'
  BY <1>1, <1>2, <1>3 DEF Types
<1>5. /\ Ready' <=> Ready
      /\ Sized' <=> Sized
      /\ \A d \in Devices : /\ StreamDone(d)' <=> StreamDone(d)
                            /\ HandleDone(d)' <=> HandleDone(d)
                            /\ Built(d)' <=> Built(d)
                            /\ Bound(d)' <=> Bound(d)
                            /\ Retained(d)' <=> Retained(d)
  BY <1>2 DEF Ready, Sized, StreamDone, HandleDone, Built, Bound, Retained
<1>6. Grows
  BY <1>2, <1>5 DEF Grows
<1>7. Objects'
  <2>1. modes' \subseteq {captured'.workarounds}
    BY <1>2, <1>3
  <2>2. given' \/ captured'.workarounds = TRUE
    BY <1>2
  <2> QED  BY <1>1, <1>2, <1>5, <2>1, <2>2 DEF Objects
<1>8. Owners'
  <2>1. \A u \in Threads, f \in OnceFlags : Executes(u, f)' <=> Executes(u, f)
    BY <1>2, OthersRun
  <2> QED  BY <1>1, <1>2, <2>1, Keep
<1>9. \A u \in Threads : Place(u)'
  BY <1>1, <1>2, <1>6, OthersStay
<1> QED  BY <1>4, <1>7, <1>8, <1>9 DEF IInv

LEMMA GotKeeps ==
    ASSUME IInv, NEW t \in Threads, Got(t)
    PROVE  IInv'
<1>1. Types /\ Objects /\ Place(t)
  BY DEF IInv
<1>2. /\ todo[t] # <<>> /\ Head(todo[t]) \in {"gotStream", "gotHandle", "gotCreated"} /\ Advance(t)
      /\ At(t, "gotStream") \/ At(t, "gotHandle") \/ At(t, "gotCreated")
      /\ created' = [created EXCEPT ![t] = Null]
      /\ UNCHANGED <<FLAGS, captured, once, g_maca_streams, g_maca_blas_handles, threshold,
                     device, saved, chosen, modes>>
      /\ given' = (given \/ ~At(t, "gotHandle"))
  BY DEF Got, history, At
<1>3. Ready /\ Home(t) /\ todo[t] \in {GotStream, GotHandle, GotCreated}
  BY <1>1, <1>2, Heads
<1>4. /\ Owners' /\ todo' \in [Threads -> Seq(Names)] /\ target' \in [Threads -> Devices] /\ todo'[t] = <<>>
      /\ \A u \in Threads : u # t => todo'[u] = todo[u] /\ target'[u] = target[u]
  <2>1. Tail(todo[t]) = <<>>
    BY <1>3, Literals
  <2> QED  BY <1>2, <2>1, Plain DEF Ends
<1>5. created' \in [Threads -> Slots]
  BY <1>1, <1>2 DEF Types, Slots
<1>6. Types'
  <2>1. given' \in BOOLEAN
    BY <1>1, <1>2 DEF Types
  <2> QED  BY <1>1, <1>2, <1>4, <1>5, <2>1 DEF Types
<1>7. Only(t)
  BY <1>1, <1>2, <1>4 DEF Only, Types
<1>8. Objects' /\ Grows
  <2>1. /\ Ready' <=> Ready
        /\ Sized' <=> Sized
        /\ \A d \in Devices : /\ StreamDone(d)' <=> StreamDone(d)
                              /\ HandleDone(d)' <=> HandleDone(d)
                              /\ Built(d)' <=> Built(d)
                              /\ Bound(d)' <=> Bound(d)
                              /\ Retained(d)' <=> Retained(d)
        /\ once' = once
    BY <1>2 DEF Got, Ready, Sized, StreamDone, HandleDone, Built, Bound, Retained
  <2>2. Grows
    BY <1>2, <2>1 DEF Grows
  <2>3. modes' # {} => given' \/ captured'.workarounds = TRUE
    BY <1>1, <1>2 DEF Objects
  <2>4. Objects'
    BY <1>1, <1>2, <1>3, <2>1, <2>3 DEF Objects
  <2> QED  BY <2>2, <2>4
<1>9. Place(t)'
  BY <1>2, <1>3, <1>4 DEF Home, Place
<1>10. \A u \in Threads : Place(u)'
  BY <1>7, <1>8, <1>9, AllPlaces
<1> QED  BY <1>4, <1>6, <1>8, <1>10 DEF IInv

-----------------------------------------------------------------------------
(* The invariant holds.                                                      *)

LEMMA InitOK == Init => IInv
<1> SUFFICES ASSUME Init PROVE IInv
  OBVIOUS
<1>1. 0 \in Devices
  BY ContextAssumption DEF Devices
<1>2. Types
  <2>1. once \in [OnceFlags -> {"none", "fresh", "running", "done"}]
    <3>1. once = [f \in OnceFlags |-> IF f = InitFlag THEN "fresh" ELSE "none"]
      BY DEF Init
    <3> QED  BY <3>1
  <2>2. FLAGS \in Flags /\ captured \in Flags /\ given \in BOOLEAN /\ modes \subseteq BOOLEAN
    BY DEF Init, Flags
  <2>3. /\ threshold \in [Devices -> {0, RetainedThreshold}]
        /\ device \in [Threads -> Devices] /\ target \in [Threads -> Devices] /\ chosen \in [Threads -> Devices]
        /\ created \in [Threads -> Slots]
        /\ saved \in [Threads -> Seq(Devices)] /\ todo \in [Threads -> Seq(Names)]
    BY <1>1 DEF Init, Slots
  <2> QED  BY <2>1, <2>2, <2>3 DEF Types
<1>3. \A f \in OnceFlags : once[f] = IF f = InitFlag THEN "fresh" ELSE "none"
  BY DEF Init
<1>4. ~Ready /\ \A d \in Devices : ~StreamDone(d) /\ ~HandleDone(d)
  BY <1>3, FlagFacts DEF Init, Ready, StreamDone, HandleDone
<1>5. DOMAIN g_maca_streams = {}
  BY DEF Init
<1>6. ~Sized
  BY <1>1, <1>5 DEF Sized
<1>7. Objects
  BY <1>3, <1>4, <1>5, <1>6, FlagFacts DEF Init, Objects
<1>8. Owners
  <2>1. \A e \in Ends : ~Owes(<<>>, e)
    BY OwesTable
  <2>2. \A t \in Threads, f \in OnceFlags : ~Executes(t, f)
    BY <2>1 DEF Init, Executes, Ends
  <2> QED  BY <1>3, <2>2 DEF Owners
<1>9. \A t \in Threads : Place(t)
  BY DEF Init, Place, Home
<1> QED  BY <1>2, <1>7, <1>8, <1>9 DEF IInv

LEMMA NextKeeps == IInv /\ [Next]_vars => IInv'
<1> SUFFICES ASSUME IInv, [Next]_vars PROVE IInv'
  OBVIOUS
<1>1. CASE AssignFlags
  BY <1>1, AssignFlagsKeeps
<1>2. ASSUME NEW t \in Threads, Call(t) PROVE IInv'
  <2>1. CASE \E body \in Bodies : Begin(t, body)
    BY <2>1, BeginKeeps
  <2>2. CASE Initialize(t) \/ SetDevice(t)
    BY <2>2, InitializeKeeps, SetDeviceKeeps
  <2>3. CASE MallocAsync(t) \/ FreeAsync(t)
    <3>1. captured.workarounds \in BOOLEAN
      BY DEF IInv, Types, Flags
    <3>2. captured.workarounds => captured.workarounds = TRUE
      BY <3>1, Zenon
    <3>3. UseMode(t) /\ (given \/ captured.workarounds = TRUE)
      BY <2>3, <3>2, Zenon DEF MallocAsync, FreeAsync, AllocatorMode
    <3> QED  BY <3>3, UseModeKeeps
  <2>4. /\ GetStreamBody \in Bodies /\ GetBlasHandleBody \in Bodies /\ CreateStreamBody \in Bodies
        /\ SynchronizeDeviceBody \in Bodies
    BY DEF Bodies
  <2> QED  BY <1>2, <2>1, <2>2, <2>3, <2>4 DEF Call, GetStream, GetBlasHandle, CreateStream, SynchronizeDevice
<1>3. ASSUME NEW t \in Threads, Step(t) PROVE IInv'
  BY <1>3, OnceInitializeKeeps, OnceStreamKeeps, OnceHandleKeeps, InitializedKeeps, StreamReadyKeeps,
     HandleReadyKeeps, CaptureKeeps, ResizeKeeps, MakeFlagsKeeps, EnterKeeps, RestoreKeeps,
     CreateDefaultKeeps, RetainPoolKeeps, CreateHandleKeeps, CreateKeeps, GotKeeps DEF Step
<1>4. CASE UNCHANGED state
  BY <1>4, StutterKeeps
<1> QED  BY <1>1, <1>2, <1>3, <1>4 DEF Next, Running, Abort, vars

(* IInv holds in every state: each thread stands at a place its call knows,  *)
(* and a call_once flag is running exactly while one thread runs its         *)
(* function.                                                                 *)
THEOREM Invariance == Spec => []IInv
<1> QED  BY InitOK, NextKeeps, PTL DEF Spec

-----------------------------------------------------------------------------
(* The properties.                                                           *)

LEMMA TypesOK ==
    ASSUME Types, Objects, aborted \in BOOLEAN
    PROVE  TypeOK
<1>1. \A d \in DOMAIN g_maca_streams :
         /\ g_maca_streams[d] \in Streams \cup {Null}
         /\ g_maca_blas_handles[d] \in [dev : Devices, stream : Streams] \cup {Null}
  <2>1. CASE ~Ready
    BY <2>1 DEF Ready
  <2>2. CASE Sized
    BY <2>2 DEF Sized, Slots, HandleSlots
  <2> QED  BY <2>1, <2>2 DEF Objects
<1> QED  BY <1>1 DEF Types, TypeOK, Slots

(* Every stream and every BLAS handle belongs to the device it was asked     *)
(* for, whatever device InitSingleStream and InitSingleHandle were called    *)
(* on, and a handle works on its device's default stream.                    *)
THEOREM StreamsBelong == Spec => []ObjectsOnTheirDevice
<1>0. Spec => [](aborted \in BOOLEAN)
  <2>1. Init => aborted \in BOOLEAN
    BY DEF Init
  <2>2. aborted \in BOOLEAN /\ [Next]_vars => (aborted \in BOOLEAN)'
    BY DEF Next, Running, Abort, vars
  <2> QED  BY <2>1, <2>2, PTL DEF Spec
<1>1. IInv /\ aborted \in BOOLEAN => ObjectsOnTheirDevice
  <2> SUFFICES ASSUME IInv, aborted \in BOOLEAN PROVE ObjectsOnTheirDevice
    OBVIOUS
  <2>1. TypeOK
    BY TypesOK DEF IInv
  <2>2. ASSUME NEW d \in DOMAIN g_maca_streams
        PROVE  /\ g_maca_streams[d] # Null => g_maca_streams[d].dev = d
               /\ g_maca_blas_handles[d] # Null =>
                    /\ g_maca_streams[d] # Null
                    /\ g_maca_blas_handles[d] = [dev |-> d, stream |-> g_maca_streams[d]]
    <3>1. Sized /\ d \in Devices
      BY <2>2 DEF IInv, Objects, Sized, Ready
    <3>2. Built(d) => g_maca_streams[d] = [dev |-> d]
      BY <3>1 DEF IInv, Objects
    <3>3. Bound(d) => /\ g_maca_blas_handles[d] = [dev |-> d, stream |-> [dev |-> d]]
                      /\ Built(d)
      BY <3>1 DEF IInv, Objects
    <3> QED  BY <3>2, <3>3 DEF Built, Bound
  <2>3. \A t \in Threads : At(t, "gotCreated") => created[t] = [dev |-> target[t]]
    BY Heads DEF IInv
  <2> QED  BY <2>1, <2>2, <2>3 DEF ObjectsOnTheirDevice
<1> QED  BY <1>0, <1>1, Invariance, PTL

(* What GetStream and GetBlasHandle return is built, and a pool that is to   *)
(* be retained is retained before any caller can allocate on its stream.     *)
THEOREM ReturnedIsReady == Spec => []ReadyWhenReturned
<1>1. IInv => ReadyWhenReturned
  <2> SUFFICES ASSUME IInv, NEW t \in Threads
        PROVE  /\ At(t, "gotStream") \/ At(t, "gotHandle") => target[t] \in DOMAIN g_maca_streams
               /\ At(t, "gotStream") =>
                    /\ g_maca_streams[target[t]] # Null
                    /\ captured.retain => threshold[target[t]] = RetainedThreshold
               /\ At(t, "gotHandle") => g_maca_blas_handles[target[t]] # Null
    BY DEF ReadyWhenReturned
  <2>1. PICK d \in Devices : d = target[t]
    BY DEF IInv, Types
  <2>2. Objects /\ Place(t)
    BY DEF IInv
  <2>3. /\ At(t, "gotStream") => Ready /\ StreamDone(d)
        /\ At(t, "gotHandle") => Ready /\ HandleDone(d)
    BY <2>1, <2>2, Heads
  <2>4. Ready => DOMAIN g_maca_streams = Devices
    BY <2>2 DEF Objects, Sized
  <2>5. /\ At(t, "gotStream") => Built(d) /\ Retained(d)
        /\ At(t, "gotHandle") => Bound(d)
    BY <2>2, <2>3 DEF Objects
  <2> QED  BY <2>1, <2>3, <2>4, <2>5 DEF Built, Bound, Retained
<1> QED  BY <1>1, Invariance, PTL

(* Between its calls a thread is on the device its caller put it on, and has *)
(* no device left to go back to: every switch of the runtime is undone.      *)
THEOREM DevicesAreKept == Spec => []DeviceKept
<1>1. IInv => DeviceKept
  BY IdleAtHome DEF IInv, DeviceKept, Home
<1> QED  BY <1>1, Invariance, PTL

(* All allocations and releases use the implementation Initialize captured,  *)
(* however often --maca_multithread_workarounds is assigned, though          *)
(* MallocAsync and FreeAsync do not ask whether Initialize has run: before   *)
(* the capture the flag is not set, the other implementation needs a stream, *)
(* and no device is known for which a thread could have got one.             *)
THEOREM ModesAgree == Spec => []OneMode
<1>1. IInv => OneMode
  <2> SUFFICES ASSUME IInv PROVE Cardinality(modes) <= 1
    BY DEF OneMode
  <2> DEFINE c == captured.workarounds
  <2>1. modes \subseteq {c}
    BY DEF IInv, Objects
  <2> HIDE DEF c
  <2>2. IsFiniteSet({c}) /\ Cardinality({c}) = 1
    BY FS_Singleton
  <2>3. Cardinality(modes) <= Cardinality({c})
    BY <2>1, <2>2, FS_Subset
  <2> QED  BY <2>2, <2>3
<1> QED  BY <1>1, Invariance, PTL

(* Which function a thread is in that has its last step to make.             *)
LEMMA Whereabouts ==
    ASSUME NEW t \in Threads, Place(t)
    PROVE  /\ Owes(todo[t], "initialized") => InInitialize(t)
           /\ Owes(todo[t], "streamReady") => InStream(t) \/ InNested(t)
           /\ Owes(todo[t], "handleReady") => InNested(t) \/ InHandle(t)
<1> DEFINE Nothing == \A e \in Ends : ~Owes(todo[t], e)
<1>1. todo[t] \in {<<>>, Called} => Nothing
  BY OwesTable
<1>2. InCall(t) => Nothing
  <2>1. \A q \in Bodies \cup {CreateRests, RestoreRests, GotCreated, Back, GotStream, GotHandle} :
           \A e \in Ends : ~Owes(q, e)
    BY OwesTable
  <2> QED  BY <2>1 DEF InCall
<1>3. InInitialize(t) => ~Owes(todo[t], "streamReady") /\ ~Owes(todo[t], "handleReady")
  BY OwesTable DEF InInitialize, Ends
<1>4. /\ GotStream \in Seq(Names) /\ Handle3 \in Seq(Names)
      /\ \A e \in Ends : ~Owes(GotStream, e)
      /\ ~Owes(Handle3, "initialized") /\ ~Owes(Handle3, "streamReady")
  BY Literals, HandleTails, OwesTable DEF Ends
<1>5. InStream(t) => ~Owes(todo[t], "initialized") /\ ~Owes(todo[t], "handleReady")
  <2>1. \A e \in Ends : e # "streamReady" =>
            /\ ~Owes(Stream1(GotStream), e) /\ ~Owes(Stream2(GotStream), e) /\ ~Owes(Stream3(GotStream), e)
            /\ ~Owes(Stream4(GotStream), e) /\ ~Owes(Stream5(GotStream), e)
    BY <1>4, OwesTable
  <2> QED  BY <2>1 DEF InStream, Ends
<1>6. InNested(t) => ~Owes(todo[t], "initialized")
  <2>1. "initialized" \in Ends
    BY DEF Ends
  <2>2. /\ ~Owes(Stream1(Handle3), "initialized") /\ ~Owes(Stream2(Handle3), "initialized")
        /\ ~Owes(Stream3(Handle3), "initialized") /\ ~Owes(Stream4(Handle3), "initialized")
        /\ ~Owes(Stream5(Handle3), "initialized")
    BY <1>4, <2>1, OwesTable
  <2> QED  BY <2>2 DEF InNested
<1>7. InHandle(t) => ~Owes(todo[t], "initialized") /\ ~Owes(todo[t], "streamReady")
  BY OwesTable DEF InHandle, Ends
<1> QED  BY <1>1, <1>2, <1>3, <1>5, <1>6, <1>7 DEF Place, Ends

(* A thread that waits stands before a call_once.                            *)
LEMMA WaitsBefore ==
    ASSUME NEW t \in Threads, Waits(t)
    PROVE  Head(todo[t]) \in {"onceInitialize", "onceStream", "onceHandle"}
BY DEF Waits, At

LEMMA NotEmpty ==
    ASSUME NEW t \in Threads, NEW e \in Ends, Owes(todo[t], e)
    PROVE  todo[t] # <<>>
BY OwesTable

(* The threads that run Initialize, or build a stream, do not wait.          *)
LEMMA InitializerRuns ==
    ASSUME IInv, NEW t \in Threads, Executes(t, InitFlag)
    PROVE  todo[t] # <<>> /\ ~Waits(t)
<1>1. Place(t) /\ target[t] \in Devices
  BY DEF IInv, Types
<1>2. Owes(todo[t], "initialized")
  BY <1>1, FlagFacts DEF Executes
<1>3. InInitialize(t)
  BY <1>1, <1>2, Whereabouts
<1>4. Head(todo[t]) \in {"capture", "resize", "makeFlags", "initialized"}
  BY <1>3, AllHeads DEF InInitialize
<1> QED  BY <1>2, <1>4, WaitsBefore, NotEmpty DEF Ends

LEMMA BuilderRuns ==
    ASSUME IInv, NEW t \in Threads, NEW d \in Devices, Executes(t, StreamFlag(d))
    PROVE  todo[t] # <<>> /\ ~Waits(t)
<1>1. Place(t) /\ target[t] \in Devices
  BY DEF IInv, Types
<1>2. Owes(todo[t], "streamReady")
  BY <1>1, FlagFacts DEF Executes
<1>3. InStream(t) \/ InNested(t)
  BY <1>1, <1>2, Whereabouts
<1>4. Head(todo[t]) \in {"enter", "createDefault", "retainPool", "restore", "streamReady"}
  BY <1>3, AllHeads DEF InStream, InNested
<1> QED  BY <1>2, <1>4, WaitsBefore, NotEmpty DEF Ends

(* A thread that binds a handle may wait for its stream, whose builder runs. *)
LEMMA BinderRuns ==
    ASSUME IInv, NEW t \in Threads, NEW d \in Devices, Executes(t, HandleFlag(d))
    PROVE  \E u \in Threads : todo[u] # <<>> /\ ~Waits(u)
<1>1. Place(t) /\ target[t] \in Devices
  BY DEF IInv, Types
<1>2. Owes(todo[t], "handleReady")
  BY <1>1, FlagFacts DEF Executes
<1>3. InNested(t) \/ InHandle(t)
  BY <1>1, <1>2, Whereabouts
<1>4. Head(todo[t]) \in {"enter", "createDefault", "retainPool", "restore", "streamReady", "onceStream",
                         "createHandle", "handleReady"}
  BY <1>3, AllHeads DEF InNested, InHandle
<1>5. todo[t] # <<>>
  BY <1>2, NotEmpty DEF Ends
<1>6. CASE Waits(t)
  <2>1. once[StreamFlag(target[t])] = "running"
    BY <1>4, <1>6 DEF Waits, At
  <2>2. PICK e \in Devices : e = target[t]
    BY <1>1
  <2>3. PICK u \in Threads : Executes(u, StreamFlag(e))
    BY <2>1, <2>2, FlagFacts DEF IInv, Owners
  <2> QED  BY <2>3, BuilderRuns
<1> QED  BY <1>5, <1>6

(* While a thread waits for a call_once, some thread in a call does not:     *)
(* Initialize, InitSingleStream and InitSingleHandle, nested as they are,    *)
(* never leave all threads waiting for each other.                           *)
THEOREM NobodyIsStuck == Spec => []SomeoneRuns
<1>1. IInv => SomeoneRuns
  <2> SUFFICES ASSUME IInv, NEW t \in Threads, Waits(t)
               PROVE  \E u \in Threads : todo[u] # <<>> /\ ~Waits(u)
    BY DEF SomeoneRuns
  <2>1. PICK d \in Devices : d = target[t]
    BY DEF IInv, Types
  <2>2. CASE once[InitFlag] = "running"
    <3>1. PICK u \in Threads : Executes(u, InitFlag)
      BY <2>2, FlagFacts DEF IInv, Owners
    <3> QED  BY <3>1, InitializerRuns
  <2>3. CASE once[StreamFlag(d)] = "running"
    <3>1. PICK u \in Threads : Executes(u, StreamFlag(d))
      BY <2>3, FlagFacts DEF IInv, Owners
    <3> QED  BY <3>1, BuilderRuns
  <2>4. CASE once[HandleFlag(d)] = "running"
    <3>1. PICK u \in Threads : Executes(u, HandleFlag(d))
      BY <2>4, FlagFacts DEF IInv, Owners
    <3> QED  BY <3>1, BinderRuns
  <2> QED  BY <2>1, <2>2, <2>3, <2>4 DEF Waits
<1> QED  BY <1>1, Invariance, PTL
===============================================================================
