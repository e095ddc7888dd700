---------------------------- MODULE Base64Proofs ----------------------------
(***************************************************************************)
(* Proofs about Base64, for any texts and any number of results: answers   *)
(* have every result in its turn, the name of an image is made from the    *)
(* blocks of RFC 1321, a request gives back its memory, and an image is    *)
(* read as it was meant.                                                   *)
(***************************************************************************)
EXTENDS Base64Texts, SequenceTheorems, WellFoundedInduction, TLAPS

-----------------------------------------------------------------------------
(* Induction, with a set in the place of a property *)

LEMMA SetInduction ==
  ASSUME NEW S, 0 \in S, \A n \in Nat : n \in S => n + 1 \in S
  PROVE  \A n \in Nat : n \in S
  <1> DEFINE T == Nat \ S
             R == OpToRel(<, Nat)
  <1>1. SUFFICES ASSUME T # {} PROVE FALSE
    OBVIOUS
  <1>2. IsWellFoundedOn(R, Nat)
    BY NatLessThanWellFounded
  <1>3. PICK x \in T : \A y \in T : ~(<<y, x>> \in R)
    <2>1. T \subseteq Nat
      OBVIOUS
    <2> HIDE DEF R, T
    <2>2. QED
      BY <1>1, <1>2, <2>1, WFMin
  <1>4. x \in Nat /\ x # 0
    OBVIOUS
  <1>5. x - 1 \in T
    <2>1. x - 1 \in Nat /\ (x - 1) + 1 = x
      BY <1>4
    <2>2. QED
      BY <2>1
  <1>6. <<x - 1, x>> \in R
    BY <1>4, <1>5 DEF OpToRel
  <1>7. QED
    BY <1>3, <1>5, <1>6

-----------------------------------------------------------------------------
(* The list of results and the memory of a request *)

\* What addHead leaves: the last result first.
ListInv ==
  /\ DOMAIN infos = 1..Len(infos) /\ Len(infos) \in 0..(MaxResults + 1)
  /\ list = Reverse([i \in DOMAIN infos |-> i])

\* What is not a piece of a list, and what x_multipart_parse may leave of it.
Buffers == {Temp, Buff, Pattern, Parser, Arg, FormList}
Besides == heap \intersect Buffers
LostForm == IF "unparsed" \in losses THEN {FormList, Parser} ELSE {}
LostNodes == IF "overwritten" \in losses THEN Nodes ELSE {}

\* A request that is read has its buffers, and nothing else.
ReadInv ==
  /\ pc = "idle" => heap \subseteq LostNodes \union LostForm
  /\ pc = "decode" => heap = {Temp} /\ pointers = {Temp}
  /\ pc = "save" => heap = {Temp, Buff} /\ pointers = {Temp, Buff}

\* While results go into the array, the infos that have not are in memory.
OperateInv ==
  pc = "operate" =>
    /\ pointers \subseteq Besides /\ Besides \subseteq pointers \union LostForm
    /\ heap = Besides \union {List} \union {Node(i) : i \in 1..Len(infos)}
                   \union {Info(i) : i \in 1..(Len(infos) + 1 - at)}
    /\ array = [k \in 1..(at - 1) |-> infos[Len(infos) + 1 - k]]

\* Behind it there are, besides list and buffers, the nodes that are still to be
\* freed, and what was lost.
ToFree == {Node(i) : i \in 1..(Len(infos) + 1 - at)}

FreeInv ==
  /\ pc = "free" =>
       /\ ToFree \subseteq heap /\ List \in heap
       /\ heap \subseteq pointers \union {List} \union ToFree \union LostNodes
                         \union LostForm
  /\ pc = "reply" => heap \subseteq pointers \union LostNodes \union LostForm
  /\ pc \in {"free", "reply"} =>
       /\ pointers \subseteq heap /\ pointers \subseteq Buffers \union {Ret}
       /\ array = Reverse(infos)

MemoryInv ==
  /\ ListInv /\ at \in 1..(Len(infos) + 1)
  /\ ReadInv /\ OperateInv /\ FreeInv
  /\ twice = {}

\* Pieces of memory differ.
LEMMA PiecesDiffer ==
  /\ \A i, j : Node(i) = Node(j) => i = j
  /\ \A i, j : Info(i) = Info(j) => i = j
  /\ \A i, j : Node(i) # Info(j)
  /\ \A i : {Node(i), Info(i)} \intersect (Buffers \union {List, Ret}) = {}
  /\ List \notin Buffers \union {Ret} /\ Ret \notin Buffers /\ Temp # Buff
  BY DEF Node, Info, List, Ret, Buffers, Temp, Buff, Pattern, Parser, Arg, FormList

\* The node in the k-th place is that of the k-th result from the end.
LEMMA ListPlaces ==
  ASSUME ListInv
  PROVE  /\ Len(infos) \in Nat /\ Len(list) = Len(infos)
         /\ \A k \in 1..Len(infos) : list[k] = Len(infos) + 1 - k
  <1> DEFINE n == Len(infos)
             ids == [i \in DOMAIN infos |-> i]
  <1>1. n \in Nat /\ DOMAIN infos = 1..n /\ list = Reverse(ids)
    BY MaxResultsAssumption DEF ListInv
  <1>2. Len(ids) = n /\ \A i \in 1..n : ids[i] = i
    BY <1>1
  <1> HIDE DEF n, ids
  <1>3. list = [k \in 1..n |-> ids[(n - k) + 1]]
    BY <1>1, <1>2 DEF Reverse
  <1>4. ASSUME NEW k \in 1..n PROVE list[k] = n + 1 - k
    <2>1. (n - k) + 1 \in 1..n /\ (n - k) + 1 = n + 1 - k
      BY <1>1
    <2>2. QED
      BY <1>2, <1>3, <2>1
  <1>5. Len(list) = n
    BY <1>1, <1>3
  <1>6. QED
    BY <1>1, <1>4, <1>5 DEF n

LEMMA InitMemory == Init => MemoryInv
  <1> SUFFICES ASSUME Init PROVE MemoryInv
    OBVIOUS
  <1>1. infos = <<>> /\ list = <<>> /\ at = 1 /\ pc = "idle"
        /\ heap = {} /\ pointers = {} /\ twice = {}
    BY DEF Init
  <1>2. ListInv
    <2>1. DOMAIN infos = {} /\ Len(infos) = 0
      BY <1>1
    <2>2. Reverse([i \in DOMAIN infos |-> i]) = <<>>
      BY <2>1 DEF Reverse
    <2>3. QED
      BY <1>1, <2>1, <2>2, MaxResultsAssumption DEF ListInv
  <1>3. QED
    BY <1>1, <1>2 DEF MemoryInv, ReadInv, OperateInv, FreeInv

\* A list is made of no more results than there are nodes for.
LEMMA MakeListMemory ==
  ASSUME NEW results, NEW rest,
         DOMAIN results = 1..Len(results), Len(results) \in 0..(MaxResults + 1),
         MakeList(results, rest), rest \subseteq Buffers, pointers' \subseteq rest,
         rest \subseteq pointers' \union LostForm', twice' = {}
  PROVE  MemoryInv'
  <1>1. /\ infos' = results /\ list' = Reverse([i \in DOMAIN results |-> i])
        /\ at' = 1 /\ array' = <<>> /\ pc' = "operate"
        /\ heap' = rest \union {List} \union {Node(i) : i \in DOMAIN results}
                        \union {Info(i) : i \in DOMAIN results}
    BY DEF MakeList
  <1>2. Len(results) \in Nat
    BY MaxResultsAssumption
  <1>3. ListInv'
    BY <1>1 DEF ListInv
  <1>4. OperateInv'
    <2>1. 1..(Len(infos') + 1 - at') = DOMAIN results /\ 1..Len(infos') = DOMAIN results
      BY <1>1, <1>2
    <2>2. array' = [k \in 1..(at' - 1) |-> infos'[Len(infos') + 1 - k]]
      BY <1>1
    <2>3. Besides' = rest
      BY <1>1, PiecesDiffer DEF Besides
    <2>4. QED
      BY <1>1, <2>1, <2>2, <2>3 DEF OperateInv
  <1>5. ReadInv' /\ FreeInv' /\ at' \in 1..(Len(infos') + 1)
    BY <1>1, <1>2 DEF ReadInv, FreeInv
  <1>6. QED
    BY <1>3, <1>4, <1>5 DEF MemoryInv

\* Nothing that is allocated once is freed twice.
LEMMA FreePieces ==
  ASSUME NEW ms, ms \subseteq heap, Free(ms), twice = {}
  PROVE  heap' = heap \ ms /\ twice' = {}
  BY DEF Free

\* Requests arrive, and are refused, decoded and saved.
LEMMA ReadMemory ==
  ASSUME MemoryInv, ReceiveText \/ ReceiveOther \/ Decode \/ Save
  PROVE  MemoryInv'
  <1>1. twice = {}
    BY DEF MemoryInv
  <1>2. CASE ReceiveText
    <2>1. /\ pc = "idle" /\ pc' = "decode" /\ UNCHANGED <<infos, list, at, twice>>
          /\ heap' = {Temp} /\ pointers' = {Temp}
      BY <1>2 DEF ReceiveText
    <2>3. ListInv' /\ at' \in 1..(Len(infos') + 1)
      BY <2>1 DEF MemoryInv, ListInv
    <2>4. ReadInv' /\ OperateInv' /\ FreeInv'
      BY <2>1 DEF ReadInv, OperateInv, FreeInv, Temp
    <2>5. QED
      BY <1>1, <2>1, <2>3, <2>4 DEF MemoryInv
  <1>a. DOMAIN <<>> = 1..Len(<<>>) /\ Len(<<>>) \in 0..(MaxResults + 1)
    BY MaxResultsAssumption
  <1>3. CASE ReceiveOther
    <2>1. CASE ReceiveRefused
      <3>1. PICK rest \in SUBSET {Buff} : MakeList(<<>>, rest) /\ pointers' = rest
        BY <2>1 DEF ReceiveRefused
      <3>2. rest \subseteq Buffers /\ twice' = {}
        BY <1>1, <2>1 DEF ReceiveRefused, Buffers
      <3>3. QED
        BY <1>a, <3>1, <3>2, MakeListMemory
    <2>2. CASE ReceiveUpload
      <3>1. PICK n \in 0..MaxResults : \E codes \in [1..n -> {200, 201}] :
              \E rest \in {{Buff}, {Buff, Pattern, Parser, Arg}} :
                MakeList([i \in 1..n |-> Result(codes[i], <<>>)], rest) /\ pointers' = rest
        BY <2>2 DEF ReceiveUpload
      <3>2. PICK codes \in [1..n -> {200, 201}],
                 rest \in {{Buff}, {Buff, Pattern, Parser, Arg}} :
              MakeList([i \in 1..n |-> Result(codes[i], <<>>)], rest) /\ pointers' = rest
        BY <3>1
      <3>3. PICK results : results = [i \in 1..n |-> Result(codes[i], <<>>)]
        OBVIOUS
      <3>4. DOMAIN results = 1..Len(results) /\ Len(results) \in 0..(MaxResults + 1)
        BY <3>3, MaxResultsAssumption
      <3>5. rest \subseteq Buffers /\ twice' = {}
        BY <1>1, <2>2 DEF ReceiveUpload, Buffers
      <3>6. QED
        BY <3>2, <3>3, <3>4, <3>5, MakeListMemory
    <2>3. CASE ReceiveUnparsed
      <3>1. PICK parser \in SUBSET {Parser} : MakeList(<<>>, {Buff, FormList} \union parser)
        BY <2>3 DEF ReceiveUnparsed
      <3>2. PICK rest : rest = {Buff, FormList} \union parser
        OBVIOUS
      <3>3. rest \subseteq Buffers /\ rest \subseteq pointers' \union LostForm'
            /\ pointers' \subseteq rest /\ twice' = {}
        BY <1>1, <2>3, <3>2 DEF ReceiveUnparsed, Buffers, LostForm
      <3>4. QED
        BY <1>a, <3>1, <3>2, <3>3, MakeListMemory
    <2>4. CASE ReceiveFatal
      BY <2>4 DEF ReceiveFatal, MemoryInv, ListInv, ReadInv, OperateInv, FreeInv
    <2>5. QED
      BY <1>3, <2>1, <2>2, <2>3, <2>4 DEF ReceiveOther
  <1>4. ASSUME Refuse, heap = pointers PROVE MemoryInv'
    <2>1. MakeList(<<>>, {}) /\ pointers' = {} /\ twice' = {}
      BY <1>1, <1>4 DEF Refuse
    <2>2. QED
      BY <1>a, <2>1, MakeListMemory
  <1>5. CASE Decode
    <2>1. pc = "decode" /\ heap = {Temp} /\ pointers = {Temp}
      BY <1>5 DEF Decode, MemoryInv, ReadInv
    <2>2. CASE /\ heap' = heap \union {Buff} /\ pointers' = pointers \union {Buff}
               /\ pc' = "save" /\ UNCHANGED <<infos, list, at, twice>>
      <3>1. ListInv' /\ at' \in 1..(Len(infos') + 1)
        BY <2>2 DEF MemoryInv, ListInv
      <3>2. ReadInv' /\ OperateInv' /\ FreeInv'
        BY <2>1, <2>2 DEF ReadInv, OperateInv, FreeInv, Temp, Buff
      <3>3. QED
        BY <1>1, <2>2, <3>1, <3>2 DEF MemoryInv
    <2>3. QED
      BY <1>4, <1>5, <2>1, <2>2 DEF Decode
  <1>6. CASE Save
    <2>1. pc = "save" /\ heap = {Temp, Buff} /\ pointers = {Temp, Buff}
      BY <1>6 DEF Save, MemoryInv, ReadInv
    <2>2. CASE MakeList(<<Result(200, Digest(buff))>>, heap) /\ UNCHANGED <<pointers, twice>>
      <3>1. PICK results : results = <<Result(200, Digest(buff))>>
        OBVIOUS
      <3>2. DOMAIN results = 1..Len(results) /\ Len(results) \in 0..(MaxResults + 1)
        BY <3>1, MaxResultsAssumption
      <3>3. pointers' = heap /\ heap \subseteq Buffers /\ twice' = {}
        BY <1>1, <2>1, <2>2 DEF Buffers
      <3>4. QED
        BY <2>2, <3>1, <3>2, <3>3, MakeListMemory
    <2>3. QED
      BY <1>4, <1>6, <2>1, <2>2 DEF Save
  <1>7. QED
    BY <1>2, <1>3, <1>5, <1>6

\* Each info is freed once, when its result is in the array.
LEMMA OperateMemory ==
  ASSUME MemoryInv, Operate \/ PrintJson
  PROVE  MemoryInv'
  <1> DEFINE n == Len(infos)
  <1>1. /\ pc = "operate" /\ UNCHANGED <<infos, list>> /\ twice = {}
        /\ at \in 1..(n + 1)
        /\ ListInv /\ OperateInv
    BY DEF Operate, PrintJson, MemoryInv
  <1>2. /\ n \in Nat /\ Len(list) = n /\ \A k \in 1..n : list[k] = n + 1 - k
    BY <1>1, ListPlaces
  <1>3. /\ pointers \subseteq Besides /\ Besides \subseteq pointers \union LostForm
        /\ heap = Besides \union {List} \union {Node(i) : i \in 1..n}
                       \union {Info(i) : i \in 1..(n + 1 - at)}
        /\ array = [k \in 1..(at - 1) |-> infos[n + 1 - k]]
    BY <1>1 DEF OperateInv
  <1>4. ListInv' /\ Len(infos') = n
    BY <1>1 DEF ListInv
  <1>5. CASE Operate
    <2>1. /\ at <= n /\ at' = at + 1 /\ UNCHANGED <<pc, pointers, losses>>
          /\ array' = Append(array, infos[list[at]]) /\ Free({Info(list[at])})
      BY <1>2, <1>5 DEF Operate
    <2>2. list[at] = n + 1 - at /\ n + 1 - at \in 1..n
      BY <1>1, <1>2, <2>1
    <2>3. Info(n + 1 - at) \in heap
      BY <1>1, <1>2, <1>3, <2>2
    <2>4. heap' = heap \ {Info(n + 1 - at)} /\ twice' = {}
      BY <1>1, <2>1, <2>2, <2>3, FreePieces
    <2>5. {Info(i) : i \in 1..(n + 1 - at)} \ {Info(n + 1 - at)}
            = {Info(i) : i \in 1..(n + 1 - at')}
      <3>1. 1..(n + 1 - at') = (1..(n + 1 - at)) \ {n + 1 - at}
        BY <1>1, <1>2, <2>1, <2>2
      <3>2. QED
        BY <3>1, PiecesDiffer
    <2>6. /\ heap' = Besides' \union {List} \union {Node(i) : i \in 1..n}
                           \union {Info(i) : i \in 1..(n + 1 - at')}
          /\ Besides' = Besides /\ LostForm' = LostForm
      <3>1. Info(n + 1 - at) \notin Buffers \union {List} \union {Node(i) : i \in 1..n}
        BY PiecesDiffer
      <3>2. Besides' = Besides /\ Besides \subseteq Buffers
        BY <2>4, <3>1 DEF Besides
      <3>3. LostForm' = LostForm
        BY <2>1 DEF LostForm
      <3>4. QED
        BY <1>3, <2>4, <2>5, <3>1, <3>2, <3>3
    <2>7. array' = [k \in 1..(at' - 1) |-> infos[n + 1 - k]]
      <3>1. PICK S : S = {infos[i] : i \in 1..n}
        OBVIOUS
      <3>2. \A k \in 1..at : n + 1 - k \in 1..n
        BY <1>1, <1>2, <2>1
      <3>3. array \in Seq(S) /\ Len(array) = at - 1
        <4>1. at - 1 \in Nat
          BY <1>1
        <4>2. \A k \in 1..(at - 1) : infos[n + 1 - k] \in S
          BY <1>1, <3>1, <3>2
        <4>3. PICK m : m = at - 1
          OBVIOUS
        <4>4. array = [k \in 1..m |-> infos[n + 1 - k]]
          BY <1>3, <4>3
        <4>5. array \in Seq(S) /\ Len(array) = m
          BY <4>1, <4>2, <4>3, <4>4
        <4>6. QED
          BY <4>3, <4>5
      <3>4. infos[n + 1 - at] \in S
        BY <3>1, <3>2, <2>2
      <3>5. array' = [k \in 1..at |-> IF k = at THEN infos[n + 1 - at] ELSE array[k]]
        BY <1>1, <2>1, <2>2, <3>3, <3>4
      <3>6. \A k \in 1..at : (IF k = at THEN infos[n + 1 - at] ELSE array[k]) = infos[n + 1 - k]
        <4>1. \A k \in 1..at : k # at => k \in 1..(at - 1)
          BY <1>1
        <4>2. QED
          BY <1>3, <4>1
      <3>7. at' - 1 = at
        BY <1>1, <2>1
      <3>8. QED
        BY <3>5, <3>6, <3>7
    <2>8. OperateInv' /\ at' \in 1..(Len(infos') + 1)
      BY <1>1, <1>2, <1>3, <1>4, <2>1, <2>6, <2>7 DEF OperateInv
    <2>9. ReadInv' /\ FreeInv'
      BY <1>1, <2>1 DEF ReadInv, FreeInv
    <2>10. QED
      BY <1>4, <2>4, <2>8, <2>9 DEF MemoryInv
  <1>6. CASE PrintJson
    <2>1. /\ at = n + 1 /\ at' = 1 /\ pc' = "free" /\ UNCHANGED <<array, twice, losses>>
          /\ heap' = heap \union {Ret} /\ pointers' = pointers \union {Ret}
      BY <1>1, <1>2, <1>6 DEF PrintJson
    <2>2. 1..(n + 1 - at) = {} /\ 1..(n + 1 - at') = 1..n
      BY <1>2, <2>1
    <2>3. heap = Besides \union {List} \union {Node(i) : i \in 1..n}
      BY <1>3, <2>2
    <2>4. ToFree' = {Node(i) : i \in 1..n} /\ LostForm' = LostForm
          /\ Besides \subseteq Buffers
      BY <1>4, <2>1, <2>2 DEF ToFree, LostForm, Besides
    <2>5. array' = Reverse(infos')
      <3>1. array = [k \in 1..n |-> infos[n + 1 - k]]
        BY <1>2, <1>3, <2>1
      <3>2. \A k \in 1..n : n + 1 - k = (n - k) + 1
        BY <1>2
      <3>3. QED
        BY <1>1, <2>1, <3>1, <3>2 DEF Reverse
    <2>6. FreeInv'
      BY <1>3, <1>4, <2>1, <2>2, <2>3, <2>4, <2>5 DEF FreeInv
    <2>7. ReadInv' /\ OperateInv' /\ at' \in 1..(Len(infos') + 1)
      BY <1>2, <1>4, <2>1 DEF ReadInv, OperateInv
    <2>8. QED
      BY <1>1, <1>4, <2>1, <2>6, <2>7 DEF MemoryInv
  <1>7. QED
    BY <1>5, <1>6

\* freeLinkedList frees each node once, or loses what is behind one; the
\* callback frees the rest.
LEMMA FreeMemory ==
  ASSUME MemoryInv, FreeNode \/ FreeList \/ Reply
  PROVE  MemoryInv'
  <1> DEFINE n == Len(infos)
  <1>1. twice = {} /\ at \in 1..(n + 1) /\ ListInv /\ FreeInv
    BY DEF MemoryInv
  <1>a. LostForm \subseteq Buffers
    BY DEF LostForm, Buffers
  <1>2. /\ n \in Nat /\ Len(list) = n /\ \A k \in 1..n : list[k] = n + 1 - k
    BY <1>1, ListPlaces
  <1>3. CASE FreeNode
    <2>1. /\ pc = "free" /\ at <= n /\ UNCHANGED <<infos, list, array, pointers>>
          /\ Free({Node(list[at])})
          /\ \/ pc' = "free" /\ at' = at + 1 /\ losses' = losses
             \/ pc' = "free" /\ at' = n + 1 /\ losses' = losses \union {"overwritten"}
             \/ pc' = "dead" /\ at' = at
      BY <1>2, <1>3 DEF FreeNode
    <2>2. /\ ToFree \subseteq heap /\ List \in heap
          /\ heap \subseteq pointers \union {List} \union ToFree \union LostNodes
                            \union LostForm
          /\ pointers \subseteq heap /\ pointers \subseteq Buffers \union {Ret}
          /\ array = Reverse(infos)
      BY <1>1, <2>1 DEF FreeInv
    <2>3. list[at] = n + 1 - at /\ n + 1 - at \in 1..(n + 1 - at)
      BY <1>1, <1>2, <2>1
    <2>4. heap' = heap \ {Node(n + 1 - at)} /\ twice' = {}
      <3>1. Node(n + 1 - at) \in ToFree
        BY <2>3 DEF ToFree
      <3>2. QED
        BY <1>1, <2>1, <2>2, <2>3, <3>1, FreePieces
    <2>5. ListInv' /\ Len(infos') = n /\ at' \in 1..(n + 1)
      BY <1>1, <1>2, <2>1 DEF ListInv
    <2>6. ASSUME pc' = "free"
          PROVE  /\ ToFree' \subseteq heap'
                 /\ heap' \subseteq pointers \union {List} \union ToFree'
                                    \union LostNodes' \union LostForm'
      <3>1. ToFree' = {Node(i) : i \in 1..(n + 1 - at')}
        BY <2>5 DEF ToFree
      <3>2. LostForm' = LostForm /\ LostNodes \subseteq LostNodes'
        BY <2>1, <2>6 DEF LostForm, LostNodes, Nodes
      <3>3. CASE at' = at + 1
        <4>1. 1..(n + 1 - at') = (1..(n + 1 - at)) \ {n + 1 - at}
          BY <1>1, <1>2, <2>1, <3>3
        <4>2. ToFree' = ToFree \ {Node(n + 1 - at)}
          BY <3>1, <4>1, PiecesDiffer DEF ToFree
        <4>3. QED
          BY <2>2, <2>4, <3>2, <4>2
      <3>4. CASE at' = n + 1 /\ losses' = losses \union {"overwritten"}
        <4>1. ToFree' = {}
          BY <1>2, <3>1, <3>4
        <4>2. 1..(n + 1 - at) \subseteq 1..(MaxResults + 1)
          BY <1>1, <1>2, MaxResultsAssumption DEF ListInv
        <4>3. ToFree \subseteq Nodes
          BY <4>2 DEF ToFree, Nodes
        <4>4. LostNodes' = Nodes
          BY <3>4 DEF LostNodes, Nodes
        <4>5. QED
          BY <2>2, <2>4, <3>2, <4>1, <4>3, <4>4
      <3>5. QED
        BY <2>1, <2>6, <3>3, <3>4
    <2>7. List \in heap' /\ pointers' \subseteq heap'
      BY <2>1, <2>2, <2>4, PiecesDiffer
    <2>8. FreeInv'
      BY <2>1, <2>2, <2>6, <2>7 DEF FreeInv
    <2>9. ReadInv' /\ OperateInv'
      BY <2>1 DEF ReadInv, OperateInv
    <2>10. QED
      BY <2>4, <2>5, <2>8, <2>9 DEF MemoryInv
  <1>4. CASE FreeList
    <2>1. /\ pc = "free" /\ pc' = "reply"
          /\ UNCHANGED <<infos, list, at, array, pointers, losses>>
          /\ at > n /\ Free({List})
      BY <1>2, <1>4 DEF FreeList
    <2>2. /\ List \in heap
          /\ heap \subseteq pointers \union {List} \union ToFree \union LostNodes
                            \union LostForm
          /\ pointers \subseteq heap /\ pointers \subseteq Buffers \union {Ret}
          /\ array = Reverse(infos)
      BY <1>1, <2>1 DEF FreeInv
    <2>3. heap' = heap \ {List} /\ twice' = {}
      BY <1>1, <2>1, <2>2, FreePieces
    <2>4. ListInv' /\ at' \in 1..(Len(infos') + 1)
      BY <1>1, <2>1 DEF ListInv
    <2>5. /\ pointers' \subseteq heap'
          /\ heap' \subseteq pointers' \union LostNodes' \union LostForm'
      <3>1. ToFree = {}
        <4>1. 1..(n + 1 - at) = {}
          BY <1>1, <1>2, <2>1
        <4>2. QED
          BY <4>1 DEF ToFree
      <3>2. LostForm' = LostForm /\ LostNodes' = LostNodes
        BY <2>1 DEF LostForm, LostNodes, Nodes
      <3>3. QED
        BY <2>1, <2>2, <2>3, <3>1, <3>2, PiecesDiffer
    <2>6. FreeInv' /\ ReadInv' /\ OperateInv'
      BY <2>1, <2>2, <2>5 DEF FreeInv, ReadInv, OperateInv
    <2>7. QED
      BY <2>3, <2>4, <2>6 DEF MemoryInv
  <1>5. CASE Reply
    <2>1. /\ pc = "reply" /\ pc' = "idle" /\ infos' = <<>> /\ list' = <<>> /\ at' = 1
          /\ Free(pointers) /\ losses' = losses
      BY <1>5 DEF Reply
    <2>2. /\ pointers \subseteq heap
          /\ heap \subseteq pointers \union LostNodes \union LostForm
      BY <1>1, <2>1 DEF FreeInv
    <2>3. heap' \subseteq LostNodes' \union LostForm' /\ twice' = {}
      <3>1. heap' = heap \ pointers /\ twice' = {}
        BY <1>1, <2>1, <2>2, FreePieces
      <3>2. LostForm' = LostForm /\ LostNodes' = LostNodes
        BY <2>1 DEF LostForm, LostNodes, Nodes
      <3>3. QED
        BY <2>2, <3>1, <3>2
    <2>4. ListInv'
      <3>1. DOMAIN infos' = {} /\ Len(infos') = 0
        BY <2>1
      <3>2. Reverse([i \in DOMAIN infos' |-> i]) = <<>>
        BY <3>1 DEF Reverse
      <3>3. QED
        BY <2>1, <3>1, <3>2, MaxResultsAssumption DEF ListInv
    <2>5. ReadInv' /\ OperateInv' /\ FreeInv' /\ at' \in 1..(Len(infos') + 1)
      BY <2>1, <2>3 DEF ReadInv, OperateInv, FreeInv
    <2>6. QED
      BY <2>3, <2>4, <2>5 DEF MemoryInv
  <1>6. QED
    BY <1>3, <1>4, <1>5

LEMMA NextMemory == MemoryInv /\ [Next]_vars => MemoryInv'
  <1> SUFFICES ASSUME MemoryInv, [Next]_vars PROVE MemoryInv'
    OBVIOUS
  <1>1. CASE Next
    BY <1>1, ReadMemory, OperateMemory, FreeMemory DEF Next, Work
  <1>2. CASE UNCHANGED vars
    BY <1>2 DEF vars, MemoryInv, ListInv, ReadInv, OperateInv, FreeInv, Nodes, Besides,
                LostForm, LostNodes, ToFree
  <1>3. QED
    BY <1>1, <1>2

LEMMA MemoryHolds == Spec => []MemoryInv
  BY InitMemory, NextMemory, PTL DEF Spec

\* For any texts and any number of results a request frees nothing twice, and
\* gives back all the memory that it took, but for the nodes behind one that free
\* has written over, and for the list and the parser of a form that
\* x_multipart_parse has given up.
THEOREM MemoryReturned == Spec => []MemoryGivenBack
  <1>1. MemoryInv => MemoryGivenBack
    BY DEF MemoryInv, ReadInv, MemoryGivenBack, LostNodes, LostForm
  <1>2. QED
    BY <1>1, MemoryHolds, PTL

-----------------------------------------------------------------------------
(* Texts: what the recursive functions give is a sequence of bytes *)

Byte == 0..255

\* One turn of url_decode's loop at i, given what it makes of the rest.
UrlHex(str, i) == i <= Len(str) /\ HexValue(str[i]) >= 0
UrlTurn(str, from, i) ==
  IF i > Len(str) THEN <<>>
  ELSE IF str[i] # 37 \/ i = Len(str) THEN <<str[i]>> \o from[i + 1]
  ELSE IF UrlHex(str, i + 1) /\ UrlHex(str, i + 2)
  THEN <<(HexValue(str[i + 1]) * 16) + HexValue(str[i + 2])>> \o from[i + 3]
  ELSE from[i + 1]
UrlFrom(str) ==
  CHOOSE from : from = [i \in 1..(Len(str) + 1) |-> UrlTurn(str, from, i)]

LEMMA UrlDecodeIs ==
  ASSUME NEW str
  PROVE  url_decode(str) = UrlFrom(str)[1]
  BY DEF url_decode, UrlFrom, UrlTurn, UrlHex

LEMMA HexValueType == \A ch \in Byte : HexValue(ch) \in -1..15
  BY DEF HexValue, Byte

\* A turn looks only at what is behind it, and makes bytes of bytes.
LEMMA UrlTurnType ==
  ASSUME NEW str \in Seq(Byte), NEW from, NEW i \in 1..(Len(str) + 1),
         \A j \in 1..(Len(str) + 1) : j > i => from[j] \in Seq(Byte)
  PROVE  UrlTurn(str, from, i) \in Seq(Byte)
  <1>1. Len(str) \in Nat /\ \A j \in 1..Len(str) : str[j] \in Byte
    OBVIOUS
  <1>2. CASE i > Len(str)
    BY <1>2 DEF UrlTurn
  <1>3. CASE i <= Len(str)
    <2>1. i + 1 \in 1..(Len(str) + 1) /\ from[i + 1] \in Seq(Byte) /\ str[i] \in Byte
      BY <1>1, <1>3
    <2>2. <<str[i]>> \o from[i + 1] \in Seq(Byte)
      BY <2>1
    <2>3. ASSUME UrlHex(str, i + 1), UrlHex(str, i + 2)
          PROVE  <<(HexValue(str[i + 1]) * 16) + HexValue(str[i + 2])>> \o from[i + 3] \in Seq(Byte)
      <3>1. PICK x, y : x = HexValue(str[i + 1]) /\ y = HexValue(str[i + 2])
        OBVIOUS
      <3>2. i + 2 <= Len(str) /\ x >= 0 /\ y >= 0
        BY <2>3, <3>1 DEF UrlHex
      <3>a. i + 1 \in 1..Len(str) /\ i + 2 \in 1..Len(str)
        BY <1>1, <3>2
      <3>b. x \in -1..15 /\ y \in -1..15
        BY <1>1, <3>1, <3>a, HexValueType
      <3>c. (x * 16) + y \in Byte
        BY <3>2, <3>b DEF Byte
      <3>3. from[i + 3] \in Seq(Byte)
        BY <1>1, <3>a
      <3>4. QED
        BY <3>1, <3>c, <3>3
    <2>4. QED
      BY <1>1, <1>3, <2>1, <2>2, <2>3 DEF UrlTurn
  <1>4. QED
    BY <1>1, <1>2, <1>3

LEMMA UrlTurnLooksBehind ==
  ASSUME NEW str \in Seq(Byte), NEW f, NEW g, NEW i \in 1..(Len(str) + 1),
         \A j \in 1..(Len(str) + 1) : j > i => f[j] = g[j]
  PROVE  UrlTurn(str, f, i) = UrlTurn(str, g, i)
  <1>1. Len(str) \in Nat
    OBVIOUS
  <1>2. i <= Len(str) => f[i + 1] = g[i + 1]
    BY <1>1
  <1>3. UrlHex(str, i + 2) => f[i + 3] = g[i + 3]
    BY <1>1 DEF UrlHex
  <1>4. QED
    BY <1>1, <1>2, <1>3 DEF UrlTurn

\* There is a function that obeys the recursion: it is built from the end.
LEMMA UrlFromExists ==
  ASSUME NEW str \in Seq(Byte)
  PROVE  /\ DOMAIN UrlFrom(str) = 1..(Len(str) + 1)
         /\ \A i \in 1..(Len(str) + 1) : UrlFrom(str)[i] = UrlTurn(str, UrlFrom(str), i)
  <1> DEFINE D == 1..(Len(str) + 1)
             Obeys(f, m) == \A i \in D : i > Len(str) + 1 - m => f[i] = UrlTurn(str, f, i)
             S == {m \in Nat : \E f : DOMAIN f = D /\ f = [i \in D |-> f[i]] /\ Obeys(f, m)}
  <1>1. Len(str) \in Nat
    OBVIOUS
  <1>2. 0 \in S
    <2>1. PICK f : f = [i \in D |-> <<>>]
      OBVIOUS
    <2>2. DOMAIN f = D /\ f = [i \in D |-> f[i]] /\ Obeys(f, 0)
      BY <1>1, <2>1
    <2>3. QED
      BY <2>2
  <1>3. ASSUME NEW m \in Nat, m \in S PROVE m + 1 \in S
    <2>1. PICK f : DOMAIN f = D /\ f = [i \in D |-> f[i]] /\ Obeys(f, m)
      BY <1>3
    <2> DEFINE j == Len(str) + 1 - m
    <2>2. CASE j \in D
      <3>1. PICK g : g = [f EXCEPT ![j] = UrlTurn(str, f, j)]
        OBVIOUS
      <3>2. DOMAIN g = D /\ g = [i \in D |-> g[i]] /\ g[j] = UrlTurn(str, f, j)
            /\ \A i \in D : i # j => g[i] = f[i]
        BY <2>1, <2>2, <3>1
      <3>3. ASSUME NEW i \in D, i > Len(str) + 1 - (m + 1) PROVE g[i] = UrlTurn(str, g, i)
        <4>1. i >= j
          BY <1>1, <3>3
        <4>2. \A k \in D : k > i => f[k] = g[k]
          BY <1>1, <3>2, <4>1
        <4>3. UrlTurn(str, f, i) = UrlTurn(str, g, i)
          BY <4>2, UrlTurnLooksBehind
        <4>4. g[i] = UrlTurn(str, f, i)
          BY <1>1, <2>1, <3>2, <4>1
        <4>5. QED
          BY <4>3, <4>4
      <3>4. QED
        BY <3>2, <3>3, SMTT(20)
    <2>3. CASE j \notin D
      <3>1. j < 1
        BY <1>1, <2>3
      <3>2. ASSUME NEW i \in D, i > Len(str) + 1 - (m + 1) PROVE f[i] = UrlTurn(str, f, i)
        BY <1>1, <2>1, <3>1
      <3>3. Obeys(f, m + 1)
        BY <3>2
      <3>4. QED
        <4> HIDE DEF Obeys
        <4>1. DOMAIN f = D /\ f = [i \in D |-> f[i]]
          BY <2>1
        <4>2. QED
          BY <3>3, <4>1
    <2>4. QED
      BY <2>2, <2>3
  <1>4. Len(str) + 1 \in S
    <2> HIDE DEF S
    <2>1. \A n \in Nat : n \in S
      BY <1>2, <1>3, SetInduction
    <2>2. QED
      BY <1>1, <2>1
  <1>5. PICK f : DOMAIN f = D /\ f = [i \in D |-> f[i]] /\ Obeys(f, Len(str) + 1)
    BY <1>4
  <1>6. f = [i \in D |-> UrlTurn(str, f, i)]
    BY <1>1, <1>5
  <1>7. UrlFrom(str) = [i \in D |-> UrlTurn(str, UrlFrom(str), i)]
    BY <1>6 DEF UrlFrom
  <1>8. QED
    BY <1>7

\* url_decode gives a text of bytes, whatever text it is given.
LEMMA UrlDecodeType ==
  ASSUME NEW str \in Seq(Byte)
  PROVE  url_decode(str) \in Seq(Byte)
  <1> DEFINE D == 1..(Len(str) + 1)
             S == {m \in Nat : \A i \in D : i > Len(str) + 1 - m => UrlFrom(str)[i] \in Seq(Byte)}
  <1>1. Len(str) \in Nat
    OBVIOUS
  <1>2. 0 \in S
    BY <1>1
  <1>3. ASSUME NEW m \in Nat, m \in S PROVE m + 1 \in S
    <2>1. ASSUME NEW i \in D, i > Len(str) + 1 - (m + 1) PROVE UrlFrom(str)[i] \in Seq(Byte)
      <3>1. \A j \in D : j > i => UrlFrom(str)[j] \in Seq(Byte)
        BY <1>1, <1>3, <2>1
      <3>2. QED
        BY <3>1, UrlTurnType, UrlFromExists
    <2>2. QED
      BY <2>1
  <1>4. Len(str) + 1 \in S
    <2> HIDE DEF S
    <2>1. \A n \in Nat : n \in S
      BY <1>2, <1>3, SetInduction
    <2>2. QED
      BY <1>1, <2>1
  <1>5. UrlFrom(str)[1] \in Seq(Byte)
    BY <1>1, <1>4
  <1>6. QED
    BY <1>5, UrlDecodeIs

\* FlattenSeq: its recursive function, from the front.
FlatTurn(seqs, flatten, i) ==
  IF i = 1 THEN seqs[i] ELSE flatten[i - 1] \o seqs[i]
Flat(seqs) ==
  CHOOSE flatten : flatten = [i \in 1..Len(seqs) |-> FlatTurn(seqs, flatten, i)]

LEMMA FlattenSeqIs ==
  ASSUME NEW seqs
  PROVE  FlattenSeq(seqs) = IF Len(seqs) = 0 THEN seqs ELSE Flat(seqs)[Len(seqs)]
  BY DEF FlattenSeq, Flat, FlatTurn

LEMMA FlatExists ==
  ASSUME NEW T, NEW seqs \in Seq(T)
  PROVE  /\ DOMAIN Flat(seqs) = 1..Len(seqs)
         /\ \A i \in 1..Len(seqs) : Flat(seqs)[i] = FlatTurn(seqs, Flat(seqs), i)
  <1> DEFINE D == 1..Len(seqs)
             Obeys(f, m) == \A i \in D : i <= m => f[i] = FlatTurn(seqs, f, i)
             S == {m \in Nat : \E f : DOMAIN f = D /\ f = [i \in D |-> f[i]] /\ Obeys(f, m)}
  <1>1. Len(seqs) \in Nat
    OBVIOUS
  <1>2. 0 \in S
    <2>1. PICK f : f = [i \in D |-> <<>>]
      OBVIOUS
    <2>2. DOMAIN f = D /\ f = [i \in D |-> f[i]] /\ Obeys(f, 0)
      BY <1>1, <2>1
    <2>3. QED
      BY <2>2
  <1>3. ASSUME NEW m \in Nat, m \in S PROVE m + 1 \in S
    <2>1. PICK f : DOMAIN f = D /\ f = [i \in D |-> f[i]] /\ Obeys(f, m)
      BY <1>3
    <2>2. CASE m + 1 \in D
      <3>1. PICK g : g = [f EXCEPT ![m + 1] = FlatTurn(seqs, f, m + 1)]
        OBVIOUS
      <3>2. DOMAIN g = D /\ g = [i \in D |-> g[i]] /\ g[m + 1] = FlatTurn(seqs, f, m + 1)
            /\ \A i \in D : i # m + 1 => g[i] = f[i]
        BY <2>1, <2>2, <3>1
      <3>3. ASSUME NEW i \in D, i <= m + 1 PROVE g[i] = FlatTurn(seqs, g, i)
        <4>1. i # 1 => i - 1 \in D /\ i - 1 # m + 1 /\ f[i - 1] = g[i - 1]
          BY <1>1, <3>2, <3>3
        <4>2. FlatTurn(seqs, f, i) = FlatTurn(seqs, g, i)
          BY <4>1 DEF FlatTurn
        <4>3. g[i] = FlatTurn(seqs, f, i)
          BY <2>1, <3>2, <3>3
        <4>4. QED
          BY <4>2, <4>3
      <3>4. QED
        BY <3>2, <3>3
    <2>3. CASE m + 1 \notin D
      <3>1. ASSUME NEW i \in D, i <= m + 1 PROVE f[i] = FlatTurn(seqs, f, i)
        BY <2>1, <2>3, <3>1
      <3>2. Obeys(f, m + 1)
        BY <3>1
      <3>3. QED
        <4> HIDE DEF Obeys
        <4>1. DOMAIN f = D /\ f = [i \in D |-> f[i]]
          BY <2>1
        <4>2. QED
          BY <3>2, <4>1
    <2>4. QED
      BY <2>2, <2>3
  <1>4. Len(seqs) \in S
    <2> HIDE DEF S
    <2>1. \A n \in Nat : n \in S
      BY <1>2, <1>3, SetInduction
    <2>2. QED
      BY <1>1, <2>1
  <1>5. PICK f : DOMAIN f = D /\ f = [i \in D |-> f[i]] /\ Obeys(f, Len(seqs))
    BY <1>4
  <1>6. f = [i \in D |-> FlatTurn(seqs, f, i)]
    BY <1>1, <1>5
  <1>7. Flat(seqs) = [i \in D |-> FlatTurn(seqs, Flat(seqs), i)]
    BY <1>6 DEF Flat
  <1>8. QED
    BY <1>7

\* FlattenSeq puts sequences together: what it gives has elements of theirs only.
LEMMA FlatType ==
  ASSUME NEW T, NEW seqs \in Seq(Seq(T))
  PROVE  \A i \in 1..Len(seqs) : Flat(seqs)[i] \in Seq(T)
  <1> DEFINE S == {m \in Nat : m \in 1..Len(seqs) => Flat(seqs)[m] \in Seq(T)}
  <1>1. 0 \in S
    OBVIOUS
  <1>2. ASSUME NEW m \in Nat, m \in S PROVE m + 1 \in S
    <2>1. ASSUME m + 1 \in 1..Len(seqs) PROVE Flat(seqs)[m + 1] \in Seq(T)
      <3>1. Flat(seqs)[m + 1] = FlatTurn(seqs, Flat(seqs), m + 1)
        BY <2>1, FlatExists
      <3>2. seqs[m + 1] \in Seq(T)
        BY <2>1
      <3>3. CASE m = 0
        BY <3>1, <3>2, <3>3 DEF FlatTurn
      <3>4. CASE m # 0
        <4>1. m \in 1..Len(seqs) /\ (m + 1) - 1 = m /\ m + 1 # 1
          BY <2>1, <3>4
        <4>2. Flat(seqs)[m] \in Seq(T)
          BY <1>2, <4>1
        <4>3. Flat(seqs)[m + 1] = Flat(seqs)[m] \o seqs[m + 1]
          BY <3>1, <4>1 DEF FlatTurn
        <4>4. QED
          BY <3>2, <4>2, <4>3
      <3>5. QED
        BY <3>3, <3>4
    <2>2. QED
      BY <2>1
  <1>3. \A n \in Nat : n \in S
    <2> HIDE DEF S
    <2>1. QED
      BY <1>1, <1>2, SetInduction
  <1>4. QED
    BY <1>3

LEMMA FlattenSeqType ==
  ASSUME NEW T, NEW seqs \in Seq(Seq(T))
  PROVE  FlattenSeq(seqs) \in Seq(T)
  <1>1. CASE Len(seqs) = 0
    <2>1. FlattenSeq(seqs) = seqs
      <3>1. FlattenSeq(seqs) = IF Len(seqs) = 0 THEN seqs ELSE Flat(seqs)[Len(seqs)]
        BY FlattenSeqIs
      <3>2. QED
        BY <1>1, <3>1
    <2>2. seqs = <<>>
      BY <1>1
    <2>3. QED
      BY <2>1, <2>2
  <1>2. CASE Len(seqs) # 0
    BY <1>2, FlattenSeqIs, FlatType
  <1>3. QED
    BY <1>1, <1>2

LEMMA b64_intType == \A ch : b64_int(ch) \in 0..64
  BY DEF b64_int

LEMMA GroupType ==
  ASSUME NEW s \in [1..4 -> 0..64]
  PROVE  Group(s) \in Seq(Byte)
  <1>1. PICK a, b, c, d : a = s[1] /\ b = s[2] /\ c = s[3] /\ d = s[4]
    OBVIOUS
  <1>2. a \in Nat /\ b \in Nat /\ c \in Nat /\ d \in Nat
    BY <1>1
  <1> DEFINE first == ((a * 4) + ((b % 64) \div 16)) % 256
             second == (((b % 16) * 16) + ((c % 64) \div 4)) % 256
             third == (((c % 4) * 64) + d) % 256
  <1>3. first \in Byte /\ second \in Byte /\ third \in Byte
    BY <1>2 DEF Byte
  <1>4. Group(s) = IF c = 64 THEN <<first>>
                   ELSE IF d = 64 THEN <<first, second>> ELSE <<first, second, third>>
    BY <1>1 DEF Group
  <1> HIDE DEF first, second, third
  <1>5. QED
    BY <1>3, <1>4

\* b64_decode gives bytes, whatever text it is given.
LEMMA b64_decodeType ==
  ASSUME NEW in \in Seq(Byte)
  PROVE  b64_decode(in) \in Seq(Byte)
  <1> DEFINE four(g) == [j \in 1..4 |-> b64_int(in[(4 * (g - 1)) + j])]
             groups == [g \in 1..(Len(in) \div 4) |-> Group(four(g))]
  <1>1. Len(in) \div 4 \in Nat
    OBVIOUS
  <1>2. ASSUME NEW g \in 1..(Len(in) \div 4) PROVE Group(four(g)) \in Seq(Byte)
    <2>1. four(g) \in [1..4 -> 0..64]
      BY b64_intType
    <2> HIDE DEF four
    <2>2. QED
      BY <2>1, GroupType
  <1>3. groups \in Seq(Seq(Byte))
    <2> HIDE DEF four
    <2>1. QED
      BY <1>1, <1>2
  <1>4. b64_decode(in) = FlattenSeq(groups)
    BY DEF b64_decode
  <1> HIDE DEF groups
  <1>5. QED
    BY <1>3, <1>4, FlattenSeqType

-----------------------------------------------------------------------------
(* Types *)

TypeInv ==
  /\ pc \in {"idle", "decode", "save", "operate", "free", "reply", "dead"}
  /\ message \subseteq Messages
  /\ temp \in Seq(Byte) /\ buff \in Seq(Byte)
  /\ \A i \in DOMAIN infos : infos[i].code \in {200, 201}
  /\ heap \subseteq Memory /\ pointers \subseteq Locals /\ losses \subseteq Losses

\* The messages of the assumption, and the memory that a list takes.
LEMMA MessageType ==
  ASSUME NEW m \in Messages
  PROVE  m.chars \in Seq(Byte)
  <1>1. IsMessage(m)
    BY MessagesAssumption
  <1>2. PICK c : c = m.chars
    OBVIOUS
  <1>3. c \in Seq(1..255)
    BY <1>1, <1>2 DEF IsMessage
  <1>4. c \in Seq(Byte)
    BY <1>3 DEF Byte
  <1>5. QED
    BY <1>2, <1>4

LEMMA MakeListType ==
  ASSUME TypeInv, NEW n \in 0..(MaxResults + 1), NEW results, NEW rest \in SUBSET Memory,
         DOMAIN results = 1..n, \A i \in 1..n : results[i].code \in {200, 201},
         MakeList(results, rest)
  PROVE  /\ pc' = "operate"
         /\ \A i \in DOMAIN infos' : infos'[i].code \in {200, 201}
         /\ heap' \subseteq Memory
  <1>1. \A i \in 1..n : Node(i) \in Memory /\ Info(i) \in Memory
    BY MaxResultsAssumption DEF Memory, Nodes
  <1>2. List \in Memory
    BY DEF Memory
  <1>3. heap' = rest \union {List} \union {Node(i) : i \in 1..n} \union {Info(i) : i \in 1..n}
    BY DEF MakeList
  <1>4. /\ pc' = "operate" /\ infos' = results /\ DOMAIN infos' = 1..n
    BY DEF MakeList
  <1>5. heap' \subseteq Memory
    BY <1>1, <1>2, <1>3
  <1>6. QED
    BY <1>4, <1>5

LEMMA InitType == Init => TypeInv
  BY DEF Init, TypeInv, Byte

LEMMA NextType == TypeInv /\ [Next]_vars => TypeInv'
  <1> SUFFICES ASSUME TypeInv, [Next]_vars PROVE TypeInv'
    OBVIOUS
  <1>1. pc \in {"idle", "decode", "save", "operate", "free", "reply", "dead"}
        /\ message \subseteq Messages /\ temp \in Seq(Byte) /\ buff \in Seq(Byte)
        /\ heap \subseteq Memory /\ pointers \subseteq Locals /\ losses \subseteq Losses
        /\ \A i \in DOMAIN infos : infos[i].code \in {200, 201}
    BY DEF TypeInv
  <1>2. /\ Locals \union {FormList} \subseteq Memory /\ MaxResults \in Nat
        /\ {Temp, Buff, Ret, Pattern, Parser, Arg} = Locals
    BY MaxResultsAssumption DEF Memory, Locals
  <1>3. ASSUME Refuse PROVE TypeInv'
    <2>1. heap \ pointers \in SUBSET Memory /\ DOMAIN <<>> = 1..0 /\ 0 \in 0..(MaxResults + 1)
      BY <1>1, <1>2
    <2>2. MakeList(<<>>, heap \ pointers)
      BY <1>3 DEF Refuse
    <2>3. pc' = "operate" /\ heap' \subseteq Memory
          /\ \A i \in DOMAIN infos' : infos'[i].code \in {200, 201}
      <3>1. \A i \in 1..0 : <<>>[i].code \in {200, 201}
        OBVIOUS
      <3>2. QED
        BY <2>1, <2>2, <3>1, MakeListType
    <2>4. QED
      BY <1>1, <1>3, <2>3 DEF Refuse, TypeInv
  <1>4. CASE ReceiveText
    <2>1. PICK m \in Messages : message' = {m} /\ temp' = url_decode(m.chars)
      BY <1>4 DEF ReceiveText
    <2>2. temp' \in Seq(Byte)
      BY <2>1, MessageType, UrlDecodeType
    <2>3. QED
      BY <1>1, <1>2, <1>4, <2>1, <2>2 DEF ReceiveText, TypeInv
  <1>a. ASSUME NEW rest \in SUBSET Memory, MakeList(<<>>, rest)
        PROVE  /\ pc' = "operate" /\ heap' \subseteq Memory
               /\ \A i \in DOMAIN infos' : infos'[i].code \in {200, 201}
    <2>1. DOMAIN <<>> = 1..0 /\ 0 \in 0..(MaxResults + 1)
          /\ \A i \in 1..0 : <<>>[i].code \in {200, 201}
      BY <1>2
    <2>2. QED
      BY <1>a, <2>1, MakeListType
  <1>5. CASE ReceiveOther
    <2>1. CASE ReceiveRefused
      <3>1. PICK rest \in SUBSET {Buff} : MakeList(<<>>, rest) /\ pointers' = rest
        BY <2>1 DEF ReceiveRefused
      <3>2. rest \in SUBSET Memory /\ rest \subseteq Locals
        BY <1>2
      <3>3. QED
        BY <1>1, <1>a, <2>1, <3>1, <3>2 DEF ReceiveRefused, TypeInv
    <2>2. CASE ReceiveUpload
      <3>1. PICK n \in 0..MaxResults : \E codes \in [1..n -> {200, 201}] :
              \E rest \in {{Buff}, {Buff, Pattern, Parser, Arg}} :
                MakeList([i \in 1..n |-> Result(codes[i], <<>>)], rest) /\ pointers' = rest
        BY <2>2 DEF ReceiveUpload
      <3>2. PICK codes \in [1..n -> {200, 201}],
                 rest \in {{Buff}, {Buff, Pattern, Parser, Arg}} :
              MakeList([i \in 1..n |-> Result(codes[i], <<>>)], rest) /\ pointers' = rest
        BY <3>1
      <3>3. PICK results : results = [i \in 1..n |-> Result(codes[i], <<>>)]
        OBVIOUS
      <3>4. DOMAIN results = 1..n /\ \A i \in 1..n : results[i].code \in {200, 201}
        BY <3>3 DEF Result
      <3>5. n \in 0..(MaxResults + 1) /\ rest \in SUBSET Memory /\ rest \subseteq Locals
        BY <1>2
      <3>6. pc' = "operate" /\ heap' \subseteq Memory
            /\ \A i \in DOMAIN infos' : infos'[i].code \in {200, 201}
        BY <3>2, <3>3, <3>4, <3>5, MakeListType
      <3>7. QED
        BY <1>1, <2>2, <3>2, <3>5, <3>6 DEF ReceiveUpload, TypeInv
    <2>3. CASE ReceiveUnparsed
      <3>1. PICK parser \in SUBSET {Parser} : MakeList(<<>>, {Buff, FormList} \union parser)
        BY <2>3 DEF ReceiveUnparsed
      <3>2. PICK rest \in SUBSET Memory : rest = {Buff, FormList} \union parser
        BY <1>2
      <3>3. pc' = "operate" /\ heap' \subseteq Memory
            /\ \A i \in DOMAIN infos' : infos'[i].code \in {200, 201}
        BY <1>a, <3>1, <3>2
      <3>4. pointers' \subseteq Locals /\ losses' \subseteq Losses
        BY <1>2, <2>3 DEF ReceiveUnparsed, Losses
      <3>5. QED
        BY <1>1, <2>3, <3>3, <3>4 DEF ReceiveUnparsed, TypeInv
    <2>4. CASE ReceiveFatal
      BY <1>1, <2>4 DEF ReceiveFatal, TypeInv
    <2>5. QED
      BY <1>5, <2>1, <2>2, <2>3, <2>4 DEF ReceiveOther
  <1>6. CASE Decode
    <2>1. CASE Refuse
      BY <1>3, <2>1
    <2>2. CASE ~Refuse
      <3>1. /\ buff' = b64_decode(temp) /\ heap' = heap \union {Buff}
            /\ pointers' = pointers \union {Buff} /\ pc' = "save"
            /\ UNCHANGED <<message, temp, infos, losses>>
        BY <1>6, <2>2 DEF Decode
      <3>2. buff' \in Seq(Byte)
        BY <1>1, <3>1, b64_decodeType
      <3>3. QED
        BY <1>1, <1>2, <3>1, <3>2 DEF TypeInv
    <2>3. QED
      BY <2>1, <2>2
  <1>7. CASE Save
    <2>1. CASE Refuse
      BY <1>3, <2>1
    <2>2. CASE ~Refuse
      <3>1. MakeList(<<Result(200, Digest(buff))>>, heap)
            /\ UNCHANGED <<message, temp, buff, pointers, losses>>
        BY <1>7, <2>2 DEF Save
      <3>2. PICK results, n : results = <<Result(200, Digest(buff))>> /\ n = 1
        OBVIOUS
      <3>3. DOMAIN results = 1..n /\ \A i \in 1..n : results[i].code \in {200, 201}
        BY <3>2 DEF Result
      <3>4. n \in 0..(MaxResults + 1) /\ heap \in SUBSET Memory
        BY <1>1, <1>2, <3>2
      <3>a. MakeList(results, heap)
        BY <3>1, <3>2
      <3>5. pc' = "operate" /\ heap' \subseteq Memory
            /\ \A i \in DOMAIN infos' : infos'[i].code \in {200, 201}
        BY <3>a, <3>3, <3>4, MakeListType
      <3>6. QED
        BY <1>1, <3>1, <3>5 DEF TypeInv
    <2>3. QED
      BY <2>1, <2>2
  <1>8. CASE Operate
    BY <1>1, <1>8 DEF Operate, Free, TypeInv
  <1>9. CASE PrintJson
    BY <1>1, <1>2, <1>9 DEF PrintJson, TypeInv
  <1>10. CASE FreeNode \/ FreeList
    BY <1>1, <1>10 DEF FreeNode, FreeList, Free, TypeInv, Losses
  <1>11. CASE Reply
    BY <1>1, <1>11 DEF Reply, Free, TypeInv
  <1>12. CASE UNCHANGED vars
    BY <1>1, <1>12 DEF vars, TypeInv
  <1>13. QED
    BY <1>4, <1>5, <1>6, <1>7, <1>8, <1>9, <1>10, <1>11, <1>12 DEF Next, Work

\* Types: the texts are bytes whatever was sent, the results have the codes of
\* the service, and the memory is that of the pieces of a request.
THEOREM TypeCorrect == Spec => []TypeOK
  <1>1. TypeInv /\ MemoryInv => TypeOK
    <2> SUFFICES ASSUME TypeInv, MemoryInv PROVE TypeOK
      OBVIOUS
    <2>1. \A m \in message : IsMessage(m)
      BY MessagesAssumption DEF TypeInv
    <2>2. Len(list) = Len(infos) /\ Len(infos) \in Nat
          /\ \A k \in 1..Len(infos) : list[k] = Len(infos) + 1 - k
      BY ListPlaces DEF MemoryInv
    <2>3. DOMAIN infos = 1..Len(infos) /\ Len(infos) <= MaxResults + 1
          /\ at \in 1..(Len(infos) + 1) /\ twice = {}
      BY DEF MemoryInv, ListInv
    <2>4. list \in Seq(DOMAIN infos)
      <3>1. list = [i \in 1..Len(list) |-> list[i]]
        BY <2>2 DEF MemoryInv, ListInv, Reverse
      <3>2. QED
        BY <2>2, <2>3, <3>1
    <2>5. at \in 1..(MaxResults + 2)
      BY <2>2, <2>3, MaxResultsAssumption
    <2>6. QED
      BY <2>1, <2>3, <2>4, <2>5 DEF TypeInv, TypeOK, Byte
  <1>2. Spec => []TypeInv
    BY InitType, NextType, PTL DEF Spec
  <1>3. QED
    BY <1>1, <1>2, MemoryHolds, PTL

-----------------------------------------------------------------------------
(* Quotients and remainders *)

LEMMA Division ==
  ASSUME NEW n \in Int, NEW d \in Nat \ {0}
  PROVE  n = ((n \div d) * d) + (n % d) /\ n \div d \in Int /\ n % d \in Nat /\ n % d < d
  OBVIOUS

LEMMA QuotientOfNat ==
  ASSUME NEW n \in Nat, NEW d \in Nat \ {0}
  PROVE  n \div d \in Nat
  OBVIOUS

\* There is one quotient and one remainder.
LEMMA DivisionIs ==
  ASSUME NEW n \in Int, NEW d \in Nat \ {0}, NEW q \in Int, NEW r \in Nat,
         r < d, n = (q * d) + r
  PROVE  n \div d = q /\ n % d = r
  <1>1. PICK p, s : p = n \div d /\ s = n % d
    OBVIOUS
  <1>2. n = (p * d) + s /\ p \in Int /\ s \in Nat /\ s < d
    BY <1>1, Division
  <1>3. p = q
    <2>1. CASE p < q
      <3>1. (q - p) * d >= d
        BY <1>2, <2>1
      <3>2. (q - p) * d = (q * d) - (p * d)
        BY <1>2
      <3>3. QED
        BY <1>2, <3>1, <3>2
    <2>2. CASE p > q
      <3>1. (p - q) * d >= d
        BY <1>2, <2>2
      <3>2. (p - q) * d = (p * d) - (q * d)
        BY <1>2
      <3>3. QED
        BY <1>2, <3>1, <3>2
    <2>3. QED
      BY <1>2, <2>1, <2>2
  <1>4. QED
    BY <1>1, <1>2, <1>3

\* A number by its quotient by a and that one's by b.
LEMMA TwoDivisions ==
  ASSUME NEW n \in Nat, NEW a \in Nat \ {0}, NEW b \in Nat \ {0}
  PROVE  /\ n \div (a * b) = (n \div a) \div b
         /\ (n % (a * b)) \div a = (n \div a) % b
         /\ (n % (a * b)) % a = n % a
  <1>1. PICK q, r : q = n \div a /\ r = n % a
    OBVIOUS
  <1>2. n = (q * a) + r /\ q \in Nat /\ r \in Nat /\ r < a
    BY <1>1, Division, QuotientOfNat
  <1>3. PICK p, s : p = q \div b /\ s = q % b
    OBVIOUS
  <1>4. q = (p * b) + s /\ p \in Nat /\ s \in Nat /\ s < b
    BY <1>2, <1>3, Division, QuotientOfNat
  <1>5. PICK c, m : c = a * b /\ m = (s * a) + r
    OBVIOUS
  <1>6. c \in Nat \ {0} /\ m \in Nat
    BY <1>2, <1>4, <1>5
  <1>7. m < c
    <2>1. (s + 1) * a <= b * a
      BY <1>4
    <2>2. (s + 1) * a = (s * a) + a
      BY <1>4
    <2>3. QED
      BY <1>2, <1>4, <1>5, <2>1, <2>2
  <1>8. n = (p * c) + m
    <2>1. q * a = ((p * b) * a) + (s * a)
      BY <1>4
    <2>2. (p * b) * a = p * (a * b)
      BY <1>4
    <2>3. QED
      BY <1>2, <1>4, <1>5, <2>1, <2>2
  <1>9. n \div c = p /\ n % c = m
    BY <1>4, <1>6, <1>7, <1>8, DivisionIs
  <1>10. m \div a = s /\ m % a = r
    BY <1>2, <1>4, <1>5, <1>6, DivisionIs
  <1>11. QED
    BY <1>1, <1>3, <1>5, <1>9, <1>10

-----------------------------------------------------------------------------
(* The places of a number *)

PlaceTurn(f, i) == IF i = 0 THEN 1 ELSE f[i - 1] * Base

\* There is a function that obeys the recursion: it is built from the front.
LEMMA PlaceExists ==
  \A i \in 0..(2 * Half) : Place[i] = PlaceTurn(Place, i)
  <1> DEFINE D == 0..(2 * Half)
             Obeys(f, m) == \A i \in D : i < m => f[i] = PlaceTurn(f, i)
             S == {m \in Nat : \E f : DOMAIN f = D /\ f = [i \in D |-> f[i]] /\ Obeys(f, m)}
  <1>1. Half \in Nat
    BY Md5Assumption
  <1>2. 0 \in S
    <2>1. PICK f : f = [i \in D |-> 0]
      OBVIOUS
    <2>2. Obeys(f, 0)
      OBVIOUS
    <2>3. QED
      BY <2>1, <2>2
  <1>3. ASSUME NEW m \in Nat, m \in S PROVE m + 1 \in S
    <2>1. PICK f : DOMAIN f = D /\ f = [i \in D |-> f[i]] /\ Obeys(f, m)
      BY <1>3
    <2>2. CASE m \in D
      <3>1. PICK g : g = [f EXCEPT ![m] = PlaceTurn(f, m)]
        OBVIOUS
      <3>2. DOMAIN g = D /\ g = [i \in D |-> g[i]] /\ g[m] = PlaceTurn(f, m)
            /\ \A i \in D : i # m => g[i] = f[i]
        BY <2>1, <2>2, <3>1
      <3>3. ASSUME NEW i \in D, i < m + 1 PROVE g[i] = PlaceTurn(g, i)
        <4>1. i # 0 => i - 1 \in D /\ i - 1 # m
          BY <1>1, <3>3
        <4>2. i # 0 => f[i - 1] = g[i - 1]
          BY <3>2, <4>1
        <4>3. PlaceTurn(f, i) = PlaceTurn(g, i)
          BY <4>2 DEF PlaceTurn
        <4>4. g[i] = PlaceTurn(f, i)
          BY <2>1, <3>2, <3>3
        <4>5. QED
          BY <4>3, <4>4
      <3>4. Obeys(g, m + 1)
        BY <3>3
      <3>5. QED
        <4> HIDE DEF Obeys, D
        <4>1. DOMAIN g = D /\ g = [i \in D |-> g[i]] /\ m + 1 \in Nat
          BY <3>2
        <4>2. QED
          BY <3>4, <4>1
    <2>3. CASE m \notin D
      <3>1. ASSUME NEW i \in D, i < m + 1 PROVE f[i] = PlaceTurn(f, i)
        BY <2>1, <2>3, <3>1
      <3>2. Obeys(f, m + 1)
        BY <3>1
      <3>3. QED
        <4> HIDE DEF Obeys, D
        <4>1. DOMAIN f = D /\ f = [i \in D |-> f[i]] /\ m + 1 \in Nat
          BY <2>1
        <4>2. QED
          BY <3>2, <4>1
    <2>4. QED
      BY <2>2, <2>3
  <1>4. (2 * Half) + 1 \in S
    <2> HIDE DEF S
    <2>1. \A n \in Nat : n \in S
      BY <1>2, <1>3, SetInduction
    <2>2. QED
      BY <1>1, <2>1
  <1>5. PICK f : DOMAIN f = D /\ f = [i \in D |-> f[i]] /\ Obeys(f, (2 * Half) + 1)
    BY <1>4
  <1>6. f = [i \in D |-> PlaceTurn(f, i)]
    BY <1>1, <1>5
  <1>7. Place = CHOOSE p : p = [i \in D |-> PlaceTurn(p, i)]
    BY DEF Place, PlaceTurn
  <1>8. Place = [i \in D |-> PlaceTurn(Place, i)]
    BY <1>6, <1>7
  <1>9. QED
    BY <1>8

LEMMA PlaceType == \A i \in 0..(2 * Half) : Place[i] \in Nat \ {0}
  <1> DEFINE S == {m \in Nat : m \in 0..(2 * Half) => Place[m] \in Nat \ {0}}
  <1>1. Half \in Nat /\ Base \in Nat \ {0}
    BY Md5Assumption
  <1>2. 0 \in S
    BY <1>1, PlaceExists DEF PlaceTurn
  <1>3. ASSUME NEW m \in Nat, m \in S PROVE m + 1 \in S
    <2>1. ASSUME m + 1 \in 0..(2 * Half) PROVE Place[m + 1] \in Nat \ {0}
      <3>1. m \in 0..(2 * Half) /\ m + 1 # 0 /\ (m + 1) - 1 = m
        BY <1>1, <2>1
      <3>2. Place[m + 1] = Place[m] * Base
        BY <2>1, <3>1, PlaceExists DEF PlaceTurn
      <3>3. Place[m] \in Nat \ {0}
        BY <1>3, <3>1
      <3>4. QED
        BY <1>1, <3>2, <3>3
    <2>2. QED
      BY <2>1
  <1>4. \A n \in Nat : n \in S
    <2> HIDE DEF S
    <2>1. QED
      BY <1>2, <1>3, SetInduction
  <1>5. QED
    BY <1>4

LEMMA PlacesAdd ==
  ASSUME NEW i \in Nat, NEW j \in Nat, i + j <= 2 * Half
  PROVE  Place[i + j] = Place[i] * Place[j]
  <1> DEFINE S == {m \in Nat : i + m <= 2 * Half => Place[i + m] = Place[i] * Place[m]}
  <1>1. Half \in Nat /\ Base \in Nat \ {0}
    BY Md5Assumption
  <1>2. 0 \in S
    <2>1. i <= 2 * Half => Place[i] \in Nat
      BY <1>1, PlaceType
    <2>2. Place[0] = 1
      BY <1>1, PlaceExists DEF PlaceTurn
    <2>3. QED
      BY <2>1, <2>2
  <1>3. ASSUME NEW m \in Nat, m \in S PROVE m + 1 \in S
    <2>1. ASSUME i + (m + 1) <= 2 * Half PROVE Place[i + (m + 1)] = Place[i] * Place[m + 1]
      <3>1. PICK k : k = i + m
        OBVIOUS
      <3>2. k \in Nat /\ i + (m + 1) = k + 1 /\ k + 1 \in 0..(2 * Half)
            /\ m + 1 \in 0..(2 * Half) /\ i \in 0..(2 * Half) /\ m \in 0..(2 * Half)
        BY <1>1, <2>1, <3>1
      <3>3. Place[k + 1] = Place[k] * Base /\ Place[m + 1] = Place[m] * Base
        <4>1. k + 1 # 0 /\ m + 1 # 0 /\ (k + 1) - 1 = k /\ (m + 1) - 1 = m
          BY <3>2
        <4>2. Place[k + 1] = PlaceTurn(Place, k + 1) /\ Place[m + 1] = PlaceTurn(Place, m + 1)
          BY <3>2, PlaceExists
        <4>3. QED
          BY <4>1, <4>2 DEF PlaceTurn
      <3>4. Place[k] = Place[i] * Place[m]
        BY <1>1, <1>3, <3>1, <3>2
      <3>5. PICK a, b : a = Place[i] /\ b = Place[m]
        OBVIOUS
      <3>6. a \in Nat /\ b \in Nat
        BY <3>2, <3>5, PlaceType
      <3>7. (a * b) * Base = a * (b * Base)
        BY <1>1, <3>6
      <3>8. QED
        BY <3>2, <3>3, <3>4, <3>5, <3>7
    <2>2. QED
      BY <2>1
  <1>4. \A n \in Nat : n \in S
    <2> HIDE DEF S
    <2>1. QED
      BY <1>2, <1>3, SetInduction
  <1>5. QED
    BY <1>4

LEMMA WordType == Word \in Nat \ {0}
  BY PlaceType, Md5Assumption DEF Word

\* The two words of a count, byte by byte, are the number that they count.
LEMMA CountBytesAre ==
  ASSUME NEW n \in Nat, NEW s, s.count = <<n % Word, (n \div Word) % Word>>
  PROVE  CountBytes(s) = [i \in 1..(2 * Half) |-> (n \div Place[i - 1]) % Base]
  <1>1. Half \in Nat \ {0} /\ Base \in Nat \ {0} /\ Word \in Nat \ {0}
    BY WordType, Md5Assumption
  \* A byte of a word does not change when the word is cut to its length.
  <1>2. ASSUME NEW x \in Nat, NEW e \in 0..(Half - 1)
        PROVE  ((x % Word) \div Place[e]) % Base = (x \div Place[e]) % Base
    <2>1. PICK p, r, w : p = Place[e] /\ r = Place[(Half - 1) - e] /\ w = Word
      OBVIOUS
    <2>2. p \in Nat \ {0} /\ r \in Nat \ {0} /\ Place[1] = Base
      <3>1. e \in 0..(2 * Half) /\ (Half - 1) - e \in 0..(2 * Half)
            /\ 0 \in 0..(2 * Half) /\ 1 \in 0..(2 * Half) /\ 1 - 1 = 0 /\ 1 # 0
        BY <1>1
      <3>2. Place[1] = Place[0] * Base /\ Place[0] = 1
        BY <3>1, PlaceExists DEF PlaceTurn
      <3>3. QED
        BY <1>1, <2>1, <3>1, <3>2, PlaceType
    <2>3. w = p * (Base * r)
      <3>1. Place[e + (Half - e)] = Place[e] * Place[Half - e]
        BY <1>1, PlacesAdd
      <3>2. Place[1 + ((Half - 1) - e)] = Place[1] * Place[(Half - 1) - e]
        BY <1>1, PlacesAdd
      <3>3. e + (Half - e) = Half /\ 1 + ((Half - 1) - e) = Half - e
        BY <1>1
      <3>4. QED
        BY <2>1, <2>2, <3>1, <3>2, <3>3 DEF Word
    <2>4. PICK c, y : c = Base * r /\ y = x \div p
      OBVIOUS
    <2>5. c \in Nat \ {0} /\ y \in Nat
      BY <1>1, <2>2, <2>4, QuotientOfNat
    <2>6. (x % (p * c)) \div p = y % c
      <3>1. x \in Nat /\ p \in Nat \ {0} /\ c \in Nat \ {0}
        BY <1>1, <2>2, <2>5
      <3>2. (x % (p * c)) \div p = (x \div p) % c
        BY <3>1, TwoDivisions, Zenon
      <3>3. QED
        BY <2>4, <3>2
    <2>7. (y % (Base * r)) % Base = y % Base
      <3>1. Base \in Nat \ {0} /\ r \in Nat \ {0} /\ y \in Nat
        BY <1>1, <2>2, <2>5
      <3>2. QED
        BY <3>1, TwoDivisions, Zenon
    <2>8. QED
      BY <2>1, <2>3, <2>4, <2>6, <2>7
  <1>3. ASSUME NEW i \in 1..(2 * Half)
        PROVE  (s.count[((i - 1) \div Half) + 1] \div Place[(i - 1) % Half]) % Base
                 = (n \div Place[i - 1]) % Base
    <2>1. CASE i <= Half
      <3>1. (i - 1) \div Half = 0 /\ (i - 1) % Half = i - 1
        <4>1. i - 1 \in Nat /\ i - 1 < Half /\ i - 1 = (0 * Half) + (i - 1)
          BY <1>1, <2>1
        <4>2. QED
          BY <1>1, <4>1, DivisionIs
      <3>2. s.count[0 + 1] = n % Word /\ i - 1 \in 0..(Half - 1)
        BY <1>1, <2>1
      <3>3. QED
        BY <1>2, <3>1, <3>2
    <2>2. CASE i > Half
      <3>1. PICK e : e = (i - 1) - Half
        OBVIOUS
      <3>2. e \in 0..(Half - 1) /\ i - 1 = Half + e
        BY <1>1, <2>2, <3>1
      <3>3. (i - 1) \div Half = 1 /\ (i - 1) % Half = e
        <4>1. i - 1 = (1 * Half) + e /\ e \in Nat /\ e < Half
          BY <1>1, <3>2
        <4>2. QED
          BY <1>1, <4>1, DivisionIs
      <3>4. PICK x : x = n \div Word
        OBVIOUS
      <3>5. x \in Nat /\ s.count[1 + 1] = x % Word
        BY <1>1, <3>4, QuotientOfNat
      <3>6. ((x % Word) \div Place[e]) % Base = (x \div Place[e]) % Base
        BY <1>2, <3>2, <3>5
      <3>7. n \div Place[i - 1] = x \div Place[e]
        <4>1. Place[Half + e] = Word * Place[e]
          BY <1>1, <3>2, PlacesAdd DEF Word
        <4>2. Place[e] \in Nat \ {0}
          BY <1>1, <3>2, PlaceType
        <4>3. n \div (Word * Place[e]) = (n \div Word) \div Place[e]
          BY <1>1, <4>2, TwoDivisions
        <4>4. QED
          BY <3>2, <3>4, <4>1, <4>3
      <3>8. QED
        BY <3>3, <3>5, <3>6, <3>7
    <2>3. QED
      BY <1>1, <2>1, <2>2
  <1>4. QED
    BY <1>3 DEF CountBytes

-----------------------------------------------------------------------------
(* The count *)

LEMMA Shifted ==
  ASSUME NEW u \in Int, NEW z \in Int, NEW d \in Nat \ {0}
  PROVE  ((u * d) + z) % d = z % d
  <1>1. PICK t, h : t = z \div d /\ h = z % d
    OBVIOUS
  <1>2. z = (t * d) + h /\ t \in Int /\ h \in Nat /\ h < d
    BY <1>1, Division
  <1>3. PICK n, q : n = (u * d) + z /\ q = u + t
    OBVIOUS
  <1>4. q * d = (u * d) + (t * d)
    BY <1>2, <1>3
  <1>5. n \in Int /\ q \in Int /\ n = (q * d) + h
    BY <1>2, <1>3, <1>4
  <1>6. n % d = h
    BY <1>2, <1>5, DivisionIs
  <1>7. QED
    BY <1>1, <1>3, <1>6

\* The low words' sum has overflowed when it is below what was added.
LEMMA Carried ==
  ASSUME NEW n \in Nat, NEW m \in Nat, NEW d \in Nat \ {0}, NEW low,
         low = ((n % d) + (m % d)) % d
  PROVE  /\ low = (n + m) % d
         /\ ((((n \div d) % d) + (m \div d)) + (IF low < m % d THEN 1 ELSE 0)) % d
              = ((n + m) \div d) % d
  <1>1. PICK a, x, b, y, c :
          /\ a = n \div d /\ x = n % d /\ b = m \div d /\ y = m % d
          /\ c = IF x + y < d THEN 0 ELSE 1
    OBVIOUS
  <1>2. /\ n = (a * d) + x /\ a \in Nat /\ x \in Nat /\ x < d
        /\ m = (b * d) + y /\ b \in Nat /\ y \in Nat /\ y < d
        /\ c \in {0, 1}
    BY <1>1, Division, QuotientOfNat
  <1>3. PICK h, q : h = (x + y) - (c * d) /\ q = (a + b) + c
    OBVIOUS
  <1>4. h \in Nat /\ h < d /\ q \in Nat
    BY <1>1, <1>2, <1>3
  <1>5. n + m = (q * d) + h
    <2>1. q * d = ((a * d) + (b * d)) + (c * d)
      BY <1>2, <1>3
    <2>2. QED
      BY <1>2, <1>3, <2>1
  <1>6. (n + m) \div d = q /\ (n + m) % d = h
    BY <1>4, <1>5, DivisionIs
  <1>7. low = h
    <2>1. x + y = (c * d) + h /\ x + y \in Int /\ c \in Int
      BY <1>2, <1>3
    <2>2. (x + y) % d = h
      BY <1>4, <2>1, DivisionIs
    <2>3. QED
      BY <1>1, <2>2
  <1>8. c = IF low < y THEN 1 ELSE 0
    BY <1>1, <1>2, <1>3, <1>7
  <1>9. (((a % d) + b) + c) % d = q % d
    <2>1. PICK u, v : u = a \div d /\ v = a % d
      OBVIOUS
    <2>2. a = (u * d) + v /\ u \in Int /\ v \in Int
      BY <1>2, <2>1, Division
    <2>3. PICK z : z = (v + b) + c
      OBVIOUS
    <2>4. z \in Int /\ q = (u * d) + z
      BY <1>2, <1>3, <2>2, <2>3
    <2>5. ((u * d) + z) % d = z % d
      BY <2>2, <2>4, Shifted
    <2>6. QED
      BY <2>1, <2>3, <2>4, <2>5
  <1>10. QED
    BY <1>1, <1>6, <1>7, <1>8, <1>9

\* The count of m bytes, in bits and modulo two words.
CountOf(m) == <<(m * Unit) % Word, ((m * Unit) \div Word) % Word>>

LEMMA CountedIs ==
  ASSUME NEW s, NEW m \in Nat, NEW n \in Nat,
         s = [count |-> CountOf(m), buf |-> s.buf, blocks |-> s.blocks]
  PROVE  Counted(s, n) = [count |-> CountOf(m + n), buf |-> s.buf, blocks |-> s.blocks]
  <1>1. Unit \in Nat \ {0} /\ Word \in Nat \ {0}
    BY WordType, Md5Assumption
  <1>2. PICK a, b : a = m * Unit /\ b = n * Unit
    OBVIOUS
  <1>3. a \in Nat /\ b \in Nat /\ (m + n) * Unit = a + b
    BY <1>1, <1>2
  <1>4. PICK nbits, low : nbits = b % Word /\ low = ((a % Word) + nbits) % Word
    OBVIOUS
  <1>5. /\ low = (a + b) % Word
        /\ ((((a \div Word) % Word) + (b \div Word)) + (IF low < nbits THEN 1 ELSE 0)) % Word
             = ((a + b) \div Word) % Word
    BY <1>1, <1>3, <1>4, Carried
  <1>6. s.count[1] = a % Word /\ s.count[2] = (a \div Word) % Word
    <2>1. s.count = CountOf(m)
      OBVIOUS
    <2>2. QED
      BY <1>2, <2>1 DEF CountOf
  <1>7. Counted(s, n) = [s EXCEPT !.count = CountOf(m + n)]
    <2>2. CountOf(m + n) = <<(a + b) % Word, ((a + b) \div Word) % Word>>
      BY <1>3 DEF CountOf
    <2>3. PICK t : t = ((s.count[2] + (b \div Word)) + (IF low < nbits THEN 1 ELSE 0)) % Word
      OBVIOUS
    <2>4. low = (a + b) % Word /\ t = ((a + b) \div Word) % Word
      BY <1>5, <1>6, <2>3
    <2>5. Counted(s, n) = [s EXCEPT !.count = <<low, t>>]
      <3>1. low = (s.count[1] + ((n * Unit) % Word)) % Word
        BY <1>2, <1>4, <1>6
      <3>2. t = ((s.count[2] + ((n * Unit) \div Word))
                  + (IF low < (n * Unit) % Word THEN 1 ELSE 0)) % Word
        BY <1>2, <1>4, <2>3
      <3>3. QED
        BY <3>1, <3>2 DEF Counted
    <2>6. QED
      BY <2>2, <2>4, <2>5
  <1>8. QED
    BY <1>7

\* Bytes that the low word counts, and how many of them a block has not taken.
LEMMA OffsetIs ==
  ASSUME NEW s, NEW m \in Nat, s.count = CountOf(m)
  PROVE  Offset(s) = m % Block /\ s.count[1] \div Unit \in Nat
  <1>1. Unit \in Nat \ {0} /\ Word \in Nat \ {0} /\ Block \in Nat \ {0}
    BY WordType, Md5Assumption
  <1>2. PICK c, q : c = Unit * Block /\ q = Word \div c
    OBVIOUS
  <1>3. c \in Nat \ {0}
    BY <1>1, <1>2
  <1>4. Word = (q * c) + 0 /\ q \in Nat
    <2>1. Word % c = 0
      BY <1>2, Md5Assumption
    <2>2. Word = (q * c) + (Word % c)
      <3>1. Word \in Int
        BY <1>1
      <3>2. Word = ((Word \div c) * c) + (Word % c)
        BY <1>3, <3>1, Division, Zenon
      <3>3. QED
        BY <1>2, <3>2
    <2>3. q \in Nat
      BY <1>1, <1>2, <1>3, QuotientOfNat
    <2>4. QED
      BY <1>3, <2>1, <2>2, <2>3
  <1>5. q # 0
    BY <1>1, <1>3, <1>4
  <1>6. PICK d : d = Block * q
    OBVIOUS
  <1>7. d \in Nat \ {0} /\ Word = Unit * d
    <2>1. q * (Unit * Block) = Unit * (Block * q)
      BY <1>1, <1>4
    <2>2. QED
      BY <1>1, <1>2, <1>4, <1>5, <1>6, <2>1
  <1>8. PICK a : a = m * Unit
    OBVIOUS
  <1>9. a \in Nat /\ a = (m * Unit) + 0 /\ a \div Unit = m
    <2>1. a \in Nat /\ a = (m * Unit) + 0
      BY <1>1, <1>8
    <2>2. QED
      BY <1>1, <2>1, DivisionIs
  <1>10. (a % (Unit * d)) \div Unit = (a \div Unit) % d
    <2>1. a \in Nat /\ Unit \in Nat \ {0} /\ d \in Nat \ {0}
      BY <1>1, <1>7, <1>9
    <2>2. QED
      BY <2>1, TwoDivisions, Zenon
  <1>11. s.count[1] \div Unit = m % d
    <2>1. s.count[1] = a % Word
      BY <1>8 DEF CountOf
    <2>2. a % Word = a % (Unit * d)
      BY <1>7, Zenon
    <2>3. QED
      BY <1>9, <1>10, <2>1, <2>2, Zenon
  <1>12. (m % (Block * q)) % Block = m % Block
    <2>1. q \in Nat \ {0}
      BY <1>4, <1>5
    <2>2. QED
      BY <1>1, <2>1, TwoDivisions, Zenon
  <1>13. m % d \in Nat
    BY <1>7, Division
  <1>14. QED
    BY <1>6, <1>11, <1>12, <1>13 DEF Offset

\* The padding goes to where the length field of a block begins.
LEMMA PadLengthIs ==
  ASSUME NEW s, NEW m \in Nat, s.count = CountOf(m), NEW field, field = 2 * Half
  PROVE  /\ PadLength(s) \in 1..Block
         /\ (m + PadLength(s)) % Block = Block - field
         /\ PadLength(s) - 1 \in 0..(Block - 1)
         /\ (((m + 1) + (PadLength(s) - 1)) + field) % Block = 0
  <1>1. /\ Block \in Nat \ {0} /\ Half \in Nat \ {0} /\ Block > field
        /\ field \in Nat \ {0}
    BY Md5Assumption
  <1>2. PICK x, k : x = s.count[1] \div Unit /\ k = ((Block - field) - 1 - x) % Block
    OBVIOUS
  <1>3. x \in Nat /\ x % Block = m % Block
    BY <1>2, OffsetIs DEF Offset
  <1>4. k \in Nat /\ k < Block
    BY <1>1, <1>2, <1>3, Division
  <1>5. PadLength(s) = k + 1
    BY <1>2 DEF PadLength
  <1>6. PICK z : z = (Block - field) - 1 - x
    OBVIOUS
  <1>7. PICK a, b, u, r : a = z \div Block /\ b = x \div Block /\ u = m \div Block
                          /\ r = m % Block
    OBVIOUS
  <1>8. z = (a * Block) + k /\ a \in Int /\ z \in Int
    <2>1. z \in Int /\ k = z % Block
      BY <1>1, <1>2, <1>3, <1>6
    <2>2. QED
      BY <1>1, <1>7, <2>1, Division
  <1>9. x = (b * Block) + r /\ b \in Int /\ r \in Nat
    BY <1>1, <1>3, <1>7, Division
  <1>10. m = (u * Block) + r /\ u \in Int
    BY <1>1, <1>7, Division
  <1>a. PICK q : q = (u - b) - a
    OBVIOUS
  <1>b. q \in Int /\ q * Block = ((u * Block) - (b * Block)) - (a * Block)
    BY <1>1, <1>8, <1>9, <1>10, <1>a
  <1>c. m + (k + 1) = (q * Block) + (Block - field)
    BY <1>1, <1>4, <1>6, <1>8, <1>9, <1>10, <1>b
  <1>11. (m + (k + 1)) % Block = Block - field
    <2>1. m + (k + 1) \in Int /\ Block - field \in Nat /\ Block - field < Block
      BY <1>1, <1>4
    <2>2. QED
      BY <1>1, <1>b, <1>c, <2>1, DivisionIs
  <1>12. (((m + 1) + k) + field) % Block = 0
    <2>1. PICK n, p : n = ((m + 1) + k) + field /\ p = q + 1
      OBVIOUS
    <2>2. n \in Int /\ p \in Int /\ p * Block = (q * Block) + Block
      BY <1>1, <1>4, <1>b, <2>1
    <2>3. n = (p * Block) + 0
      BY <1>1, <1>4, <1>b, <1>c, <2>1, <2>2
    <2>4. n % Block = 0
      BY <1>1, <2>2, <2>3, DivisionIs
    <2>5. QED
      BY <2>1, <2>4
  <1>13. PICK p : p = PadLength(s)
    OBVIOUS
  <1>14. p = k + 1 /\ p - 1 = k /\ p \in 1..Block /\ k \in 0..(Block - 1)
    BY <1>1, <1>4, <1>5, <1>13
  <1>15. QED
    BY <1>11, <1>12, <1>13, <1>14

-----------------------------------------------------------------------------
(* Blocks *)

\* The full blocks of a text, and its rest in the buffer.
Blocks(text) ==
  [k \in 1..(Len(text) \div Block) |-> [j \in 1..Block |-> text[((k - 1) * Block) + j]]]
Rest(text, buf) ==
  /\ buf = [j \in 1..Block |-> buf[j]]
  /\ \A j \in 1..(Len(text) % Block) : buf[j] = text[((Len(text) \div Block) * Block) + j]

\* A number of bytes by full blocks, and where the blocks begin and end.
LEMMA ByBlocks ==
  ASSUME NEW n \in Nat
  PROVE  /\ Block \in Nat \ {0} /\ n \div Block \in Nat /\ (n \div Block) * Block \in Nat
         /\ n % Block \in Nat /\ n % Block < Block
         /\ n = ((n \div Block) * Block) + (n % Block)
  <1>1. Block \in Nat \ {0} /\ n \in Int
    BY Md5Assumption
  <1>2. n \div Block \in Nat
    BY <1>1, QuotientOfNat
  <1>3. n = ((n \div Block) * Block) + (n % Block) /\ n % Block \in Nat /\ n % Block < Block
    BY <1>1, Division
  <1>4. (n \div Block) * Block \in Nat
    BY <1>1, <1>2
  <1>5. QED
    BY <1>1, <1>2, <1>3, <1>4

LEMMA BlockEnds ==
  ASSUME NEW m \in Nat, NEW k \in 1..m
  PROVE  /\ (k - 1) * Block \in Nat
         /\ k * Block = ((k - 1) * Block) + Block
         /\ ((k - 1) * Block) + Block <= m * Block
  <1>1. Block \in Nat \ {0}
    BY Md5Assumption
  <1>2. (k - 1) * Block \in Nat /\ (m - k) * Block \in Nat
    BY <1>1
  <1>3. k * Block = ((k - 1) * Block) + Block
    BY <1>1
  <1>4. m * Block = (((k - 1) * Block) + Block) + ((m - k) * Block)
    BY <1>1
  <1>5. m * Block \in Nat
    BY <1>1
  <1>6. QED
    BY <1>1, <1>2, <1>3, <1>4, <1>5

LEMMA BlocksType ==
  ASSUME NEW T, NEW text \in Seq(T)
  PROVE  /\ Blocks(text) \in Seq([1..Block -> T])
         /\ Len(Blocks(text)) = Len(text) \div Block
  <1>1. PICK a, r, n, A : a = Len(text) \div Block /\ r = Len(text) % Block
                          /\ n = Len(text) /\ A = a * Block
    OBVIOUS
  <1>2. n \in Nat
    BY <1>1
  <1>3. Block \in Nat \ {0} /\ a \in Nat /\ r \in Nat /\ A \in Nat /\ n = A + r
    BY <1>1, <1>2, ByBlocks
  <1>4. ASSUME NEW k \in 1..a, NEW j \in 1..Block PROVE text[((k - 1) * Block) + j] \in T
    <2>1. PICK p : p = (k - 1) * Block
      OBVIOUS
    <2>2. p \in Nat /\ p + Block <= A
      BY <1>1, <1>3, <2>1, BlockEnds
    <2>3. p + j \in 1..n
      BY <1>3, <2>2
    <2>4. QED
      BY <1>1, <2>1, <2>3
  <1>5. \A k \in 1..a : [j \in 1..Block |-> text[((k - 1) * Block) + j]] \in [1..Block -> T]
    BY <1>4
  <1>6. Blocks(text) = [k \in 1..a |-> [j \in 1..Block |-> text[((k - 1) * Block) + j]]]
    BY <1>1 DEF Blocks
  <1>7. Blocks(text) \in Seq([1..Block -> T]) /\ Len(Blocks(text)) = a
    <2>1. PICK b, S : b = Blocks(text) /\ S = [1..Block -> T]
      OBVIOUS
    <2>2. b = [k \in 1..a |-> b[k]] /\ \A k \in 1..a : b[k] \in S
      BY <1>5, <1>6, <2>1
    <2>3. b \in Seq(S) /\ Len(b) = a
      BY <1>3, <2>2, SMTT(20)
    <2>4. QED
      BY <2>1, <2>3
  <1>8. QED
    BY <1>1, <1>7

\* Full blocks of a text that is longer by the data.
LEMMA LongerText ==
  ASSUME NEW m \in Nat, NEW n \in Nat, m % Block = 0
  PROVE  /\ (m + n) \div Block = (m \div Block) + (n \div Block)
         /\ (m + n) % Block = n % Block
  <1>1. PICK a, f, g : a = m \div Block /\ f = n \div Block /\ g = n % Block
    OBVIOUS
  <1>2. Block \in Nat \ {0} /\ a \in Nat /\ m = a * Block
    <2>1. m = (a * Block) + 0 /\ a \in Nat /\ a * Block \in Nat
      BY <1>1, ByBlocks
    <2>2. QED
      BY <2>1, ByBlocks
  <1>3. f \in Nat /\ g \in Nat /\ g < Block /\ n = (f * Block) + g
    BY <1>1, ByBlocks
  <1>4. PICK x, q : x = m + n /\ q = a + f
    OBVIOUS
  <1>5. x \in Int /\ q \in Int /\ q * Block = (a * Block) + (f * Block)
    BY <1>2, <1>3, <1>4
  <1>6. f * Block \in Nat
    BY <1>2, <1>3
  <1>7. x = (q * Block) + g
    BY <1>2, <1>3, <1>4, <1>5, <1>6
  <1>8. x \div Block = q /\ x % Block = g
    BY <1>2, <1>3, <1>5, <1>7, DivisionIs
  <1>9. QED
    BY <1>1, <1>4, <1>8

\* A slice of data.
LEMMA Slice ==
  ASSUME NEW T, NEW data \in Seq(T), NEW p \in Nat, NEW m \in Nat,
         NEW x, x = p + 1, NEW y, y = p + m, y <= Len(data),
         NEW z, z = SubSeq(data, x, y)
  PROVE  z \in Seq(T) /\ Len(z) = m /\ \A j \in 1..m : z[j] = data[p + j]
  <1>1. PICK n : n = Len(data)
    OBVIOUS
  <1>2. n \in Nat /\ x \in Int /\ y \in Int /\ y <= n
    BY <1>1
  <1>3. \A i \in x..y : data[i] \in T
    BY <1>1, <1>2
  <1>4. /\ z \in Seq(T) /\ Len(z) = IF x <= y THEN (y - x) + 1 ELSE 0
        /\ \A j \in 1..((y - x) + 1) : z[j] = data[(x + j) - 1]
    BY <1>1, <1>2, <1>3, SubSeqProperties
  <1>5. Len(z) = m /\ (y - x) + 1 = m
    BY <1>1, <1>2, <1>4
  <1>6. ASSUME NEW j \in 1..m PROVE z[j] = data[p + j]
    <2>1. (x + j) - 1 = p + j
      BY <1>1
    <2>2. QED
      BY <1>4, <1>5, <2>1
  <1>7. QED
    BY <1>4, <1>5, <1>6

\* A text with data behind it.
LEMMA Joined ==
  ASSUME NEW T, NEW text \in Seq(T), NEW data \in Seq(T)
  PROVE  /\ text \o data \in Seq(T) /\ Len(text \o data) = Len(text) + Len(data)
         /\ \A i \in 1..Len(text) : (text \o data)[i] = text[i]
         /\ \A i \in 1..Len(data) : (text \o data)[Len(text) + i] = data[i]
  OBVIOUS

\* What md5_append makes of data with nothing in the buffer.
Slices(data) ==
  [k \in 1..(Len(data) \div Block) |-> SubSeq(data, ((k - 1) * Block) + 1, k * Block)]
LastSlice(data) == SubSeq(data, ((Len(data) \div Block) * Block) + 1, Len(data))

LEMMA ConcatIs ==
  ASSUME NEW S, NEW s \in Seq(S), NEW u \in Seq(S), NEW l \in Seq(S),
         Len(l) = Len(s) + Len(u),
         \A k \in 1..Len(s) : s[k] = l[k], \A k \in 1..Len(u) : u[k] = l[Len(s) + k]
  PROVE  s \o u = l
  <1>0. PICK a, f, n : a = Len(s) /\ f = Len(u) /\ n = Len(l)
    OBVIOUS
  <1>a. a \in Nat /\ f \in Nat /\ n = a + f
    BY <1>0
  <1>1. s \o u \in Seq(S) /\ Len(s \o u) = n
    BY <1>0, <1>a, ConcatProperties
  <1>2. ASSUME NEW k \in 1..n PROVE (s \o u)[k] = l[k]
    <2>1. (s \o u)[k] = IF k <= a THEN s[k] ELSE u[k - a]
      <3>1. k \in 1..(Len(s) + Len(u))
        BY <1>0, <1>a
      <3>2. (s \o u)[k] = IF k <= Len(s) THEN s[k] ELSE u[k - Len(s)]
        BY <3>1, ConcatProperties
      <3>3. QED
        BY <1>0, <3>2
    <2>2. CASE k <= a
      BY <1>0, <1>a, <2>1, <2>2
    <2>3. CASE ~(k <= a)
      <3>1. k - a \in 1..f /\ a + (k - a) = k
        BY <1>a, <2>3
      <3>2. QED
        BY <1>0, <2>1, <2>3, <3>1
    <2>4. QED
      BY <2>2, <2>3
  <1>3. QED
    BY <1>0, <1>1, <1>2, SeqEqual

\* The blocks of a text and those of the data behind it.
LEMMA BlocksJoined ==
  ASSUME NEW T, NEW text \in Seq(T), NEW data \in Seq(T), Len(text) % Block = 0
  PROVE  Blocks(text) \o Slices(data) = Blocks(text \o data)
  <1>1. PICK a, f, g, n, m, A, F, long :
          /\ a = Len(text) \div Block /\ m = Len(text) /\ A = a * Block
          /\ f = Len(data) \div Block /\ g = Len(data) % Block /\ n = Len(data)
          /\ F = f * Block /\ long = text \o data
    OBVIOUS
  <1>2. m \in Nat /\ n \in Nat
    BY <1>1
  <1>3. /\ Block \in Nat \ {0} /\ a \in Nat /\ A \in Nat /\ m = A
        /\ f \in Nat /\ F \in Nat /\ g \in Nat /\ g < Block /\ n = F + g
    <2>1. a \in Nat /\ A \in Nat /\ m = A + 0
      BY <1>1, <1>2, ByBlocks
    <2>2. Block \in Nat \ {0} /\ f \in Nat /\ F \in Nat /\ g \in Nat /\ g < Block /\ n = F + g
      BY <1>1, <1>2, ByBlocks
    <2>3. QED
      BY <2>1, <2>2
  <1>4. /\ long \in Seq(T) /\ Len(long) = m + n
        /\ \A i \in 1..m : long[i] = text[i]
        /\ \A i \in 1..n : long[m + i] = data[i]
    BY <1>1, Joined
  <1>5. Len(long) \div Block = a + f /\ Len(long) % Block = g
    <2>1. m % Block = 0
      BY <1>1
    <2>2. /\ (m + n) \div Block = (m \div Block) + (n \div Block)
          /\ (m + n) % Block = n % Block
      BY <1>2, <2>1, LongerText, Zenon
    <2>3. QED
      BY <1>1, <1>4, <2>2
  <1>6. PICK slices : slices = Slices(data)
    OBVIOUS
  <1>7. slices = [k \in 1..f |-> SubSeq(data, ((k - 1) * Block) + 1, k * Block)]
    BY <1>1, <1>6 DEF Slices
  <1>8. \A k \in 1..(a + f) : Blocks(long)[k] = [j \in 1..Block |-> long[((k - 1) * Block) + j]]
    BY <1>5 DEF Blocks
  <1>9. ASSUME NEW k \in 1..f PROVE slices[k] = Blocks(long)[a + k]
    <2>1. PICK p : p = (k - 1) * Block
      OBVIOUS
    <2>2. p \in Nat /\ k * Block = p + Block /\ p + Block <= F
      BY <1>1, <1>3, <2>1, BlockEnds
    <2>3. ((a + k) - 1) * Block = m + p
      <3>1. ((a + k) - 1) * Block = (a * Block) + ((k - 1) * Block)
        BY <1>3
      <3>2. QED
        BY <1>1, <1>3, <2>1, <3>1
    <2>4. PICK x, y, z : x = p + 1 /\ y = p + Block /\ z = SubSeq(data, x, y)
      OBVIOUS
    <2>5. z \in Seq(T) /\ Len(z) = Block /\ \A j \in 1..Block : z[j] = data[p + j]
      <3>1. p + Block <= n /\ Block \in Nat
        BY <1>2, <1>3, <2>2
      <3>2. y <= Len(data)
        BY <1>1, <2>4, <3>1
      <3>3. QED
        BY <2>2, <2>4, <3>1, <3>2, Slice
    <2>6. ASSUME NEW j \in 1..Block PROVE z[j] = long[(m + p) + j]
      <3>1. p + j \in 1..n /\ (m + p) + j = m + (p + j)
        <4>1. p + j \in Nat /\ p + j >= 1 /\ p + j <= F
          BY <1>3, <2>2
        <4>2. QED
          BY <1>2, <1>3, <2>2, <4>1
      <3>2. QED
        BY <1>4, <2>5, <3>1
    <2>7. z = [j \in 1..Block |-> long[(m + p) + j]]
      <3>1. z = [j \in 1..Block |-> z[j]]
        BY <2>5
      <3>2. QED
        BY <2>6, <3>1
    <2>8. a + k \in 1..(a + f)
      BY <1>3
    <2>9. Blocks(long)[a + k] = [j \in 1..Block |-> long[(((a + k) - 1) * Block) + j]]
      BY <1>8, <2>8
    <2>10. slices[k] = z
      BY <1>7, <2>1, <2>2, <2>4
    <2>11. QED
      BY <2>3, <2>7, <2>9, <2>10
  <1>10. ASSUME NEW k \in 1..a PROVE Blocks(text)[k] = Blocks(long)[k]
    <2>1. PICK p : p = (k - 1) * Block
      OBVIOUS
    <2>2. p \in Nat /\ p + Block <= A
      BY <1>1, <1>3, <2>1, BlockEnds
    <2>3. ASSUME NEW j \in 1..Block PROVE text[p + j] = long[p + j]
      <3>1. p + j \in 1..m
        BY <1>3, <2>2
      <3>2. QED
        BY <1>4, <3>1
    <2>4. k \in 1..(a + f)
      BY <1>3
    <2>5. Blocks(text)[k] = [j \in 1..Block |-> text[p + j]]
      BY <1>1, <2>1 DEF Blocks
    <2>6. Blocks(long)[k] = [j \in 1..Block |-> long[p + j]]
      BY <1>8, <2>1, <2>4
    <2>7. QED
      BY <2>3, <2>5, <2>6
  <1>11. Blocks(text) \o slices = Blocks(long)
    <2>1. PICK bt, bl, S : bt = Blocks(text) /\ bl = Blocks(long) /\ S = [1..Block -> T]
      OBVIOUS
    <2>a. PICK x : x = a + f
      OBVIOUS
    <2>2. bt \in Seq(S) /\ Len(bt) = a /\ bl \in Seq(S) /\ Len(bl) = x
      BY <2>a,  <1>1, <1>4, <1>5, <2>1, BlocksType
    <2>3. \A k \in 1..a : bt[k] = bl[k]
      BY <1>10, <2>1
    <2>4. \A k \in 1..f : slices[k] = bl[a + k]
      BY <1>9, <2>1
    <2>5. a \in Nat /\ f \in Nat
      BY <1>3
    <2>6. ASSUME NEW k \in 1..f PROVE slices[k] \in S
      <3>1. a + k \in 1..x
        BY <2>a, <2>5
      <3>2. QED
        BY <2>2, <2>4, <3>1
    <2>7. PICK u : u = [k \in 1..f |-> slices[k]]
      OBVIOUS
    <2>8. u \in Seq(S) /\ Len(u) = f
      BY <2>5, <2>6, <2>7
    <2>9. slices = u
      BY <1>7, <2>7
    <2>10. bt \o slices = bl
      <3>1. \A k \in 1..f : u[k] = bl[a + k]
        BY <2>4, <2>9
      <3>2. /\ Len(bl) = Len(bt) + Len(u)
            /\ \A k \in 1..Len(bt) : bt[k] = bl[k]
            /\ \A k \in 1..Len(u) : u[k] = bl[Len(bt) + k]
        BY <2>a, <2>2, <2>3, <2>8, <3>1
      <3>3. bt \o u = bl
        BY <2>2, <2>8, <3>2, ConcatIs
      <3>4. QED
        BY <2>9, <3>3
    <2>11. QED
      BY <2>1, <2>10
  <1>12. QED
    BY <1>1, <1>6, <1>11

\* The rest of the data, copied into the buffer.
LEMMA RestJoined ==
  ASSUME NEW T, NEW text \in Seq(T), NEW data \in Seq(T), Len(text) % Block = 0,
         NEW old
  PROVE  Rest(text \o data, Copied(old, 0, LastSlice(data)))
  <1>1. PICK a, f, g, n, m, A, F, long :
          /\ a = Len(text) \div Block /\ m = Len(text) /\ A = a * Block
          /\ f = Len(data) \div Block /\ g = Len(data) % Block /\ n = Len(data)
          /\ F = f * Block /\ long = text \o data
    OBVIOUS
  <1>2. m \in Nat /\ n \in Nat
    BY <1>1
  <1>3. /\ Block \in Nat \ {0} /\ a \in Nat /\ A \in Nat /\ m = A
        /\ f \in Nat /\ F \in Nat /\ g \in Nat /\ g < Block /\ n = F + g
    <2>1. a \in Nat /\ A \in Nat /\ m = A + 0
      BY <1>1, <1>2, ByBlocks
    <2>2. Block \in Nat \ {0} /\ f \in Nat /\ F \in Nat /\ g \in Nat /\ g < Block /\ n = F + g
      BY <1>1, <1>2, ByBlocks
    <2>3. QED
      BY <2>1, <2>2
  <1>4. /\ long \in Seq(T) /\ Len(long) = m + n
        /\ \A i \in 1..m : long[i] = text[i]
        /\ \A i \in 1..n : long[m + i] = data[i]
    BY <1>1, Joined
  <1>5. Len(long) \div Block = a + f /\ Len(long) % Block = g
    <2>1. m % Block = 0
      BY <1>1
    <2>2. /\ (m + n) \div Block = (m \div Block) + (n \div Block)
          /\ (m + n) % Block = n % Block
      BY <1>2, <2>1, LongerText, Zenon
    <2>3. QED
      BY <1>1, <1>4, <2>2
  <1>6. PICK rest : rest = LastSlice(data)
    OBVIOUS
  <1>7. rest = SubSeq(data, F + 1, n)
    BY <1>1, <1>6 DEF LastSlice
  <1> DEFINE new == Copied(old, 0, rest)
  <1>12. Len(rest) = g /\ \A j \in 1..g : rest[j] = data[F + j]
    <2>1. n = F + g /\ F + g <= n
      BY <1>3
    <2>2. PICK x, y : x = F + 1 /\ y = F + g
      OBVIOUS
    <2>3. y <= Len(data) /\ rest = SubSeq(data, x, y)
      BY <1>1, <1>7, <2>1, <2>2
    <2>4. QED
      BY <1>3, <2>2, <2>3, Slice
  <1>13. Rest(long, new)
    <2>1. new = [i \in 1..Block |->
                     IF i > 0 /\ i <= 0 + g THEN rest[i - 0] ELSE old[i]]
      BY <1>12 DEF Copied
    <2>2. ((a + f) * Block) = m + F
      <3>1. (a + f) * Block = (a * Block) + (f * Block)
        BY <1>3
      <3>2. QED
        BY <1>1, <1>3, <3>1
    <2>3. ASSUME NEW j \in 1..g PROVE new[j] = long[((a + f) * Block) + j]
      <3>1. j \in 1..Block /\ j > 0 /\ j <= 0 + g /\ j - 0 = j
        BY <1>3
      <3>2. new[j] = rest[j]
        BY <2>1, <3>1
      <3>3. F + j \in 1..n /\ (m + F) + j = m + (F + j)
        BY <1>2, <1>3
      <3>4. long[m + (F + j)] = data[F + j]
        BY <1>4, <3>3
      <3>5. QED
        BY <1>12, <2>2, <3>2, <3>3, <3>4
    <2>4. new = [j \in 1..Block |-> new[j]]
      BY <2>1
    <2>5. QED
      BY <1>5, <2>3, <2>4 DEF Rest
  <1>14. QED
    BY <1>1, <1>6, <1>13

\* With nothing in the buffer md5_append gathers the blocks of the data.
LEMMA AppendBlocksTakes ==
  ASSUME NEW T, NEW text \in Seq(T), NEW data \in Seq(T), Len(text) % Block = 0,
         NEW s, s = [count |-> s.count, buf |-> s.buf, blocks |-> Blocks(text)],
         NEW t, t = AppendBlocks(s, data)
  PROVE  /\ t = [count |-> s.count, buf |-> t.buf, blocks |-> Blocks(text \o data)]
         /\ Rest(text \o data, t.buf)
  <1>1. s.blocks = Blocks(text)
    OBVIOUS
  <1>2. t = [s EXCEPT !.blocks = Blocks(text) \o Slices(data),
                      !.buf = Copied(s.buf, 0, LastSlice(data))]
    BY <1>1 DEF AppendBlocks, Slices, LastSlice
  <1>3. t = [count |-> s.count, buf |-> Copied(s.buf, 0, LastSlice(data)),
             blocks |-> Blocks(text) \o Slices(data)]
    BY <1>2
  <1>4. Blocks(text) \o Slices(data) = Blocks(text \o data)
    BY BlocksJoined
  <1>5. Rest(text \o data, Copied(s.buf, 0, LastSlice(data)))
    BY RestJoined
  <1>6. QED
    BY <1>3, <1>4, <1>5

\* What a digest has taken of a text.
Taken(s, text) ==
  /\ s = [count |-> CountOf(Len(text)), buf |-> s.buf, blocks |-> Blocks(text)]
  /\ Rest(text, s.buf)

LEMMA InitTaken == Taken(md5_init, <<>>)
  <1>1. Word \in Nat \ {0} /\ Unit \in Nat \ {0} /\ Block \in Nat \ {0}
    BY WordType, Md5Assumption
  <1>2. /\ 0 \div Word = 0 /\ 0 % Word = 0 /\ 0 \div Block = 0 /\ 0 % Block = 0
        /\ 0 * Unit = 0
    BY <1>1
  <1>3. CountOf(Len(<<>>)) = <<0, 0>>
    BY <1>2 DEF CountOf
  <1>4. Blocks(<<>>) = <<>>
    BY <1>2 DEF Blocks
  <1>5. Rest(<<>>, [i \in 1..Block |-> Stale])
    BY <1>2 DEF Rest
  <1>6. QED
    BY <1>3, <1>4, <1>5 DEF Taken, md5_init

\* Data that does not fill the buffer.
LEMMA RestLonger ==
  ASSUME NEW T, NEW text \in Seq(T), NEW data \in Seq(T),
         NEW r, r = Len(text) % Block, r + Len(data) < Block,
         NEW old, Rest(text, old)
  PROVE  Blocks(text \o data) = Blocks(text) /\ Rest(text \o data, Copied(old, r, data))
  <1>1. PICK a, m, n, A, long : a = Len(text) \div Block /\ m = Len(text) /\ n = Len(data)
                                /\ A = a * Block /\ long = text \o data
    OBVIOUS
  <1>2. m \in Nat /\ n \in Nat
    BY <1>1
  <1>3. Block \in Nat \ {0} /\ a \in Nat /\ A \in Nat /\ r \in Nat /\ m = A + r /\ r + n < Block
    BY <1>1, <1>2, ByBlocks
  <1>4. /\ long \in Seq(T) /\ Len(long) = m + n
        /\ \A i \in 1..m : long[i] = text[i]
        /\ \A i \in 1..n : long[m + i] = data[i]
    BY <1>1, Joined
  <1>5. Len(long) \div Block = a /\ Len(long) % Block = r + n
    <2>1. PICK x, y : x = m + n /\ y = r + n
      OBVIOUS
    <2>2. x \in Int /\ y \in Nat /\ y < Block /\ x = A + y
      BY <1>2, <1>3, <2>1
    <2>3. x \div Block = a /\ x % Block = y
      <3>1. x = (a * Block) + y
        BY <1>1, <2>2
      <3>2. x \in Int /\ y \in Nat /\ y < Block /\ a \in Int /\ Block \in Nat \ {0}
        BY <1>3, <2>2
      <3>3. QED
        BY <3>1, <3>2, DivisionIs
    <2>4. QED
      BY <1>4, <2>1, <2>3
  <1>6. Blocks(long) = Blocks(text)
    <2>1. ASSUME NEW k \in 1..a, NEW j \in 1..Block
          PROVE  long[((k - 1) * Block) + j] = text[((k - 1) * Block) + j]
      <3>1. PICK p : p = (k - 1) * Block
        OBVIOUS
      <3>2. p \in Nat /\ p + Block <= A
        BY <1>1, <1>3, <3>1, BlockEnds
      <3>3. p + j \in 1..m
        BY <1>3, <3>2
      <3>4. QED
        BY <1>4, <3>1, <3>3
    <2>2. Blocks(long) = [k \in 1..a |-> [j \in 1..Block |-> long[((k - 1) * Block) + j]]]
      BY <1>5 DEF Blocks
    <2>3. Blocks(text) = [k \in 1..a |-> [j \in 1..Block |-> text[((k - 1) * Block) + j]]]
      BY <1>1 DEF Blocks
    <2>4. QED
      BY <2>1, <2>2, <2>3
  <1> DEFINE new == Copied(old, r, data)
  <1>7. new = [i \in 1..Block |-> IF i > r /\ i <= r + n THEN data[i - r] ELSE old[i]]
    BY <1>1 DEF Copied
  <1>8. \A j \in 1..r : old[j] = text[A + j]
    BY <1>1 DEF Rest
  <1> HIDE DEF new
  <1>9. ASSUME NEW j \in 1..(r + n) PROVE new[j] = long[A + j]
    <2>1. j \in 1..Block
      BY <1>2, <1>3
    <2>2. CASE j > r
      <3>1. j <= r + n /\ j - r \in 1..n /\ m + (j - r) = A + j
        BY <1>2, <1>3, <2>2
      <3>2. new[j] = data[j - r]
        BY <1>7, <2>1, <2>2, <3>1
      <3>3. long[m + (j - r)] = data[j - r]
        BY <1>4, <3>1
      <3>4. QED
        BY <3>1, <3>2, <3>3
    <2>3. CASE ~(j > r)
      <3>1. j \in 1..r /\ A + j \in 1..m
        BY <1>3, <2>3
      <3>2. new[j] = old[j]
        BY <1>7, <2>1, <2>3
      <3>3. QED
        BY <1>4, <1>8, <3>1, <3>2
    <2>4. QED
      BY <2>2, <2>3
  <1>10. new = [i \in 1..Block |-> new[i]]
    BY <1>7
  <1>11. Rest(long, new)
    BY <1>1, <1>5, <1>9, <1>10 DEF Rest
  <1>12. QED
    BY <1>1, <1>6, <1>11 DEF new

\* Data that fills the buffer.
LEMMA RestFilled ==
  ASSUME NEW T, NEW text \in Seq(T), NEW data \in Seq(T),
         NEW r, r = Len(text) % Block, r + Len(data) = Block,
         NEW old, Rest(text, old)
  PROVE  /\ Blocks(text \o data) = Append(Blocks(text), Copied(old, r, data))
         /\ Len(text \o data) % Block = 0
  <1>1. PICK a, m, n, A, long : a = Len(text) \div Block /\ m = Len(text) /\ n = Len(data)
                                /\ A = a * Block /\ long = text \o data
    OBVIOUS
  <1>2. m \in Nat /\ n \in Nat
    BY <1>1
  <1>3. Block \in Nat \ {0} /\ a \in Nat /\ A \in Nat /\ r \in Nat /\ m = A + r /\ r + n = Block
    BY <1>1, <1>2, ByBlocks
  <1>4. /\ long \in Seq(T) /\ Len(long) = m + n
        /\ \A i \in 1..m : long[i] = text[i]
        /\ \A i \in 1..n : long[m + i] = data[i]
    BY <1>1, Joined
  <1>5. Len(long) \div Block = a + 1 /\ Len(long) % Block = 0
    <2>1. PICK x, q : x = m + n /\ q = a + 1
      OBVIOUS
    <2>2. q * Block = A + Block
      <3>1. (a + 1) * Block = (a * Block) + Block
        BY <1>3
      <3>2. QED
        BY <1>1, <2>1, <3>1
    <2>3. x \in Int /\ q \in Int /\ x = A + Block
      BY <1>2, <1>3, <2>1, SMTT(20)
    <2>4. x \div Block = q /\ x % Block = 0
      <3>1. x = (q * Block) + 0
        BY <1>3, <2>2, <2>3
      <3>2. 0 \in Nat /\ 0 < Block
        BY <1>3
      <3>3. QED
        BY <1>3, <2>3, <3>1, <3>2, DivisionIs
    <2>5. QED
      BY <1>4, <2>1, <2>4
  <1>6. PICK new : new = Copied(old, r, data)
    OBVIOUS
  <1>7. new = [i \in 1..Block |-> IF i > r /\ i <= r + n THEN data[i - r] ELSE old[i]]
    BY <1>1, <1>6 DEF Copied
  <1>8. \A j \in 1..r : old[j] = text[A + j]
    BY <1>1 DEF Rest
  <1>9. ASSUME NEW j \in 1..Block PROVE new[j] = long[A + j]
    <2>1. CASE j > r
      <3>1. j <= r + n /\ j - r \in 1..n /\ m + (j - r) = A + j
        BY <1>2, <1>3, <2>1
      <3>2. new[j] = data[j - r]
        BY <1>7, <2>1, <3>1
      <3>3. long[m + (j - r)] = data[j - r]
        BY <1>4, <3>1
      <3>4. QED
        BY <3>1, <3>2, <3>3
    <2>2. CASE ~(j > r)
      <3>1. j \in 1..r /\ A + j \in 1..m
        BY <1>3, <2>2
      <3>2. new[j] = old[j]
        BY <1>7, <2>2
      <3>3. QED
        BY <1>4, <1>8, <3>1, <3>2
    <2>3. QED
      BY <2>1, <2>2
  <1>10. PICK S, bt, bl, u : S = [1..Block -> T] /\ bt = Blocks(text) /\ bl = Blocks(long)
                             /\ u = <<new>>
    OBVIOUS
  <1>11. bt \in Seq(S) /\ Len(bt) = a /\ bl \in Seq(S) /\ Len(bl) = a + 1
    BY <1>1, <1>4, <1>5, <1>10, BlocksType
  <1>12. ASSUME NEW k \in 1..a PROVE bt[k] = bl[k]
    <2>1. PICK p : p = (k - 1) * Block
      OBVIOUS
    <2>2. p \in Nat /\ p + Block <= A
      BY <1>1, <1>3, <2>1, BlockEnds
    <2>3. ASSUME NEW j \in 1..Block PROVE text[p + j] = long[p + j]
      <3>1. p + j \in 1..m
        BY <1>3, <2>2
      <3>2. QED
        BY <1>4, <3>1
    <2>4. k \in 1..(a + 1)
      BY <1>3
    <2>5. bt[k] = [j \in 1..Block |-> text[p + j]]
      BY <1>1, <1>10, <2>1 DEF Blocks
    <2>6. bl[k] = [j \in 1..Block |-> long[p + j]]
      BY <1>5, <1>10, <2>1, <2>4 DEF Blocks
    <2>7. QED
      BY <2>3, <2>5, <2>6
  <1>13. new = bl[a + 1]
    <2>1. a + 1 \in 1..(a + 1) /\ (a + 1) - 1 = a
      BY <1>3
    <2>2. bl[a + 1] = [j \in 1..Block |-> long[A + j]]
      BY <1>1, <1>5, <1>10, <2>1 DEF Blocks
    <2>3. new = [j \in 1..Block |-> new[j]]
      BY <1>7
    <2>4. QED
      BY <1>9, <2>2, <2>3
  <1>14. bt \o u = bl
    <2>1. new \in S
      <3>1. a + 1 \in 1..(a + 1)
        BY <1>3
      <3>2. QED
        BY <1>11, <1>13, <3>1
    <2>2. u \in Seq(S) /\ Len(u) = 1 /\ u[1] = new
      BY <1>10, <2>1
    <2>3. /\ Len(bl) = Len(bt) + Len(u)
          /\ \A k \in 1..Len(bt) : bt[k] = bl[k]
          /\ \A k \in 1..Len(u) : u[k] = bl[Len(bt) + k]
      BY <1>3, <1>11, <1>12, <1>13, <2>2
    <2>4. QED
      BY <1>11, <2>2, <2>3, ConcatIs
  <1>15. Append(bt, new) = bt \o u
    BY <1>10, <1>11
  <1>16. QED
    BY <1>1, <1>5, <1>6, <1>10, <1>14, <1>15

\* md5_append takes the data, whatever waits in the buffer and however long the
\* data is.
LEMMA AppendTaken ==
  ASSUME NEW T, NEW text \in Seq(T), NEW data \in Seq(T), NEW s, Taken(s, text)
  PROVE  Taken(md5_append(s, data), text \o data)
  <1>1. PICK m, n, r, t, copy, head, tail, filled :
          /\ m = Len(text) /\ n = Len(data) /\ r = m % Block /\ t = Counted(s, n)
          /\ copy = (IF r + n > Block THEN Block - r ELSE n)
          /\ head = SubSeq(data, 1, copy) /\ tail = SubSeq(data, copy + 1, n)
          /\ filled = Copied(s.buf, r, head)
    OBVIOUS
  <1>2. m \in Nat /\ n \in Nat /\ Len(text \o data) = m + n
    BY <1>1
  <1>3. Block \in Nat \ {0} /\ r \in Nat /\ r < Block
    BY <1>1, <1>2, ByBlocks
  <1>4. /\ s = [count |-> CountOf(m), buf |-> s.buf, blocks |-> Blocks(text)]
        /\ Rest(text, s.buf)
    BY <1>1 DEF Taken
  <1>5. s.count = CountOf(m) /\ s.blocks = Blocks(text)
    BY <1>4
  <1>6. Offset(s) = r
    BY <1>1, <1>2, <1>5, OffsetIs
  <1>7. t = [count |-> CountOf(m + n), buf |-> s.buf, blocks |-> Blocks(text)]
    <2>1. s = [count |-> CountOf(m), buf |-> s.buf, blocks |-> s.blocks]
      BY <1>4, <1>5
    <2>2. t = [count |-> CountOf(m + n), buf |-> s.buf, blocks |-> s.blocks]
      BY <1>1, <1>2, <2>1, CountedIs
    <2>3. QED
      BY <1>5, <2>2
  <1>8. CASE n = 0
    <2>1. data = <<>>
      <3>1. Len(data) = 0
        BY <1>1, <1>8
      <3>2. QED
        BY <3>1
    <2>2. text \o data = text
      BY <2>1
    <2>3. md5_append(s, data) = s
      BY <1>1, <1>8 DEF md5_append
    <2>4. QED
      BY <2>2, <2>3
  <1>9. CASE n # 0 /\ r = 0
    <2>1. PICK u : u = AppendBlocks(t, data)
      OBVIOUS
    <2>2. md5_append(s, data) = u
      BY <1>1, <1>6, <1>9, <2>1 DEF md5_append
    <2>3. t = [count |-> t.count, buf |-> t.buf, blocks |-> Blocks(text)]
          /\ t.count = CountOf(m + n)
      BY <1>7
    <2>4. Len(text) % Block = 0
      BY <1>1, <1>9
    <2>5. /\ u = [count |-> t.count, buf |-> u.buf, blocks |-> Blocks(text \o data)]
          /\ Rest(text \o data, u.buf)
      BY <2>1, <2>3, <2>4, AppendBlocksTakes
    <2>6. QED
      BY <1>2, <2>2, <2>3, <2>5 DEF Taken
  <1>10. CASE n # 0 /\ r # 0 /\ r + copy < Block
    <2>1. copy = n /\ r + n < Block
      BY <1>1, <1>2, <1>3, <1>10
    <2>2. head = data
      BY <1>1, <2>1, SubSeqFull
    <2>3. md5_append(s, data) = [t EXCEPT !.buf = filled]
      BY <1>1, <1>6, <1>10 DEF md5_append
    <2>4. [t EXCEPT !.buf = filled]
            = [count |-> CountOf(m + n), buf |-> filled, blocks |-> Blocks(text)]
      BY <1>7
    <2>5. Blocks(text \o data) = Blocks(text) /\ Rest(text \o data, filled)
      BY <1>1, <1>4, <2>1, <2>2, RestLonger
    <2>6. QED
      BY <1>2, <2>3, <2>4, <2>5 DEF Taken
  <1>11. CASE n # 0 /\ r # 0 /\ ~(r + copy < Block)
    <2>1. copy = Block - r /\ copy \in Nat /\ copy <= n /\ r + copy = Block
      <3>1. copy = IF r + n > Block THEN Block - r ELSE n
        BY <1>1
      <3>2. copy = Block - r
        BY <1>2, <1>3, <1>11, <3>1
      <3>3. copy <= n
        BY <1>2, <1>3, <3>1
      <3>4. QED
        BY <1>3, <3>2, <3>3
    <2>2. head \in Seq(T) /\ Len(head) = copy
      <3>1. 0 \in Nat /\ 1 = 0 + 1 /\ copy = 0 + copy /\ copy <= Len(data)
        BY <1>1, <2>1
      <3>2. QED
        BY <1>1, <2>1, <3>1, Slice, SMTT(20)
    <2>3. tail \in Seq(T)
      <3>1. PICK left, x : left = n - copy /\ x = copy + 1
        OBVIOUS
      <3>2. n = Len(data) /\ tail = SubSeq(data, x, n)
        BY <1>1, <3>1
      <3>3. left \in Nat /\ n = copy + left
        BY <1>2, <2>1, <3>1
      <3>4. n <= Len(data) /\ copy \in Nat
        BY <1>2, <2>1, <3>2
      <3>5. QED
        <4>1. copy \in Nat /\ left \in Nat /\ n <= Len(data)
              /\ x = copy + 1 /\ n = copy + left /\ tail = SubSeq(data, x, n)
          BY <3>1, <3>2, <3>3, <3>4
        <4>2. QED
          BY <4>1, Slice, Zenon
    <2>4. head \o tail = data
      <3>1. /\ 1 \in 1..(Len(data) + 1) /\ copy \in (1 - 1)..Len(data)
            /\ Len(data) \in copy..Len(data)
        BY <1>1, <1>2, <2>1
      <3>2. SubSeq(data, 1, copy) \o SubSeq(data, copy + 1, Len(data)) = SubSeq(data, 1, Len(data))
        BY <3>1, ConcatAdjacentSubSeq
      <3>3. QED
        BY <1>1, <3>2, SubSeqFull
    <2>5. PICK long : long = text \o head
      OBVIOUS
    <2>6. long \in Seq(T) /\ long \o tail = text \o data
      <3>1. long \in Seq(T)
        BY <2>2, <2>5
      <3>2. (text \o head) \o tail = text \o (head \o tail)
        <4>1. head \in Seq(T) /\ tail \in Seq(T)
          BY <2>2, <2>3
        <4>2. QED
          BY <4>1, ConcatAssociative, SMTT(20)
      <3>3. QED
        BY <2>4, <2>5, <3>1, <3>2
    <2>7. Blocks(long) = Append(Blocks(text), filled) /\ Len(long) % Block = 0
      BY <1>1, <1>4, <2>1, <2>2, <2>5, RestFilled
    <2>8. PICK v, u : /\ v = [t EXCEPT !.buf = filled, !.blocks = Append(t.blocks, filled)]
                      /\ u = AppendBlocks(v, tail)
      OBVIOUS
    <2>9. md5_append(s, data) = u
      BY <1>1, <1>6, <1>11, <2>8 DEF md5_append
    <2>10. v = [count |-> v.count, buf |-> v.buf, blocks |-> Blocks(long)]
           /\ v.count = CountOf(m + n)
      BY <1>7, <2>7, <2>8
    <2>11. /\ u = [count |-> v.count, buf |-> u.buf, blocks |-> Blocks(long \o tail)]
           /\ Rest(long \o tail, u.buf)
      <3>1. long \in Seq(T) /\ Len(long) % Block = 0 /\ u = AppendBlocks(v, tail)
            /\ v = [count |-> v.count, buf |-> v.buf, blocks |-> Blocks(long)]
        BY <2>6, <2>7, <2>8, <2>10
      <3>2. QED
        BY <2>3, <3>1, AppendBlocksTakes
    <2>12. QED
      BY <1>2, <2>6, <2>9, <2>10, <2>11 DEF Taken
  <1>12. QED
    BY <1>8, <1>9, <1>10, <1>11

\* The blocks of a text whose last block is full, put together, are the text.
LEMMA FlattenBlocks ==
  ASSUME NEW T, NEW text \in Seq(T), Len(text) % Block = 0
  PROVE  FlattenSeq(Blocks(text)) = text
  <1>1. PICK a, m, A, bs : a = Len(text) \div Block /\ m = Len(text) /\ A = a * Block
                           /\ bs = Blocks(text)
    OBVIOUS
  <1>2. m \in Nat
    BY <1>1
  <1>3. Block \in Nat \ {0} /\ a \in Nat /\ A \in Nat /\ m = A
    <2>1. Block \in Nat \ {0} /\ a \in Nat /\ A \in Nat /\ m = A + 0
      BY <1>1, <1>2, ByBlocks
    <2>2. QED
      BY <2>1
  <1>4. bs \in Seq([1..Block -> T]) /\ Len(bs) = a
    BY <1>1, BlocksType
  <1>5. bs = [k \in 1..a |-> [j \in 1..Block |-> text[((k - 1) * Block) + j]]]
    BY <1>1 DEF Blocks
  \* A block is a slice of the text.
  <1>6. ASSUME NEW k \in 1..a PROVE bs[k] = SubSeq(text, ((k - 1) * Block) + 1, k * Block)
    <2>1. PICK p : p = (k - 1) * Block
      OBVIOUS
    <2>2. p \in Nat /\ k * Block = p + Block /\ p + Block <= A
      BY <1>1, <1>3, <2>1, BlockEnds
    <2>3. PICK x, y, z : x = p + 1 /\ y = p + Block /\ z = SubSeq(text, x, y)
      OBVIOUS
    <2>4. y <= Len(text) /\ Block \in Nat
      BY <1>1, <1>3, <2>2, <2>3
    <2>5. z \in Seq(T) /\ Len(z) = Block /\ \A j \in 1..Block : z[j] = text[p + j]
      BY <2>2, <2>3, <2>4, Slice
    <2>6. z = [j \in 1..Block |-> text[p + j]]
      <3>1. z = [j \in 1..Block |-> z[j]]
        BY <2>5
      <3>2. QED
        BY <2>5, <3>1
    <2>7. bs[k] = [j \in 1..Block |-> text[p + j]]
      BY <1>5, <2>1
    <2>8. QED
      BY <2>1, <2>2, <2>3, <2>6, <2>7
  <1>7. \A i \in 1..a : Flat(bs)[i] = FlatTurn(bs, Flat(bs), i)
    BY <1>4, FlatExists
  <1> DEFINE S == {k \in Nat : k \in 1..a => Flat(bs)[k] = SubSeq(text, 1, k * Block)}
  <1>8. 0 \in S
    OBVIOUS
  <1>9. ASSUME NEW k \in Nat, k \in S PROVE k + 1 \in S
    <2>1. ASSUME k + 1 \in 1..a PROVE Flat(bs)[k + 1] = SubSeq(text, 1, (k + 1) * Block)
      <3>1. PICK b, e : b = k * Block /\ e = (k + 1) * Block
        OBVIOUS
      <3>2. b \in Nat /\ e = b + Block /\ e <= A
        <4>1. PICK l : l = k + 1
          OBVIOUS
        <4>2. l \in 1..a /\ l - 1 = k
          BY <2>1, <4>1
        <4>3. (l - 1) * Block \in Nat /\ l * Block = ((l - 1) * Block) + Block
              /\ ((l - 1) * Block) + Block <= a * Block
          BY <1>3, <4>2, BlockEnds
        <4>4. QED
          BY <1>1, <3>1, <4>1, <4>2, <4>3
      <3>3. bs[k + 1] = SubSeq(text, b + 1, e)
        <4>1. (k + 1) - 1 = k
          OBVIOUS
        <4>2. QED
          BY <1>6, <2>1, <3>1, <4>1
      <3>4. CASE k = 0
        <4>1. b = 0 /\ k + 1 = 1
          BY <1>3, <3>1, <3>4
        <4>2. Flat(bs)[k + 1] = bs[k + 1]
          BY <1>7, <2>1, <4>1 DEF FlatTurn
        <4>3. QED
          BY <3>1, <3>3, <4>1, <4>2
      <3>5. CASE k # 0
        <4>1. k \in 1..a /\ (k + 1) - 1 = k /\ k + 1 # 1
          BY <1>3, <2>1, <3>5
        <4>2. Flat(bs)[k + 1] = Flat(bs)[k] \o bs[k + 1]
          BY <1>7, <2>1, <4>1 DEF FlatTurn
        <4>3. Flat(bs)[k] = SubSeq(text, 1, b)
          BY <1>9, <3>1, <4>1
        <4>4. SubSeq(text, 1, b) \o SubSeq(text, b + 1, e) = SubSeq(text, 1, e)
          <5>1. m = Len(text)
            BY <1>1
          <5>2. 1 \in 1..(m + 1) /\ b \in (1 - 1)..m /\ e \in b..m
            BY <1>3, <3>2
          <5>3. QED
            BY <5>1, <5>2, ConcatAdjacentSubSeq
        <4>5. QED
          BY <3>1, <3>3, <4>2, <4>3, <4>4
      <3>6. QED
        BY <3>4, <3>5
    <2>2. QED
      BY <2>1
  <1>10. \A k \in Nat : k \in S
    <2> HIDE DEF S
    <2>1. QED
      BY <1>8, <1>9, SetInduction
  <1>11. CASE a = 0
    <2>1. m = 0
      BY <1>1, <1>3, <1>11
    <2>2. text = <<>>
      <3>1. Len(text) = 0
        BY <1>1, <2>1
      <3>2. QED
        BY <3>1
    <2>3. bs = <<>>
      BY <1>4, <1>11
    <2>4. FlattenSeq(bs) = bs
      BY <1>4, <1>11, FlattenSeqIs
    <2>5. QED
      BY <1>1, <2>2, <2>3, <2>4
  <1>12. CASE a # 0
    <2>1. a \in 1..a
      BY <1>3, <1>12
    <2>2. Flat(bs)[a] = SubSeq(text, 1, A)
      BY <1>1, <1>3, <1>10, <2>1
    <2>3. SubSeq(text, 1, Len(text)) = text
      BY SubSeqFull
    <2>4. Flat(bs)[a] = text
      BY <1>1, <1>3, <2>2, <2>3
    <2>5. FlattenSeq(bs) = Flat(bs)[a]
      BY <1>4, <1>12, FlattenSeqIs
    <2>6. QED
      BY <1>1, <2>4, <2>5
  <1>13. QED
    BY <1>11, <1>12

\* The padding of a message is the one of RFC 1321, and it fills the last block.
LEMMA PaddedIs ==
  ASSUME NEW data \in Seq(Nat), NEW k \in 0..(Block - 1),
         (((Len(data) + 1) + k) + (2 * Half)) % Block = 0
  PROVE  Padded(data) = ((data \o <<One>>) \o Zeros(k)) \o LengthField(data)
  <1>1. PICK m, field : m = Len(data) /\ field = 2 * Half
    OBVIOUS
  <1>2. m \in Nat /\ field \in Nat /\ Block \in Nat \ {0}
    <2>1. Half \in Nat /\ Block \in Nat \ {0}
      BY Md5Assumption
    <2>2. Len(data) \in Nat
      OBVIOUS
    <2>3. QED
      BY <1>1, <2>1, <2>2
  <1>3. ASSUME NEW l \in 0..(Block - 1), (((m + 1) + l) + field) % Block = 0 PROVE l = k
    <2>1. PICK x, y, p, q : /\ x = ((m + 1) + l) + field /\ p = x \div Block
                            /\ y = ((m + 1) + k) + field /\ q = y \div Block
      OBVIOUS
    <2>2. x % Block = 0 /\ y % Block = 0 /\ x \in Nat /\ y \in Nat
      <3>1. x % Block = 0
        BY <1>3, <2>1
      <3>2. y % Block = 0
        <4>1. y = ((Len(data) + 1) + k) + (2 * Half)
          BY <1>1, <2>1
        <4>2. QED
          BY <4>1
      <3>3. x \in Nat /\ y \in Nat
        <4>1. l \in Nat /\ k \in Nat
          BY <1>2
        <4>2. QED
          BY <1>2, <2>1, <4>1
      <3>4. QED
        BY <3>1, <3>2, <3>3
    <2>3. x = (p * Block) + 0 /\ p \in Int
      BY <1>2, <2>1, <2>2, Division
    <2>4. y = (q * Block) + 0 /\ q \in Int
      BY <1>2, <2>1, <2>2, Division
    <2>5. x - y = l - k /\ x - y < Block /\ y - x < Block
      BY <1>2, <2>1
    <2>6. p = q
      <3>1. CASE p > q
        <4>1. (p - q) * Block >= Block
          BY <1>2, <2>3, <2>4, <3>1
        <4>2. (p - q) * Block = (p * Block) - (q * Block)
          BY <1>2, <2>3, <2>4
        <4>3. QED
          BY <1>2, <2>2, <2>3, <2>4, <2>5, <4>1, <4>2
      <3>2. CASE p < q
        <4>1. (q - p) * Block >= Block
          BY <1>2, <2>3, <2>4, <3>2
        <4>2. (q - p) * Block = (q * Block) - (p * Block)
          BY <1>2, <2>3, <2>4
        <4>3. QED
          BY <1>2, <2>2, <2>3, <2>4, <2>5, <4>1, <4>2
      <3>3. QED
        BY <2>3, <2>4, <3>1, <3>2
    <2>7. x = y
      BY <2>3, <2>4, <2>6
    <2>8. QED
      BY <1>2, <2>2, <2>5, <2>7
  <1>4. k = CHOOSE l \in 0..(Block - 1) : (((Len(data) + 1) + l) + (2 * Half)) % Block = 0
    BY <1>1, <1>3
  <1>5. QED
    BY <1>4 DEF Padded

\* Whatever the data, md5_process is given the padded message, block for block.
LEMMA DigestIs ==
  ASSUME NEW data \in Seq(Nat)
  PROVE  FlattenSeq(Digest(data)) = Padded(data)
  <1>1. PICK m, s, n, k, pad, t, bytes, u :
          /\ m = Len(data) /\ s = md5_append(md5_init, data)
          /\ n = PadLength(s) /\ k = n - 1 /\ pad = <<One>> \o Zeros(k)
          /\ t = md5_append(s, pad) /\ bytes = CountBytes(s) /\ u = md5_append(t, bytes)
    OBVIOUS
  <1>2. /\ Block \in Nat \ {0} /\ Half \in Nat \ {0} /\ Unit \in Nat \ {0}
        /\ Base \in Nat \ {0} /\ m \in Nat
    BY <1>1, Md5Assumption
  <1>3. Taken(s, data)
    <2>1. <<>> \in Seq(Nat) /\ <<>> \o data = data
      OBVIOUS
    <2>2. Taken(md5_append(md5_init, <<>> \o data), <<>> \o data)
      BY <2>1, InitTaken, AppendTaken
    <2>3. QED
      BY <1>1, <2>1, <2>2
  <1>4. s.count = CountOf(m)
    <2>1. s = [count |-> CountOf(m), buf |-> s.buf, blocks |-> Blocks(data)]
      BY <1>1, <1>3 DEF Taken
    <2>2. QED
      BY <2>1
  <1>5. n \in 1..Block /\ k \in 0..(Block - 1) /\ (((m + 1) + k) + (2 * Half)) % Block = 0
    BY <1>1, <1>2, <1>4, PadLengthIs
  <1>6. Zeros(k) \in Seq(Nat) /\ Len(Zeros(k)) = k
    BY <1>2, <1>5 DEF Zeros
  <1>7. One \in Nat
    BY <1>2 DEF One
  <1>8. pad \in Seq(Nat) /\ Len(pad) = 1 + k
    <2>1. <<One>> \in Seq(Nat) /\ Len(<<One>>) = 1
      BY <1>7
    <2>2. /\ <<One>> \o Zeros(k) \in Seq(Nat)
          /\ Len(<<One>> \o Zeros(k)) = Len(<<One>>) + Len(Zeros(k))
      BY <1>6, <2>1, Joined
    <2>3. QED
      BY <1>1, <1>6, <2>1, <2>2
  <1>9. bytes = LengthField(data)
    <2>1. PICK bits : bits = m * Unit
      OBVIOUS
    <2>2. bits \in Nat /\ s.count = <<bits % Word, (bits \div Word) % Word>>
      BY <1>2, <1>4, <2>1 DEF CountOf
    <2>3. CountBytes(s) = [i \in 1..(2 * Half) |-> (bits \div Place[i - 1]) % Base]
      BY <2>2, CountBytesAre
    <2>4. QED
      BY <1>1, <2>1, <2>3 DEF LengthField
  <1>10. bytes \in Seq(Nat) /\ Len(bytes) = 2 * Half
    <2>1. ASSUME NEW i \in 1..(2 * Half) PROVE ((m * Unit) \div Place[i - 1]) % Base \in Nat
      <3>1. Place[i - 1] \in Nat \ {0}
        BY <1>2, PlaceType
      <3>2. m * Unit \in Nat
        BY <1>2
      <3>3. (m * Unit) \div Place[i - 1] \in Nat
        BY <3>1, <3>2, QuotientOfNat
      <3>4. QED
        BY <1>2, <3>3, Division
    <2>2. bytes = [i \in 1..(2 * Half) |-> ((m * Unit) \div Place[i - 1]) % Base]
      BY <1>1, <1>9 DEF LengthField
    <2>3. QED
      BY <1>2, <2>1, <2>2
  <1>11. Taken(t, data \o pad)
    BY <1>1, <1>3, <1>8, AppendTaken
  <1>12. PICK text : text = (data \o pad) \o bytes
    OBVIOUS
  <1>13. Taken(u, text)
    <2>1. data \o pad \in Seq(Nat)
      BY <1>8
    <2>2. QED
      BY <1>1, <1>10, <1>11, <1>12, <2>1, AppendTaken
  <1>14. text \in Seq(Nat) /\ Len(text) = (m + (1 + k)) + (2 * Half)
    <2>1. data \o pad \in Seq(Nat) /\ Len(data \o pad) = Len(data) + Len(pad)
      <3>1. pad \in Seq(Nat)
        BY <1>8
      <3>2. QED
        BY <3>1, Joined
    <2>2. text \in Seq(Nat) /\ Len(text) = Len(data \o pad) + Len(bytes)
      <3>1. bytes \in Seq(Nat)
        BY <1>10
      <3>2. (data \o pad) \o bytes \in Seq(Nat)
            /\ Len((data \o pad) \o bytes) = Len(data \o pad) + Len(bytes)
        BY <2>1, <3>1, Joined
      <3>3. QED
        BY <1>12, <3>2
    <2>3. m = Len(data)
      BY <1>1
    <2>4. QED
      BY <1>8, <1>10, <2>1, <2>2, <2>3
  <1>15. Len(text) % Block = 0
    <2>1. (m + (1 + k)) + (2 * Half) = ((m + 1) + k) + (2 * Half)
      BY <1>2, <1>5
    <2>2. QED
      BY <1>5, <1>14, <2>1
  <1>16. Digest(data) = Blocks(text)
    <2>1. u.blocks = Blocks(text)
      BY <1>13 DEF Taken
    <2>2. Digest(data) = u.blocks
      BY <1>1 DEF Digest, md5_finish
    <2>3. QED
      BY <2>1, <2>2
  <1>17. FlattenSeq(Blocks(text)) = text
    BY <1>14, <1>15, FlattenBlocks
  <1>18. text = Padded(data)
    <2>1. Padded(data) = ((data \o <<One>>) \o Zeros(k)) \o LengthField(data)
      BY <1>1, <1>5, PaddedIs
    <2>2. data \o pad = (data \o <<One>>) \o Zeros(k)
      <3>1. <<One>> \in Seq(Nat)
        BY <1>7
      <3>2. (data \o <<One>>) \o Zeros(k) = data \o (<<One>> \o Zeros(k))
        BY <1>6, <3>1, ConcatAssociative
      <3>3. QED
        BY <1>1, <3>2
    <2>3. QED
      BY <1>9, <1>12, <2>1, <2>2
  <1>19. QED
    BY <1>16, <1>17, <1>18

-----------------------------------------------------------------------------
(* The names of images *)

\* A text that is answered has no result or one, with the name of its image.
NameInv ==
  /\ pc = "idle" => message = {}
  /\ pc \in {"operate", "free", "reply"} /\ message # {} =>
       infos = <<>> \/ infos = <<Result(200, Digest(buff))>>

LEMMA InitNames == Init => NameInv
  BY DEF Init, NameInv

LEMMA NextNames == NameInv /\ [Next]_vars => NameInv'
  <1> SUFFICES ASSUME NameInv, [Next]_vars PROVE NameInv'
    OBVIOUS
  <1>1. CASE ReceiveText
    BY <1>1 DEF ReceiveText, NameInv
  <1>2. CASE ReceiveOther
    <2>1. pc' \in {"operate", "dead"} /\ message' = {}
      BY <1>2 DEF ReceiveOther, ReceiveRefused, ReceiveUpload, ReceiveUnparsed,
                  ReceiveFatal, MakeList, NameInv
    <2>2. QED
      BY <2>1 DEF NameInv
  <1>3. ASSUME Refuse PROVE NameInv'
    <2>1. infos' = <<>> /\ pc' = "operate"
      BY <1>3 DEF Refuse, MakeList
    <2>2. QED
      BY <2>1 DEF NameInv
  <1>4. CASE Decode
    <2>1. CASE Refuse
      BY <1>3, <2>1
    <2>2. CASE ~Refuse
      <3>1. pc' = "save"
        BY <1>4, <2>2 DEF Decode
      <3>2. QED
        BY <3>1 DEF NameInv
    <2>3. QED
      BY <2>1, <2>2
  <1>5. CASE Save
    <2>1. CASE Refuse
      BY <1>3, <2>1
    <2>2. CASE ~Refuse
      <3>1. pc' = "operate" /\ infos' = <<Result(200, Digest(buff))>> /\ buff' = buff
        BY <1>5, <2>2 DEF Save, MakeList
      <3>2. QED
        BY <3>1 DEF NameInv
    <2>3. QED
      BY <2>1, <2>2
  <1>6. CASE Operate \/ PrintJson \/ FreeNode \/ FreeList
    <2>1. UNCHANGED <<message, infos, buff>> /\ pc \in {"operate", "free"}
          /\ pc' # "idle"
      BY <1>6 DEF Operate, PrintJson, FreeNode, FreeList
    <2>2. QED
      BY <2>1 DEF NameInv
  <1>7. CASE Reply
    BY <1>7 DEF Reply, NameInv
  <1>8. CASE UNCHANGED vars
    BY <1>8 DEF vars, NameInv
  <1>9. QED
    BY <1>1, <1>2, <1>4, <1>5, <1>6, <1>7, <1>8 DEF Next, Work

\* However many results an answer has, each of them is in its array once, the
\* last one first; and whatever the text and its image, the image is named by
\* the blocks that RFC 1321 has for its bytes.
THEOREM AnswersNameImages == Spec => []AnswerNamesImage
  <1>1. MemoryInv /\ TypeInv /\ NameInv => AnswerNamesImage
    <2> SUFFICES ASSUME MemoryInv, TypeInv, NameInv, pc \in {"free", "reply"}
                 PROVE  /\ array = Reverse(infos)
                        /\ message # {} =>
                             \A i \in DOMAIN array : FlattenSeq(array[i].name) = Padded(buff)
      BY DEF AnswerNamesImage
    <2>1. array = Reverse(infos)
      BY DEF MemoryInv, FreeInv
    <2>2. ASSUME message # {}, NEW i \in DOMAIN array
          PROVE  array[i].name = Digest(buff)
      <3>1. CASE infos = <<>>
        <4>1. Reverse(infos) = <<>>
          BY <3>1 DEF Reverse
        <4>2. QED
          BY <2>1, <2>2, <4>1
      <3>2. CASE infos = <<Result(200, Digest(buff))>>
        <4>1. PICK r : r = Result(200, Digest(buff))
          OBVIOUS
        <4>2. Reverse(infos) = [j \in 1..1 |-> infos[(1 - j) + 1]] /\ infos = <<r>>
          BY <3>2, <4>1 DEF Reverse
        <4>3. i = 1 /\ array[i] = r
          BY <2>1, <2>2, <4>2
        <4>4. r.name = Digest(buff)
          BY <4>1 DEF Result
        <4>5. QED
          BY <4>3, <4>4
      <3>3. QED
        BY <2>2, <3>1, <3>2 DEF NameInv
    <2>3. FlattenSeq(Digest(buff)) = Padded(buff)
      <3>1. buff \in Seq(Nat)
        <4>1. buff \in Seq(Byte)
          BY DEF TypeInv
        <4>2. PICK n : n = Len(buff)
          OBVIOUS
        <4>3. n \in Nat /\ \A j \in 1..n : buff[j] \in Byte
          BY <4>1, <4>2
        <4>6. buff = [j \in 1..n |-> buff[j]]
          BY <4>1, <4>2
        <4>4. \A j \in 1..n : buff[j] \in Nat
          BY <4>3 DEF Byte
        <4>5. [j \in 1..n |-> buff[j]] \in Seq(Nat)
          BY <4>3, <4>4
        <4>7. QED
          BY <4>5, <4>6
      <3>2. QED
        BY <3>1, DigestIs
    <2>4. QED
      BY <2>1, <2>2, <2>3
  <1>2. Spec => []TypeInv
    BY InitType, NextType, PTL DEF Spec
  <1>3. Spec => []NameInv
    BY InitNames, NextNames, PTL DEF Spec
  <1>4. QED
    BY <1>1, <1>2, <1>3, MemoryHolds, PTL

-----------------------------------------------------------------------------
(* Escaped texts: url_decode takes every escape back *)

\* A text with a character in front of it.
LEMMA InFront ==
  ASSUME NEW T, NEW c \in T, NEW r \in Seq(T)
  PROVE  /\ <<c>> \o r \in Seq(T) /\ Len(<<c>> \o r) = Len(r) + 1
         /\ (<<c>> \o r)[1] = c
         /\ \A i \in 1..Len(r) : (<<c>> \o r)[i + 1] = r[i]
  OBVIOUS

\* What url_decode makes of a text does not depend on what is in front of it.
LEMMA UrlTurnShifts ==
  ASSUME NEW c \in Byte, NEW r \in Seq(Byte), NEW f, NEW g, NEW i \in 1..(Len(r) + 1),
         \A j \in 1..(Len(r) + 1) : j > i => f[j + 1] = g[j]
  PROVE  UrlTurn(<<c>> \o r, f, i + 1) = UrlTurn(r, g, i)
  <1>1. PICK s, n : s = <<c>> \o r /\ n = Len(r)
    OBVIOUS
  <1>2. n \in Nat /\ Len(s) = n + 1 /\ \A j \in 1..n : s[j + 1] = r[j]
    BY <1>1, InFront
  <1>3. i \in 1..(n + 1) /\ \A j \in 1..(n + 1) : j > i => f[j + 1] = g[j]
    BY <1>1
  <1>4. ASSUME NEW j \in Nat \ {0} PROVE UrlHex(s, j + 1) <=> UrlHex(r, j)
    <2>1. j + 1 <= Len(s) <=> j <= Len(r)
      BY <1>1, <1>2
    <2>2. j <= n => s[j + 1] = r[j]
      BY <1>2
    <2>3. QED
      BY <1>1, <2>1, <2>2 DEF UrlHex
  <1>5. CASE i > n
    <2>1. i + 1 > Len(s) /\ i > Len(r)
      BY <1>1, <1>2, <1>5
    <2>2. QED
      BY <1>1, <2>1 DEF UrlTurn
  <1>6. CASE i <= n
    <2>1. ~(i + 1 > Len(s)) /\ ~(i > Len(r)) /\ s[i + 1] = r[i]
      BY <1>1, <1>2, <1>3, <1>6
    <2>2. (i + 1 = Len(s) <=> i = Len(r)) /\ f[(i + 1) + 1] = g[i + 1]
      <3>1. i + 1 = Len(s) <=> i = Len(r)
        BY <1>1, <1>2, <1>3
      <3>2. i + 1 \in 1..(n + 1) /\ i + 1 > i
        BY <1>2, <1>3, <1>6
      <3>3. f[(i + 1) + 1] = g[i + 1]
        BY <1>3, <3>2
      <3>4. QED
        BY <3>1, <3>3
    <2>3. CASE s[i + 1] # 37 \/ i + 1 = Len(s)
      <3>1. UrlTurn(s, f, i + 1) = <<s[i + 1]>> \o f[(i + 1) + 1]
        BY <2>1, <2>3 DEF UrlTurn
      <3>2. UrlTurn(r, g, i) = <<r[i]>> \o g[i + 1]
        BY <2>1, <2>2, <2>3 DEF UrlTurn
      <3>3. QED
        BY <1>1, <2>1, <2>2, <3>1, <3>2
    <2>4. CASE ~(s[i + 1] # 37 \/ i + 1 = Len(s)) /\ UrlHex(r, i + 1) /\ UrlHex(r, i + 2)
      <3>1. i + 2 <= n
        BY <1>1, <2>4 DEF UrlHex
      <3>2. /\ (i + 1) + 1 = i + 2 /\ (i + 1) + 2 = i + 3 /\ (i + 1) + 3 = (i + 3) + 1
            /\ s[i + 2] = r[i + 1] /\ s[i + 3] = r[i + 2] /\ f[(i + 3) + 1] = g[i + 3]
        <4>1. i + 3 \in 1..(n + 1) /\ i + 1 \in 1..n /\ i + 2 \in 1..n
          BY <1>2, <1>3, <3>1
        <4>2. s[(i + 1) + 1] = r[i + 1] /\ s[(i + 2) + 1] = r[i + 2]
          BY <1>2, <4>1
        <4>3. QED
          BY <1>3, <4>1, <4>2
      <3>3. UrlHex(s, i + 2) /\ UrlHex(s, i + 3)
        <4>1. i + 1 \in Nat \ {0} /\ i + 2 \in Nat \ {0}
          BY <1>3
        <4>2. UrlHex(s, (i + 1) + 1) /\ UrlHex(s, (i + 2) + 1)
          BY <1>4, <2>4, <4>1
        <4>3. (i + 1) + 1 = i + 2 /\ (i + 2) + 1 = i + 3
          BY <1>3
        <4>4. QED
          BY <4>2, <4>3
      <3>4. UrlTurn(s, f, i + 1)
              = <<(HexValue(s[i + 2]) * 16) + HexValue(s[i + 3])>> \o f[(i + 3) + 1]
        BY <2>1, <2>4, <3>2, <3>3 DEF UrlTurn
      <3>5. UrlTurn(r, g, i)
              = <<(HexValue(r[i + 1]) * 16) + HexValue(r[i + 2])>> \o g[i + 3]
        BY <2>1, <2>2, <2>4 DEF UrlTurn
      <3>6. QED
        BY <1>1, <3>2, <3>4, <3>5
    <2>5. CASE ~(s[i + 1] # 37 \/ i + 1 = Len(s)) /\ ~(UrlHex(r, i + 1) /\ UrlHex(r, i + 2))
      <3>1. ~(UrlHex(s, (i + 1) + 1) /\ UrlHex(s, (i + 1) + 2))
        <4>1. (UrlHex(s, (i + 1) + 1) <=> UrlHex(r, i + 1))
              /\ (UrlHex(s, (i + 2) + 1) <=> UrlHex(r, i + 2))
          BY <1>4, SMTT(20)
        <4>2. (i + 2) + 1 = (i + 1) + 2
          OBVIOUS
        <4>3. QED
          BY <2>5, <4>1, <4>2
      <3>2. UrlTurn(s, f, i + 1) = f[(i + 1) + 1]
        BY <2>1, <2>5, <3>1 DEF UrlTurn
      <3>3. UrlTurn(r, g, i) = g[i + 1]
        BY <2>1, <2>2, <2>5 DEF UrlTurn
      <3>4. QED
        BY <1>1, <2>2, <3>2, <3>3
    <2>6. QED
      BY <2>3, <2>4, <2>5
  <1>7. QED
    BY <1>2, <1>3, <1>5, <1>6

LEMMA UrlFromShifts ==
  ASSUME NEW c \in Byte, NEW r \in Seq(Byte)
  PROVE  \A i \in 1..(Len(r) + 1) : UrlFrom(<<c>> \o r)[i + 1] = UrlFrom(r)[i]
  <1>1. PICK s, n, f, g : s = <<c>> \o r /\ n = Len(r) /\ f = UrlFrom(s) /\ g = UrlFrom(r)
    OBVIOUS
  <1>2. s \in Seq(Byte) /\ n \in Nat /\ Len(s) = n + 1
    BY <1>1, InFront
  <1> DEFINE S == {m \in Nat : \A i \in 1..(n + 1) : i > (n + 1) - m => f[i + 1] = g[i]}
  <1>3. 0 \in S
    BY <1>2
  <1>4. ASSUME NEW m \in Nat, m \in S PROVE m + 1 \in S
    <2>1. ASSUME NEW i \in 1..(n + 1), i > (n + 1) - (m + 1) PROVE f[i + 1] = g[i]
      <3>1. \A j \in 1..(Len(r) + 1) : j > i => f[j + 1] = g[j]
        <4>1. ASSUME NEW j \in 1..(n + 1), j > i PROVE f[j + 1] = g[j]
          <5>1. j > (n + 1) - m
            BY <1>2, <2>1, <4>1
          <5>2. QED
            BY <1>4, <4>1, <5>1
        <4>2. QED
          BY <1>1, <4>1
      <3>2. UrlTurn(s, f, i + 1) = UrlTurn(r, g, i)
        <4>1. i \in 1..(Len(r) + 1)
          BY <1>1, <2>1
        <4>2. UrlTurn(<<c>> \o r, f, i + 1) = UrlTurn(r, g, i)
          BY <3>1, <4>1, UrlTurnShifts
        <4>3. QED
          BY <1>1, <4>2
      <3>3. f[i + 1] = UrlTurn(s, f, i + 1)
        <4>1. i + 1 \in 1..(Len(s) + 1)
          BY <1>2
        <4>2. QED
          BY <1>1, <1>2, <4>1, UrlFromExists
      <3>4. g[i] = UrlTurn(r, g, i)
        BY <1>1, UrlFromExists
      <3>5. QED
        BY <3>2, <3>3, <3>4
    <2>2. QED
      BY <2>1
  <1>5. n + 1 \in S
    <2> HIDE DEF S
    <2>1. \A m \in Nat : m \in S
      BY <1>3, <1>4, SetInduction
    <2>2. QED
      BY <1>2, <2>1
  <1>6. \A i \in 1..(n + 1) : f[i + 1] = g[i]
    BY <1>2, <1>5
  <1>7. QED
    BY <1>1, <1>6

\* url_decode, character by character.
LEMMA UrlDecodesEnd ==
  /\ url_decode(<<>>) = <<>>
  /\ url_decode(<< 37 >>) = << 37 >>
  <1>1. UrlFrom(<<>>)[1] = <<>>
    <2>1. PICK s : s = <<>>
      OBVIOUS
    <2>2. s \in Seq(Byte) /\ Len(s) = 0 /\ 1 \in 1..(Len(s) + 1)
      BY <2>1
    <2>3. UrlFrom(s)[1] = UrlTurn(s, UrlFrom(s), 1)
      BY <2>2, UrlFromExists
    <2>4. UrlFrom(s)[1] = <<>>
      BY <2>2, <2>3 DEF UrlTurn
    <2>5. QED
      BY <2>1, <2>4
  <1>2. UrlFrom(<< 37 >>)[1] = << 37 >>
    <2>1. PICK s : s = << 37 >>
      OBVIOUS
    <2>2. 37 \in Byte /\ s \in Seq(Byte) /\ Len(s) = 1 /\ s[1] = 37
      BY <2>1 DEF Byte
    <2>3. UrlFrom(s)[1] = UrlTurn(s, UrlFrom(s), 1) /\ UrlFrom(s)[2] = UrlTurn(s, UrlFrom(s), 2)
      BY <2>2, UrlFromExists, SMTT(20)
    <2>4. UrlFrom(s)[2] = <<>>
      BY <2>2, <2>3 DEF UrlTurn
    <2>5. UrlFrom(s)[1] = << 37 >> \o UrlFrom(s)[1 + 1]
      BY <2>2, <2>3 DEF UrlTurn
    <2>6. UrlFrom(s)[1 + 1] = <<>>
      BY <2>4
    <2>7. UrlFrom(s)[1] = << 37 >>
      BY <2>5, <2>6
    <2>8. QED
      BY <2>1, <2>7
  <1>3. QED
    BY <1>1, <1>2, UrlDecodeIs

LEMMA UrlDecodesPlain ==
  ASSUME NEW c \in Byte, c # 37, NEW r \in Seq(Byte)
  PROVE  url_decode(<<c>> \o r) = <<c>> \o url_decode(r)
  <1>1. PICK s : s = <<c>> \o r
    OBVIOUS
  <1>2. s \in Seq(Byte) /\ Len(s) = Len(r) + 1 /\ Len(r) \in Nat /\ s[1] = c
    BY <1>1, InFront
  <1>3. UrlFrom(s)[1] = UrlTurn(s, UrlFrom(s), 1)
    BY <1>2, UrlFromExists
  <1>4. UrlFrom(s)[1] = <<c>> \o UrlFrom(s)[1 + 1]
    BY <1>2, <1>3 DEF UrlTurn
  <1>5. UrlFrom(s)[1 + 1] = UrlFrom(r)[1]
    <2>1. 1 \in 1..(Len(r) + 1)
      BY <1>2
    <2>2. QED
      BY <1>1, <2>1, UrlFromShifts
  <1>6. QED
    BY <1>1, <1>4, <1>5, UrlDecodeIs

LEMMA UrlDecodesStray ==
  ASSUME NEW c \in Byte, HexValue(c) < 0, NEW r \in Seq(Byte)
  PROVE  url_decode(<< 37 >> \o (<<c>> \o r)) = url_decode(<<c>> \o r)
  <1>1. PICK t, s : t = <<c>> \o r /\ s = << 37 >> \o t
    OBVIOUS
  <1>2. t \in Seq(Byte) /\ Len(t) = Len(r) + 1 /\ Len(r) \in Nat /\ t[1] = c
    BY <1>1, InFront
  <1>3. 37 \in Byte
    BY DEF Byte
  <1>4. s \in Seq(Byte) /\ Len(s) = Len(t) + 1 /\ s[1] = 37
        /\ \A i \in 1..Len(t) : s[i + 1] = t[i]
    BY <1>1, <1>2, <1>3, InFront
  <1>5. s[1 + 1] = c
    BY <1>2, <1>4
  <1>6. UrlFrom(s)[1] = UrlTurn(s, UrlFrom(s), 1)
    BY <1>2, <1>4, UrlFromExists
  <1>7. ~UrlHex(s, 1 + 1)
    <2>1. HexValue(c) \in Int
      BY HexValueType
    <2>2. QED
      BY <1>5, <2>1 DEF UrlHex
  <1>8. UrlFrom(s)[1] = UrlFrom(s)[1 + 1]
    BY <1>2, <1>4, <1>6, <1>7 DEF UrlTurn
  <1>9. UrlFrom(s)[1 + 1] = UrlFrom(t)[1]
    <2>1. 1 \in 1..(Len(t) + 1)
      BY <1>2
    <2>2. QED
      BY <1>1, <1>2, <1>3, <2>1, UrlFromShifts
  <1>10. QED
    BY <1>1, <1>8, <1>9, UrlDecodeIs

LEMMA UrlDecodesEscape ==
  ASSUME NEW a \in Byte, NEW b \in Byte, HexValue(a) >= 0, HexValue(b) >= 0,
         NEW r \in Seq(Byte)
  PROVE  url_decode(<< 37 >> \o (<<a>> \o (<<b>> \o r)))
           = <<(HexValue(a) * 16) + HexValue(b)>> \o url_decode(r)
  <1>1. PICK u, t, s : u = <<b>> \o r /\ t = <<a>> \o u /\ s = << 37 >> \o t
    OBVIOUS
  <1>2. u \in Seq(Byte) /\ Len(u) = Len(r) + 1 /\ Len(r) \in Nat /\ u[1] = b
    BY <1>1, InFront
  <1>3. t \in Seq(Byte) /\ Len(t) = Len(u) + 1 /\ t[1] = a
        /\ \A i \in 1..Len(u) : t[i + 1] = u[i]
    BY <1>1, <1>2, InFront
  <1>4. 37 \in Byte
    BY DEF Byte
  <1>5. s \in Seq(Byte) /\ Len(s) = Len(t) + 1 /\ s[1] = 37
        /\ \A i \in 1..Len(t) : s[i + 1] = t[i]
    BY <1>1, <1>3, <1>4, InFront
  <1>6. s[2] = a /\ s[3] = b /\ Len(s) = Len(r) + 3
    <2>1. s[1 + 1] = t[1] /\ s[2 + 1] = t[2] /\ t[1 + 1] = u[1]
      BY <1>2, <1>3, <1>5
    <2>2. QED
      BY <1>2, <1>3, <1>5, <2>1
  <1>7. UrlFrom(s)[1] = UrlTurn(s, UrlFrom(s), 1)
    BY <1>2, <1>5, <1>6, UrlFromExists
  <1>8. UrlHex(s, 2) /\ UrlHex(s, 3)
    BY <1>2, <1>6 DEF UrlHex
  <1>9. UrlFrom(s)[1] = <<(HexValue(a) * 16) + HexValue(b)>> \o UrlFrom(s)[4]
    BY <1>2, <1>5, <1>6, <1>7, <1>8 DEF UrlTurn
  <1>10. UrlFrom(s)[4] = UrlFrom(r)[1]
    <2>1. 3 \in 1..(Len(t) + 1) /\ 2 \in 1..(Len(u) + 1) /\ 1 \in 1..(Len(r) + 1)
      BY <1>2, <1>3
    <2>2. UrlFrom(s)[3 + 1] = UrlFrom(t)[3]
      BY <1>1, <1>3, <1>4, <2>1, UrlFromShifts
    <2>3. UrlFrom(t)[2 + 1] = UrlFrom(u)[2]
      BY <1>1, <1>2, <2>1, UrlFromShifts
    <2>4. UrlFrom(u)[1 + 1] = UrlFrom(r)[1]
      BY <1>1, <2>1, UrlFromShifts
    <2>5. QED
      BY <2>2, <2>3, <2>4
  <1>11. QED
    BY <1>1, <1>9, <1>10, UrlDecodeIs

\* Digits, and what a character is written as.
Nibble == 0..15

LEMMA DigitDecodes ==
  ASSUME NEW n \in Nibble, NEW ten \in {65, 97}
  PROVE  Digit(n, ten) \in Byte /\ HexValue(Digit(n, ten)) = n
  <1>1. CASE n < 10
    <2>1. PICK d : d = n + 48
      OBVIOUS
    <2>2. d \in 48..57 /\ Digit(n, ten) = d
      BY <1>1, <2>1 DEF Digit, Nibble
    <2>3. HexValue(d) = d - 48
      BY <2>2 DEF HexValue
    <2>4. QED
      BY <2>1, <2>2, <2>3 DEF Byte, Nibble
  <1>2. CASE n >= 10 /\ ten = 65
    <2>1. PICK d : d = (n - 10) + 65
      OBVIOUS
    <2>2. d \in 65..70 /\ Digit(n, ten) = d
      BY <1>2, <2>1 DEF Digit, Nibble
    <2>3. HexValue(d) = d - 55
      BY <2>2 DEF HexValue
    <2>4. QED
      BY <2>1, <2>2, <2>3 DEF Byte, Nibble
  <1>3. CASE n >= 10 /\ ten = 97
    <2>1. PICK d : d = (n - 10) + 97
      OBVIOUS
    <2>2. d \in 97..102 /\ Digit(n, ten) = d
      BY <1>3, <2>1 DEF Digit, Nibble
    <2>3. HexValue(d) = d - 87
      BY <2>2 DEF HexValue
    <2>4. QED
      BY <2>1, <2>2, <2>3 DEF Byte, Nibble
  <1>4. QED
    BY <1>1, <1>2, <1>3 DEF Nibble

LEMMA EscapeInFront ==
  ASSUME NEW a \in Byte, NEW b \in Byte, NEW r \in Seq(Byte)
  PROVE  <<37, a, b>> \o r = << 37 >> \o (<<a>> \o (<<b>> \o r))
  <1>1. PICK s, t, u, v, n : /\ s = <<37, a, b>> \o r /\ t = <<b>> \o r
                             /\ u = <<a>> \o t /\ v = << 37 >> \o u /\ n = Len(r)
    OBVIOUS
  <1>2. n \in Nat /\ 37 \in Byte
    BY <1>1 DEF Byte
  <1>3. /\ s \in Seq(Byte) /\ Len(s) = n + 3 /\ s[1] = 37 /\ s[2] = a /\ s[3] = b
        /\ \A i \in 1..n : s[i + 3] = r[i]
    BY <1>1, <1>2
  <1>4. /\ t \in Seq(Byte) /\ Len(t) = n + 1 /\ t[1] = b
        /\ \A i \in 1..n : t[i + 1] = r[i]
    BY <1>1, InFront
  <1>5. /\ u \in Seq(Byte) /\ Len(u) = n + 2 /\ u[1] = a
        /\ \A i \in 1..(n + 1) : u[i + 1] = t[i]
    BY <1>1, <1>2, <1>4, InFront
  <1>6. /\ v \in Seq(Byte) /\ Len(v) = n + 3 /\ v[1] = 37
        /\ \A i \in 1..(n + 2) : v[i + 1] = u[i]
    BY <1>1, <1>2, <1>5, InFront
  <1>7. v[2] = a /\ v[3] = b
    <2>1. v[1 + 1] = u[1] /\ v[2 + 1] = u[2] /\ u[1 + 1] = t[1]
      BY <1>2, <1>5, <1>6
    <2>2. QED
      BY <1>4, <1>5, <2>1
  <1>8. ASSUME NEW i \in 1..(n + 3) PROVE s[i] = v[i]
    <2>1. CASE i > 3
      <3>1. PICK j : j = i - 3
        OBVIOUS
      <3>2. j \in 1..n /\ i = j + 3 /\ i = (j + 2) + 1 /\ j + 2 = (j + 1) + 1
            /\ j + 2 \in 1..(n + 2) /\ j + 1 \in 1..(n + 1)
        BY <1>2, <2>1, <3>1
      <3>3. s[j + 3] = r[j] /\ v[(j + 2) + 1] = u[j + 2] /\ u[(j + 1) + 1] = t[j + 1]
            /\ t[j + 1] = r[j]
        BY <1>3, <1>4, <1>5, <1>6, <3>2
      <3>4. QED
        BY <3>2, <3>3
    <2>2. CASE i <= 3
      <3>1. i = 1 \/ i = 2 \/ i = 3
        BY <2>2
      <3>2. QED
        BY <1>3, <1>6, <1>7, <3>1
    <2>3. QED
      BY <1>2, <2>1, <2>2
  <1>9. s = v
    BY <1>2, <1>3, <1>6, <1>8
  <1>10. QED
    BY <1>1, <1>9

LEMMA EscapeDecodes ==
  ASSUME NEW ch \in Byte, NEW ten \in {65, 97}, NEW r \in Seq(Byte)
  PROVE  /\ Escape(ch, ten) \o r \in Seq(Byte)
         /\ url_decode(Escape(ch, ten) \o r) = <<ch>> \o url_decode(r)
  <1>1. PICK h, l, a, b : /\ h = ch \div 16 /\ l = ch % 16
                          /\ a = Digit(h, ten) /\ b = Digit(l, ten)
    OBVIOUS
  <1>2. h \in 0..15 /\ l \in 0..15 /\ (h * 16) + l = ch
    BY <1>1 DEF Byte
  <1>3. a \in Byte /\ b \in Byte /\ HexValue(a) = h /\ HexValue(b) = l
    <2>1. /\ Digit(h, ten) \in Byte /\ HexValue(Digit(h, ten)) = h
          /\ Digit(l, ten) \in Byte /\ HexValue(Digit(l, ten)) = l
      <3>1. h \in Nibble /\ l \in Nibble
        BY <1>2 DEF Nibble
      <3>2. QED
        BY <3>1, DigitDecodes
    <2>2. QED
      BY <1>1, <2>1
  <1>4. Escape(ch, ten) = <<37, a, b>>
    BY <1>1 DEF Escape
  <1>5. 37 \in Byte
    BY DEF Byte
  <1>6. <<37, a, b>> \o r = << 37 >> \o (<<a>> \o (<<b>> \o r))
    BY <1>3, EscapeInFront
  <1>7. <<37, a, b>> \o r \in Seq(Byte)
    BY <1>3, <1>5
  <1>8. url_decode(<< 37 >> \o (<<a>> \o (<<b>> \o r))) = <<(h * 16) + l>> \o url_decode(r)
    <2>1. HexValue(a) >= 0 /\ HexValue(b) >= 0
      BY <1>2, <1>3
    <2>2. url_decode(<< 37 >> \o (<<a>> \o (<<b>> \o r)))
            = <<(HexValue(a) * 16) + HexValue(b)>> \o url_decode(r)
      BY <1>3, <2>1, UrlDecodesEscape
    <2>3. QED
      BY <1>3, <2>2
  <1>9. QED
    BY <1>2, <1>4, <1>6, <1>7, <1>8

LEMMA WriteDecodes ==
  ASSUME NEW ch \in Byte, ch # 37, NEW way \in Ways, NEW r \in Seq(Byte)
  PROVE  /\ Write(ch, way) \o r \in Seq(Byte)
         /\ url_decode(Write(ch, way) \o r) = <<ch>> \o url_decode(r)
  <1>1. CASE way = "capital"
    <2>1. Write(ch, way) = Escape(ch, 65)
      BY <1>1 DEF Write
    <2>2. QED
      BY <2>1, EscapeDecodes
  <1>2. CASE way = "small"
    <2>1. Write(ch, way) = Escape(ch, 97)
      BY <1>2 DEF Write
    <2>2. QED
      BY <2>1, EscapeDecodes
  <1>3. CASE way = "stray" /\ HexValue(ch) < 0
    <2>1. Write(ch, way) = <<37, ch>>
      BY <1>3 DEF Write
    <2>2. <<37, ch>> \o r = << 37 >> \o (<<ch>> \o r)
      OBVIOUS
    <2>3. url_decode(<< 37 >> \o (<<ch>> \o r)) = url_decode(<<ch>> \o r)
      BY <1>3, UrlDecodesStray
    <2>4. url_decode(<<ch>> \o r) = <<ch>> \o url_decode(r)
      BY UrlDecodesPlain
    <2>5. <<37, ch>> \o r \in Seq(Byte)
      <3>1. 37 \in Byte
        BY DEF Byte
      <3>2. QED
        BY <3>1
    <2>6. QED
      BY <2>1, <2>2, <2>3, <2>4, <2>5
  <1>4. CASE way = "plain" \/ (way = "stray" /\ ~(HexValue(ch) < 0))
    <2>1. Write(ch, way) = <<ch>>
      BY <1>4 DEF Write
    <2>2. QED
      BY <2>1, UrlDecodesPlain, SMTT(20)
  <1>5. QED
    BY <1>1, <1>2, <1>3, <1>4 DEF Ways

\* What is written of the characters from one on, its recursive function.
WrittenTurn(text, ways, end, from, i) ==
  IF i > Len(text) THEN end ELSE Write(text[i], ways[i]) \o from[i + 1]
WrittenFrom(text, ways, end) ==
  CHOOSE from : from = [i \in 1..(Len(text) + 1) |-> WrittenTurn(text, ways, end, from, i)]

LEMMA WrittenIs ==
  ASSUME NEW text, NEW ways, NEW end
  PROVE  Written(text, ways, end) = WrittenFrom(text, ways, end)[1]
  BY DEF Written, WrittenFrom, WrittenTurn

LEMMA WrittenExists ==
  ASSUME NEW text \in Seq(Byte), NEW ways, NEW end
  PROVE  \A i \in 1..(Len(text) + 1) :
           WrittenFrom(text, ways, end)[i]
             = WrittenTurn(text, ways, end, WrittenFrom(text, ways, end), i)
  <1> DEFINE D == 1..(Len(text) + 1)
             Turn(f, i) == WrittenTurn(text, ways, end, f, i)
             Obeys(f, m) == \A i \in D : i > Len(text) + 1 - m => f[i] = Turn(f, i)
             S == {m \in Nat : \E f : DOMAIN f = D /\ f = [i \in D |-> f[i]] /\ Obeys(f, m)}
  <1>1. Len(text) \in Nat
    OBVIOUS
  <1>2. 0 \in S
    <2>1. PICK f : f = [i \in D |-> <<>>]
      OBVIOUS
    <2>2. DOMAIN f = D /\ f = [i \in D |-> f[i]] /\ Obeys(f, 0)
      BY <1>1, <2>1
    <2>3. QED
      BY <2>2
  <1>3. ASSUME NEW m \in Nat, m \in S PROVE m + 1 \in S
    <2>1. PICK f : DOMAIN f = D /\ f = [i \in D |-> f[i]] /\ Obeys(f, m)
      BY <1>3
    <2> DEFINE j == Len(text) + 1 - m
    <2>2. CASE j \in D
      <3>1. PICK g : g = [f EXCEPT ![j] = Turn(f, j)]
        OBVIOUS
      <3>2. DOMAIN g = D /\ g = [i \in D |-> g[i]] /\ g[j] = Turn(f, j)
            /\ \A i \in D : i # j => g[i] = f[i]
        BY <2>1, <2>2, <3>1
      <3>3. ASSUME NEW i \in D, i > Len(text) + 1 - (m + 1) PROVE g[i] = Turn(g, i)
        <4>1. i >= j
          BY <1>1, <3>3
        <4>2. i <= Len(text) => f[i + 1] = g[i + 1]
          BY <1>1, <3>2, <4>1
        <4>3. Turn(f, i) = Turn(g, i)
          BY <1>1, <4>2 DEF WrittenTurn
        <4>4. g[i] = Turn(f, i)
          <5>1. CASE i = j
            BY <3>2, <5>1
          <5>2. CASE i # j
            <6>1. i > Len(text) + 1 - m
              BY <1>1, <4>1, <5>2
            <6>2. f[i] = Turn(f, i)
              BY <2>1, <6>1
            <6>3. QED
              BY <3>2, <5>2, <6>2
          <5>3. QED
            BY <5>1, <5>2
        <4>5. QED
          BY <4>3, <4>4
      <3>4. Obeys(g, m + 1)
        BY <3>3
      <3>5. QED
        <4> HIDE DEF Obeys
        <4>1. DOMAIN g = D /\ g = [i \in D |-> g[i]]
          BY <3>2
        <4>2. QED
          BY <3>4, <4>1
    <2>3. CASE j \notin D
      <3>1. j < 1
        BY <1>1, <2>3
      <3>2. ASSUME NEW i \in D, i > Len(text) + 1 - (m + 1) PROVE f[i] = Turn(f, i)
        <4>1. i > Len(text) + 1 - m
          BY <1>1, <3>1
        <4>2. QED
          BY <2>1, <4>1
      <3>3. Obeys(f, m + 1)
        BY <3>2
      <3>4. QED
        <4> HIDE DEF Obeys
        <4>1. DOMAIN f = D /\ f = [i \in D |-> f[i]]
          BY <2>1
        <4>2. QED
          BY <3>3, <4>1
    <2>4. QED
      BY <2>2, <2>3
  <1>4. Len(text) + 1 \in S
    <2> HIDE DEF S
    <2>1. \A n \in Nat : n \in S
      BY <1>2, <1>3, SetInduction
    <2>2. QED
      BY <1>1, <2>1
  <1>5. PICK f : DOMAIN f = D /\ f = [i \in D |-> f[i]] /\ Obeys(f, Len(text) + 1)
    BY <1>4
  <1>6. f = [i \in D |-> Turn(f, i)]
    <2>1. ASSUME NEW i \in D PROVE f[i] = Turn(f, i)
      <3>1. i > Len(text) + 1 - (Len(text) + 1)
        BY <1>1
      <3>2. QED
        BY <1>5, <3>1
    <2> HIDE DEF Turn
    <2>2. QED
      BY <1>5, <2>1
  <1>7. WrittenFrom(text, ways, end)
          = [i \in D |-> WrittenTurn(text, ways, end, WrittenFrom(text, ways, end), i)]
    BY <1>6 DEF WrittenFrom
  <1>8. QED
    BY <1>7

\* However the characters of a text are written, url_decode gives the text.
LEMMA WrittenDecodes ==
  ASSUME NEW text \in Seq(Byte), \A i \in 1..Len(text) : text[i] # 37,
         NEW ways, \A i \in 1..Len(text) : ways[i] \in Ways,
         NEW end \in Ends
  PROVE  url_decode(Written(text, ways, end)) = text \o end
  <1>1. PICK n, from : n = Len(text) /\ from = WrittenFrom(text, ways, end)
    OBVIOUS
  <1>2. n \in Nat /\ \A i \in 1..n : text[i] \in Byte
    BY <1>1
  <1>3. end \in Seq(Byte) /\ url_decode(end) = end
    <2>1. << 37 >> \in Seq(Byte) /\ <<>> \in Seq(Byte)
      BY DEF Byte
    <2>2. QED
      BY <2>1, UrlDecodesEnd DEF Ends
  <1> DEFINE Right(i) == /\ from[i] \in Seq(Byte)
                         /\ url_decode(from[i]) = SubSeq(text, i, n) \o end
             S == {m \in Nat : m <= n => Right((n + 1) - m)}
  <1>4. 0 \in S
    <2>1. from[n + 1] = end
      <3>1. from[n + 1] = WrittenTurn(text, ways, end, from, n + 1)
        <4>1. n + 1 \in 1..(Len(text) + 1)
          BY <1>1, <1>2
        <4>2. QED
          BY <1>1, <4>1, WrittenExists
      <3>2. n + 1 > Len(text)
        BY <1>1, <1>2
      <3>3. QED
        BY <3>1, <3>2 DEF WrittenTurn
    <2>2. SubSeq(text, n + 1, n) = <<>>
      BY <1>1, <1>2
    <2>3. <<>> \o end = end
      BY <1>3
    <2>4. Right(n + 1)
      BY <1>3, <2>1, <2>2, <2>3
    <2>5. (n + 1) - 0 = n + 1
      BY <1>2
    <2> HIDE DEF Right
    <2>6. QED
      BY <2>4, <2>5
  <1>5. ASSUME NEW m \in Nat, m \in S PROVE m + 1 \in S
    <2>1. ASSUME m + 1 <= n PROVE Right((n + 1) - (m + 1))
      <3>1. PICK i : i = n - m
        OBVIOUS
      <3>2. /\ i \in 1..n /\ (n + 1) - (m + 1) = i /\ (n + 1) - m = i + 1
            /\ m <= n
        BY <1>2, <2>1, <3>1
      <3>3. Right(i + 1)
        <4> HIDE DEF Right
        <4>1. QED
          BY <1>5, <3>2
      <3>4. from[i] = Write(text[i], ways[i]) \o from[i + 1]
        <4>1. from[i] = WrittenTurn(text, ways, end, from, i)
          <5>1. i \in 1..(Len(text) + 1)
            BY <1>1, <1>2, <3>2
          <5>2. QED
            BY <1>1, <5>1, WrittenExists
        <4>2. ~(i > Len(text))
          BY <1>1, <1>2, <3>2
        <4>3. QED
          BY <4>1, <4>2 DEF WrittenTurn
      <3>5. text[i] \in Byte /\ text[i] # 37 /\ ways[i] \in Ways
        BY <1>1, <1>2, <3>2
      <3>6. from[i] \in Seq(Byte)
            /\ url_decode(from[i]) = <<text[i]>> \o (SubSeq(text, i + 1, n) \o end)
        BY <3>3, <3>4, <3>5, WriteDecodes
      <3>7. <<text[i]>> \o SubSeq(text, i + 1, n) = SubSeq(text, i, n)
        <4>1. i \in 1..Len(text) /\ n \in i..Len(text)
          BY <1>1, <1>2, <3>2
        <4>2. QED
          BY <4>1, SubSeqRecursiveFirst
      <3>8. <<text[i]>> \o (SubSeq(text, i + 1, n) \o end) = SubSeq(text, i, n) \o end
        <4>1. <<text[i]>> \in Seq(Byte)
          BY <3>5
        <4>2. SubSeq(text, i + 1, n) \in Seq(Byte)
          <5>1. i + 1 \in Int /\ n \in Int /\ \A j \in (i + 1)..n : text[j] \in Byte
            BY <1>2, <3>2
          <5>2. QED
            BY <5>1, SubSeqProperties
        <4>3. (<<text[i]>> \o SubSeq(text, i + 1, n)) \o end
                = <<text[i]>> \o (SubSeq(text, i + 1, n) \o end)
          <5>1. PICK x, y : x = <<text[i]>> /\ y = SubSeq(text, i + 1, n)
            OBVIOUS
          <5>2. x \in Seq(Byte) /\ y \in Seq(Byte) /\ end \in Seq(Byte)
            BY <1>3, <4>1, <4>2, <5>1
          <5>3. (x \o y) \o end = x \o (y \o end)
            BY <5>2, ConcatAssociative, SMTT(20)
          <5>4. QED
            BY <5>1, <5>3
        <4>4. QED
          BY <3>7, <4>3
      <3>9. QED
        BY <3>2, <3>6, <3>8
    <2> HIDE DEF Right
    <2>2. QED
      BY <2>1
  <1>6. Right(1)
    <2> HIDE DEF S
    <2>1. n \in S
      BY <1>2, <1>4, <1>5, SetInduction
    <2> USE DEF S
    <2>2. (n + 1) - n = 1 /\ n <= n
      BY <1>2
    <2> HIDE DEF Right
    <2>3. QED
      BY <2>1, <2>2
  <1>7. SubSeq(text, 1, n) = text
    BY <1>1, SubSeqFull
  <1>8. QED
    BY <1>1, <1>6, <1>7, WrittenIs

-----------------------------------------------------------------------------
(* Encoded images: b64_decode takes four characters back to three bytes *)

LEMMA CharacterDecodes ==
  ASSUME NEW n \in 0..64
  PROVE  /\ Character(n) \in Byte /\ Character(n) # 37
         /\ b64_int(Character(n)) = n
  <1>1. PICK c : c = Character(n)
    OBVIOUS
  <1>2. CASE n \in 0..25
    <2>1. c = n + 65
      BY <1>1, <1>2 DEF Character
    <2>2. c \in 65..90
      BY <1>2, <2>1
    <2>3. b64_int(c) = c - 65
      BY <2>2 DEF b64_int
    <2>4. QED
      BY <1>1, <2>1, <2>2, <2>3 DEF Byte
  <1>3. CASE n \in 26..51
    <2>1. c = (n - 26) + 97
      BY <1>1, <1>3 DEF Character
    <2>2. c \in 97..122
      BY <1>3, <2>1
    <2>3. b64_int(c) = (c - 97) + 26
      BY <2>2 DEF b64_int
    <2>4. QED
      BY <1>1, <1>3, <2>1, <2>2, <2>3 DEF Byte
  <1>4. CASE n \in 52..61
    <2>1. c = n - 4
      BY <1>1, <1>4 DEF Character
    <2>2. c \in 48..57
      BY <1>4, <2>1
    <2>3. b64_int(c) = c + 4
      BY <2>2 DEF b64_int
    <2>4. QED
      BY <1>1, <1>4, <2>1, <2>2, <2>3 DEF Byte
  <1>5. CASE n \in {62, 63, 64}
    <2>1. (n = 62 /\ c = 43) \/ (n = 63 /\ c = 47) \/ (n = 64 /\ c = 61)
      BY <1>1, <1>5 DEF Character
    <2>2. b64_int(c) = n
      BY <2>1 DEF b64_int
    <2>3. QED
      BY <1>1, <2>1, <2>2 DEF Byte
  <1>6. QED
    BY <1>2, <1>3, <1>4, <1>5

\* Bytes as bits: what two of them put into the number between them, and what
\* b64_decode takes out of two numbers.
Middle(x, y) == ((x % 4) * 16) + (y \div 16)
Later(y, z) == ((y % 16) * 4) + (z \div 64)
First(p, q) == ((p * 4) + ((q % 64) \div 16)) % 256
Second(q, r) == (((q % 16) * 16) + ((r % 64) \div 4)) % 256
Final(r, t) == (((r % 4) * 64) + t) % 256

LEMMA FirstByte ==
  ASSUME NEW x \in Byte, NEW y \in Byte
  PROVE  /\ x \div 4 \in 0..63 /\ Middle(x, y) \in 0..63
         /\ First(x \div 4, Middle(x, y)) = x
  <1>1. PICK p, q : p = x \div 4 /\ q = ((x % 4) * 16) + (y \div 16)
    OBVIOUS
  <1>2. p \in 0..63 /\ q \in 0..63 /\ q \div 16 = x % 4 /\ (p * 4) + (x % 4) = x
    BY <1>1 DEF Byte
  <1>3. q % 64 = q
    BY <1>2
  <1>4. ((p * 4) + ((q % 64) \div 16)) % 256 = x
    BY <1>2, <1>3 DEF Byte
  <1>5. First(p, q) = x
    BY <1>4 DEF First
  <1>6. Middle(x, y) = q
    BY <1>1 DEF Middle
  <1>7. QED
    BY <1>1, <1>2, <1>5, <1>6

LEMMA SecondByte ==
  ASSUME NEW x \in Byte, NEW y \in Byte, NEW z \in Byte
  PROVE  /\ Later(y, z) \in 0..63
         /\ Second(Middle(x, y), Later(y, z)) = y
  <1>1. PICK q, r : q = ((x % 4) * 16) + (y \div 16) /\ r = ((y % 16) * 4) + (z \div 64)
    OBVIOUS
  <1>2. r \in 0..63 /\ r \div 4 = y % 16
    BY <1>1 DEF Byte
  <1>3. q % 16 = y \div 16
    BY <1>1 DEF Byte
  <1>4. r % 64 = r /\ ((y \div 16) * 16) + (y % 16) = y
    BY <1>2 DEF Byte
  <1>5. (((q % 16) * 16) + ((r % 64) \div 4)) % 256 = y
    BY <1>2, <1>3, <1>4 DEF Byte
  <1>6. Second(q, r) = y
    BY <1>5 DEF Second
  <1>7. Middle(x, y) = q /\ Later(y, z) = r
    BY <1>1 DEF Middle, Later
  <1>8. QED
    BY <1>2, <1>6, <1>7

LEMMA ThirdByte ==
  ASSUME NEW y \in Byte, NEW z \in Byte
  PROVE  z % 64 \in 0..63 /\ Final(Later(y, z), z % 64) = z
  <1>1. PICK r, t : r = ((y % 16) * 4) + (z \div 64) /\ t = z % 64
    OBVIOUS
  <1>2. r % 4 = z \div 64 /\ t \in 0..63
    BY <1>1 DEF Byte
  <1>3. ((z \div 64) * 64) + (z % 64) = z
    BY DEF Byte
  <1>4. (((r % 4) * 64) + t) % 256 = z
    BY <1>1, <1>2, <1>3 DEF Byte
  <1>5. Final(r, t) = z
    BY <1>4 DEF Final
  <1>6. Later(y, z) = r
    BY <1>1 DEF Later
  <1>7. QED
    BY <1>1, <1>2, <1>5, <1>6

\* The four numbers of one, two or three bytes.
ByteAt(b, i) == IF i <= Len(b) THEN b[i] ELSE 0
Third(n, y, z) == IF n < 2 THEN 64 ELSE Later(y, z)
Fourth(n, z) == IF n < 3 THEN 64 ELSE z % 64

LEMMA ByteAtType ==
  ASSUME NEW b \in Seq(Byte), NEW i \in 1..3
  PROVE  ByteAt(b, i) \in Byte
  <1>1. PICK n : n = Len(b)
    OBVIOUS
  <1>2. CASE i <= n
    <2>1. b[i] \in Byte
      BY <1>1, <1>2
    <2>2. QED
      BY <1>1, <1>2, <2>1 DEF ByteAt
  <1>3. CASE ~(i <= n)
    <2>1. 0 \in Byte
      BY DEF Byte
    <2>2. QED
      BY <1>1, <1>3, <2>1 DEF ByteAt
  <1>4. QED
    BY <1>2, <1>3

LEMMA SextetsAre ==
  ASSUME NEW b
  PROVE  /\ Sextets(b)[1] = ByteAt(b, 1) \div 4
         /\ Sextets(b)[2] = Middle(ByteAt(b, 1), ByteAt(b, 2))
         /\ Sextets(b)[3] = Third(Len(b), ByteAt(b, 2), ByteAt(b, 3))
         /\ Sextets(b)[4] = Fourth(Len(b), ByteAt(b, 3))
  <1>1. PICK p, q, r, t : /\ p = ByteAt(b, 1) \div 4
                          /\ q = Middle(ByteAt(b, 1), ByteAt(b, 2))
                          /\ r = Third(Len(b), ByteAt(b, 2), ByteAt(b, 3))
                          /\ t = Fourth(Len(b), ByteAt(b, 3))
    OBVIOUS
  <1>2. Sextets(b) = <<ByteAt(b, 1) \div 4, Middle(ByteAt(b, 1), ByteAt(b, 2)),
                       Third(Len(b), ByteAt(b, 2), ByteAt(b, 3)),
                       Fourth(Len(b), ByteAt(b, 3))>>
    BY DEF Sextets, ByteAt, Third, Fourth, Middle, Later
  <1>3. Sextets(b) = <<p, q, r, t>>
    BY <1>1, <1>2
  <1>4. QED
    BY <1>1, <1>3

\* 64 stands for the padding only.
LEMMA NotPadding == \A k \in 0..63 : k # 64 /\ k \in 0..64
  OBVIOUS

LEMMA SextetsType ==
  ASSUME NEW b \in Seq(Byte), NEW j \in 1..4
  PROVE  Sextets(b)[j] \in 0..64
  <1>1. PICK x, y, z, n : /\ x = ByteAt(b, 1) /\ y = ByteAt(b, 2) /\ z = ByteAt(b, 3)
                          /\ n = Len(b)
    OBVIOUS
  <1>2. x \in Byte /\ y \in Byte /\ z \in Byte
    <2>1. 1 \in 1..3 /\ 2 \in 1..3 /\ 3 \in 1..3
      OBVIOUS
    <2>2. ByteAt(b, 1) \in Byte /\ ByteAt(b, 2) \in Byte /\ ByteAt(b, 3) \in Byte
      BY <2>1, ByteAtType
    <2>3. QED
      BY <1>1, <2>2
  <1>3. PICK p, q, u, v : p = x \div 4 /\ q = Middle(x, y) /\ u = Later(y, z) /\ v = z % 64
    OBVIOUS
  <1>4. p \in 0..63 /\ q \in 0..63
    <2>1. x \div 4 \in 0..63 /\ Middle(x, y) \in 0..63
      BY <1>2, FirstByte
    <2>2. QED
      BY <1>3, <2>1, Zenon
  <1>5. u \in 0..63
    <2>1. Later(y, z) \in 0..63 /\ Second(Middle(x, y), Later(y, z)) = y
      BY <1>2, SecondByte
    <2>2. QED
      BY <1>3, <2>1, Zenon
  <1>6. v \in 0..63
    <2>1. z % 64 \in 0..63 /\ Final(Later(y, z), z % 64) = z
      BY <1>2, ThirdByte
    <2>2. QED
      BY <1>3, <2>1, Zenon
  <1>7. Third(n, y, z) \in {64, u} /\ Fourth(n, z) \in {64, v}
    BY <1>3 DEF Third, Fourth
  <1>8. /\ Sextets(b)[1] = p /\ Sextets(b)[2] = q
        /\ Sextets(b)[3] = Third(n, y, z) /\ Sextets(b)[4] = Fourth(n, z)
    BY <1>1, <1>3, SextetsAre
  <1>9. /\ Sextets(b)[1] \in 0..64 /\ Sextets(b)[2] \in 0..64
        /\ Sextets(b)[3] \in 0..64 /\ Sextets(b)[4] \in 0..64
    <2>1. \A k \in 0..63 : k \in 0..64
      BY NotPadding, Zenon
    <2>2. p \in 0..64 /\ q \in 0..64 /\ u \in 0..64 /\ v \in 0..64 /\ 64 \in 0..64
      BY <1>4, <1>5, <1>6, <2>1
    <2>3. Third(n, y, z) \in 0..64 /\ Fourth(n, z) \in 0..64
      BY <1>7, <2>2, Zenon
    <2>4. QED
      BY <1>8, <2>2, <2>3, Zenon
  <1>10. CASE j = 1
    BY <1>9, <1>10
  <1>11. CASE j = 2
    BY <1>9, <1>11
  <1>12. CASE j = 3
    BY <1>9, <1>12
  <1>13. CASE j = 4
    BY <1>9, <1>13
  <1>14. QED
    BY <1>10, <1>11, <1>12, <1>13

\* Short sequences are told by their length and elements.
LEMMA OneElement ==
  ASSUME NEW b \in Seq(Byte), NEW x \in Byte,
         Len(b) = 1, b[1] = x
  PROVE  b = <<x>>
  <1>1. PICK s : s = <<x>>
    OBVIOUS
  <1>2. s \in Seq(Byte) /\ Len(s) = 1 /\ s[1] = x
    BY <1>1
  <1>3. \A i \in 1..1 : b[i] = s[i]
    BY <1>2
  <1>4. b = s
    BY <1>2, <1>3
  <1>5. QED
    BY <1>1, <1>4

LEMMA TwoElements ==
  ASSUME NEW b \in Seq(Byte), NEW x \in Byte, NEW y \in Byte,
         Len(b) = 2, b[1] = x, b[2] = y
  PROVE  b = <<x, y>>
  <1>1. PICK s : s = <<x, y>>
    OBVIOUS
  <1>2. s \in Seq(Byte) /\ Len(s) = 2 /\ s[1] = x /\ s[2] = y
    BY <1>1
  <1>3. \A i \in 1..2 : b[i] = s[i]
    BY <1>2
  <1>4. b = s
    BY <1>2, <1>3
  <1>5. QED
    BY <1>1, <1>4

LEMMA ThreeElements ==
  ASSUME NEW b \in Seq(Byte), NEW x \in Byte, NEW y \in Byte, NEW z \in Byte,
         Len(b) = 3, b[1] = x, b[2] = y, b[3] = z
  PROVE  b = <<x, y, z>>
  <1>1. PICK s : s = <<x, y, z>>
    OBVIOUS
  <1>2. s \in Seq(Byte) /\ Len(s) = 3 /\ s[1] = x /\ s[2] = y /\ s[3] = z
    BY <1>1
  <1>3. \A i \in 1..3 : b[i] = s[i]
    BY <1>2
  <1>4. b = s
    BY <1>2, <1>3
  <1>5. QED
    BY <1>1, <1>4

LEMMA GroupDecodes ==
  ASSUME NEW b \in Seq(Byte), Len(b) \in 1..3,
         NEW s, \A j \in 1..4 : s[j] = Sextets(b)[j]
  PROVE  Group(s) = b
  <1>1. PICK x, y, z, n : /\ x = ByteAt(b, 1) /\ y = ByteAt(b, 2) /\ z = ByteAt(b, 3)
                          /\ n = Len(b)
    OBVIOUS
  <1>2. x \in Byte /\ y \in Byte /\ z \in Byte
    <2>1. 1 \in 1..3 /\ 2 \in 1..3 /\ 3 \in 1..3
      OBVIOUS
    <2>2. ByteAt(b, 1) \in Byte /\ ByteAt(b, 2) \in Byte /\ ByteAt(b, 3) \in Byte
      BY <2>1, ByteAtType
    <2>3. QED
      BY <1>1, <2>2
  <1>3. PICK p, q, r, t : p = s[1] /\ q = s[2] /\ r = s[3] /\ t = s[4]
    OBVIOUS
  <1>4. /\ p = Sextets(b)[1] /\ q = Sextets(b)[2] /\ r = Sextets(b)[3] /\ t = Sextets(b)[4]
    BY <1>3
  <1>5. /\ p = x \div 4 /\ q = Middle(x, y)
        /\ r = Third(n, y, z) /\ t = Fourth(n, z)
    BY <1>1, <1>4, SextetsAre
  <1>6. Group(s) = IF r = 64 THEN <<First(p, q)>>
                   ELSE IF t = 64 THEN <<First(p, q), Second(q, r)>>
                   ELSE <<First(p, q), Second(q, r), Final(r, t)>>
    BY <1>3 DEF Group, First, Second, Final
  <1>7. First(p, q) = x
    BY <1>2, <1>5, FirstByte
  <1>8. ASSUME n = 2 \/ n = 3 PROVE Second(q, r) = y /\ r # 64
    <2>1. r = Later(y, z)
      BY <1>5, <1>8 DEF Third
    <2>2. Later(y, z) \in 0..63 /\ Second(Middle(x, y), Later(y, z)) = y
      BY <1>2, SecondByte
    <2>3. Later(y, z) # 64
      BY <2>2, NotPadding, Zenon
    <2>4. q = Middle(x, y)
      BY <1>5
    <2>5. QED
      BY <2>1, <2>2, <2>3, <2>4, Zenon
  <1>9. ASSUME n = 3 PROVE Final(r, t) = z /\ t # 64
    <2>1. r = Later(y, z) /\ t = z % 64
      BY <1>5, <1>9 DEF Third, Fourth
    <2>2. z % 64 \in 0..63 /\ Final(Later(y, z), z % 64) = z
      BY <1>2, ThirdByte
    <2>3. z % 64 # 64
      BY <2>2, NotPadding, Zenon
    <2>4. QED
      BY <2>1, <2>2, <2>3, Zenon
  <1>10. CASE n = 1
    <2>1. r = 64
      BY <1>5, <1>10 DEF Third
    <2>2. Group(s) = <<x>>
      BY <1>6, <1>7, <2>1
    <2>3. b[1] = x
      BY <1>1, <1>10 DEF ByteAt
    <2>4. b = <<x>>
      BY <1>1, <1>2, <1>10, <2>3, OneElement
    <2>5. QED
      BY <2>2, <2>4
  <1>11. CASE n = 2
    <2>1. r # 64 /\ Second(q, r) = y
      BY <1>8, <1>11
    <2>2. t = 64
      BY <1>5, <1>11 DEF Fourth
    <2>3. Group(s) = <<x, y>>
      BY <1>6, <1>7, <2>1, <2>2
    <2>4. b[1] = x /\ b[2] = y
      BY <1>1, <1>11 DEF ByteAt
    <2>5. b = <<x, y>>
      BY <1>1, <1>2, <1>11, <2>4, TwoElements
    <2>6. QED
      BY <2>3, <2>5
  <1>12. CASE n = 3
    <2>1. r # 64 /\ t # 64 /\ Second(q, r) = y /\ Final(r, t) = z
      BY <1>8, <1>9, <1>12
    <2>2. Group(s) = <<x, y, z>>
      BY <1>6, <1>7, <2>1
    <2>3. b[1] = x /\ b[2] = y /\ b[3] = z
      BY <1>1, <1>12 DEF ByteAt
    <2>4. b = <<x, y, z>>
      BY <1>1, <1>2, <1>12, <2>3, ThreeElements
    <2>5. QED
      BY <2>2, <2>4
  <1>13. QED
    BY <1>1, <1>10, <1>11, <1>12

\* As many bytes of an image as its first g groups have, and all its groups.
Upto(image, g) == IF 3 * g <= Len(image) THEN 3 * g ELSE Len(image)
Groups(image) == (Len(image) + 2) \div 3

LEMMA GroupsAre ==
  ASSUME NEW image \in Seq(Byte)
  PROVE  /\ Groups(image) \in Nat /\ Len(image) \in Nat
         /\ \A g \in 1..Groups(image) : (3 * g) - 2 <= Len(image)
         /\ Upto(image, Groups(image)) = Len(image)
         /\ \A g \in Nat : g >= Groups(image) - 1 => Len(image) - Upto(image, g) <= 3
         /\ \A g \in Nat : Upto(image, g) \in 0..Len(image) /\ Upto(image, g) <= 3 * g
  <1>1. PICK l, n : l = Len(image) /\ n = (l + 2) \div 3
    OBVIOUS
  <1>2. l \in Nat /\ n = Groups(image)
    BY <1>1 DEF Groups
  <1>3. n \in Nat /\ 3 * n >= l /\ 3 * n <= l + 2
    BY <1>1, <1>2
  <1>4. \A g \in Nat : Upto(image, g) = IF 3 * g <= l THEN 3 * g ELSE l
    BY <1>1 DEF Upto
  <1>5. \A g \in 1..n : (3 * g) - 2 <= l
    BY <1>2, <1>3
  <1>6. Upto(image, n) = l
    <2>1. CASE 3 * n <= l
      BY <1>2, <1>3, <1>4, <2>1
    <2>2. CASE ~(3 * n <= l)
      BY <1>3, <1>4, <2>2
    <2>3. QED
      BY <2>1, <2>2
  <1>7. ASSUME NEW g \in Nat, g >= n - 1 PROVE l - Upto(image, g) <= 3
    <2>1. CASE 3 * g <= l
      BY <1>2, <1>3, <1>4, <1>7, <2>1
    <2>2. CASE ~(3 * g <= l)
      BY <1>2, <1>4, <2>2
    <2>3. QED
      BY <2>1, <2>2
  <1>8. ASSUME NEW g \in Nat PROVE Upto(image, g) \in 0..l /\ Upto(image, g) <= 3 * g
    <2>1. CASE 3 * g <= l
      BY <1>2, <1>4, <2>1
    <2>2. CASE ~(3 * g <= l)
      BY <1>2, <1>4, <2>2
    <2>3. QED
      BY <2>1, <2>2
  <1>9. QED
    BY <1>1, <1>2, <1>3, <1>5, <1>6, <1>7, <1>8

\* One group of an image has one, two or three bytes.
LEMMA ThreeIs ==
  ASSUME NEW image \in Seq(Byte), NEW g \in 1..Groups(image)
  PROVE  /\ Three(image, g) \in Seq(Byte) /\ Len(Three(image, g)) \in 1..3
         /\ Three(image, g) = SubSeq(image, Upto(image, g - 1) + 1, Upto(image, g))
         /\ Upto(image, g - 1) \in 0..Upto(image, g)
  <1>1. PICK l, p, u, n : /\ l = Len(image) /\ p = 3 * (g - 1) /\ u = Upto(image, g)
                          /\ n = u - p
    OBVIOUS
  <1>2. l \in Nat /\ g \in Nat /\ g - 1 \in Nat /\ (3 * g) - 2 <= l
    BY <1>1, GroupsAre
  <1>3. u = IF 3 * g <= l THEN 3 * g ELSE l
    BY <1>1 DEF Upto
  <1>4. p \in Nat /\ n \in 1..3 /\ u = p + n /\ u <= l /\ p <= u
    <2>1. CASE 3 * g <= l
      BY <1>1, <1>2, <1>3, <2>1
    <2>2. CASE ~(3 * g <= l)
      BY <1>1, <1>2, <1>3, <2>2
    <2>3. QED
      BY <2>1, <2>2
  <1>5. Upto(image, g - 1) = p
    BY <1>1, <1>2, <1>4 DEF Upto
  <1>6. PICK x, z : x = p + 1 /\ z = SubSeq(image, x, u)
    OBVIOUS
  <1>7. Three(image, g) = z
    <2>1. (3 * g) - 2 = x
      BY <1>1, <1>2, <1>6
    <2>2. QED
      BY <1>1, <1>6, <2>1 DEF Three, Upto
  <1>8. z \in Seq(Byte) /\ Len(z) = n
    <2>1. n \in Nat /\ u <= Len(image)
      BY <1>1, <1>4
    <2>2. QED
      BY <1>4, <1>6, <2>1, Slice
  <1>9. SubSeq(image, Upto(image, g - 1) + 1, Upto(image, g)) = z
    BY <1>1, <1>5, <1>6
  <1>10. p \in 0..u
    BY <1>4
  <1>11. QED
    BY <1>1, <1>4, <1>5, <1>7, <1>8, <1>9, <1>10

\* A character of the base64 text by its group and its place there.
LEMMA EncodedIs ==
  ASSUME NEW image \in Seq(Byte)
  PROVE  /\ Encoded(image) \in Seq(Byte) /\ Len(Encoded(image)) = 4 * Groups(image)
         /\ \A k \in 1..Len(Encoded(image)) : Encoded(image)[k] # 37
         /\ \A g \in 1..Groups(image), j \in 1..4 :
              b64_int(Encoded(image)[(4 * (g - 1)) + j]) = Sextets(Three(image, g))[j]
  <1>1. PICK e, n : e = Encoded(image) /\ n = Groups(image)
    OBVIOUS
  <1>2. n \in Nat
    BY <1>1, GroupsAre
  <1> DEFINE Of(k) == Sextets(Three(image, ((k - 1) \div 4) + 1))[((k - 1) % 4) + 1]
  <1>3. e = [k \in 1..(4 * n) |-> Character(Of(k))]
    BY <1>1 DEF Encoded, Groups
  <1>4. ASSUME NEW k \in 1..(4 * n) PROVE Of(k) \in 0..64
    <2>1. PICK g, j : g = ((k - 1) \div 4) + 1 /\ j = ((k - 1) % 4) + 1
      OBVIOUS
    <2>2. g \in 1..n /\ j \in 1..4
      BY <1>2, <2>1
    <2>3. Three(image, g) \in Seq(Byte)
      BY <1>1, <2>2, ThreeIs
    <2>4. Sextets(Three(image, g))[j] \in 0..64
      BY <2>2, <2>3, SextetsType
    <2>5. QED
      BY <2>1, <2>4
  <1>5. ASSUME NEW g \in 1..n, NEW j \in 1..4
        PROVE  (4 * (g - 1)) + j \in 1..(4 * n) /\ Of((4 * (g - 1)) + j) = Sextets(Three(image, g))[j]
    <2>1. PICK k : k = (4 * (g - 1)) + j
      OBVIOUS
    <2>2. k \in 1..(4 * n) /\ ((k - 1) \div 4) + 1 = g /\ ((k - 1) % 4) + 1 = j
      BY <1>2, <2>1
    <2>3. QED
      BY <2>1, <2>2
  <1> HIDE DEF Of
  <1>6. ASSUME NEW k \in 1..(4 * n)
        PROVE  e[k] \in Byte /\ e[k] # 37 /\ b64_int(e[k]) = Of(k)
    <2>1. e[k] = Character(Of(k))
      BY <1>3
    <2>2. Of(k) \in 0..64
      BY <1>4
    <2>3. QED
      BY <2>1, <2>2, CharacterDecodes
  <1>7. e \in Seq(Byte) /\ Len(e) = 4 * n
    BY <1>2, <1>3, <1>6
  <1>8. ASSUME NEW g \in 1..n, NEW j \in 1..4
        PROVE  b64_int(e[(4 * (g - 1)) + j]) = Sextets(Three(image, g))[j]
    BY <1>5, <1>6
  <1>9. QED
    BY <1>1, <1>6, <1>7, <1>8

\* The groups of an image, put together, are the image.
LEMMA GroupsFlatten ==
  ASSUME NEW image \in Seq(Byte), NEW n \in 0..Groups(image)
  PROVE  FlattenSeq([g \in 1..n |-> Three(image, g)]) = SubSeq(image, 1, Upto(image, n))
  <1>1. PICK bs, l : bs = [g \in 1..n |-> Three(image, g)] /\ l = Len(image)
    OBVIOUS
  <1>2. n \in Nat /\ n <= Groups(image) /\ l \in Nat
    BY <1>1, GroupsAre
  <1>3. bs \in Seq(Seq(Byte)) /\ Len(bs) = n
    <2>1. \A g \in 1..n : Three(image, g) \in Seq(Byte)
      BY <1>2, GroupsAre, ThreeIs
    <2>2. QED
      BY <1>1, <1>2, <2>1
  <1>4. \A g \in 1..n : Flat(bs)[g] = FlatTurn(bs, Flat(bs), g)
    BY <1>3, FlatExists
  <1>5. ASSUME NEW g \in 1..n
        PROVE  /\ bs[g] = SubSeq(image, Upto(image, g - 1) + 1, Upto(image, g))
               /\ Upto(image, g - 1) \in 0..Upto(image, g) /\ Upto(image, g) \in 0..l
    <2>1. g \in 1..Groups(image) /\ g \in Nat
      BY <1>2, GroupsAre
    <2>2. QED
      BY <1>1, <2>1, ThreeIs, GroupsAre
  <1> DEFINE S == {k \in Nat : k \in 1..n => Flat(bs)[k] = SubSeq(image, 1, Upto(image, k))}
  <1>6. 0 \in S
    OBVIOUS
  <1>7. Upto(image, 0) = 0
    BY <1>1, <1>2 DEF Upto
  <1>8. ASSUME NEW k \in Nat, k \in S PROVE k + 1 \in S
    <2>1. ASSUME k + 1 \in 1..n PROVE Flat(bs)[k + 1] = SubSeq(image, 1, Upto(image, k + 1))
      <3>1. PICK b, e : b = Upto(image, k) /\ e = Upto(image, k + 1)
        OBVIOUS
      <3>2. bs[k + 1] = SubSeq(image, b + 1, e) /\ b \in 0..e /\ e \in 0..l
        <4>1. (k + 1) - 1 = k
          OBVIOUS
        <4>2. QED
          BY <1>5, <2>1, <3>1, <4>1
      <3>3. Flat(bs)[k + 1] = FlatTurn(bs, Flat(bs), k + 1)
        BY <1>4, <2>1
      <3>4. CASE k = 0
        <4>1. b = 0 /\ k + 1 = 1 /\ b + 1 = 1
          BY <1>7, <3>1, <3>4
        <4>2. Flat(bs)[k + 1] = bs[k + 1]
          BY <3>3, <4>1 DEF FlatTurn
        <4>3. bs[k + 1] = SubSeq(image, 1, e)
          BY <3>2, <4>1
        <4>4. QED
          BY <3>1, <4>2, <4>3
      <3>5. CASE k # 0
        <4>1. k \in 1..n /\ (k + 1) - 1 = k /\ k + 1 # 1
          BY <1>2, <2>1, <3>5
        <4>2. Flat(bs)[k + 1] = Flat(bs)[k] \o bs[k + 1]
          BY <3>3, <4>1 DEF FlatTurn
        <4>3. Flat(bs)[k] = SubSeq(image, 1, b)
          BY <1>8, <3>1, <4>1
        <4>4. SubSeq(image, 1, b) \o SubSeq(image, b + 1, e) = SubSeq(image, 1, e)
          <5>1. 1 \in 1..(Len(image) + 1) /\ b \in (1 - 1)..Len(image) /\ e \in b..Len(image)
            BY <1>1, <1>2, <3>2
          <5>2. QED
            BY <5>1, ConcatAdjacentSubSeq
        <4>5. QED
          BY <3>1, <3>2, <4>2, <4>3, <4>4
      <3>6. QED
        BY <3>4, <3>5
    <2>2. QED
      BY <2>1
  <1>9. \A k \in Nat : k \in S
    <2> HIDE DEF S
    <2>1. QED
      BY <1>6, <1>8, SetInduction
  <1>10. CASE n = 0
    <2>1. FlattenSeq(bs) = bs
      BY <1>3, <1>10, FlattenSeqIs
    <2>2. bs = <<>>
      BY <1>3, <1>10
    <2>3. SubSeq(image, 1, 0) = <<>>
      OBVIOUS
    <2>4. QED
      BY <1>1, <1>7, <1>10, <2>1, <2>2, <2>3
  <1>11. CASE n # 0
    <2>1. n \in 1..n
      BY <1>2, <1>11
    <2>2. Flat(bs)[n] = SubSeq(image, 1, Upto(image, n))
      BY <1>2, <1>9, <2>1
    <2>3. FlattenSeq(bs) = Flat(bs)[n]
      BY <1>3, <1>11, FlattenSeqIs
    <2>4. QED
      BY <1>1, <2>2, <2>3
  <1>12. QED
    BY <1>10, <1>11

\* b64_decode takes a text whose groups are an image's to the bytes of the groups.
LEMMA b64Decodes ==
  ASSUME NEW image \in Seq(Byte), NEW in \in Seq(Byte), NEW n \in 0..Groups(image),
         Len(in) \div 4 = n, \A i \in 1..(4 * n) : in[i] = Encoded(image)[i]
  PROVE  b64_decode(in) = SubSeq(image, 1, Upto(image, n))
  <1> DEFINE Four(g) == [j \in 1..4 |-> b64_int(in[(4 * (g - 1)) + j])]
  <1>1. n \in Nat /\ n <= Groups(image)
    BY GroupsAre
  <1>2. ASSUME NEW g \in 1..n PROVE Group(Four(g)) = Three(image, g)
    <2>1. g \in 1..Groups(image)
      BY <1>1, GroupsAre
    <2>2. ASSUME NEW j \in 1..4 PROVE Four(g)[j] = Sextets(Three(image, g))[j]
      <3>1. PICK k : k = (4 * (g - 1)) + j
        OBVIOUS
      <3>2. k \in 1..(4 * n)
        BY <1>1, <3>1
      <3>3. in[k] = Encoded(image)[k]
        BY <3>2
      <3>4. b64_int(Encoded(image)[k]) = Sextets(Three(image, g))[j]
        BY <2>1, <3>1, EncodedIs
      <3>5. Four(g)[j] = b64_int(in[k])
        BY <3>1
      <3>6. QED
        BY <3>3, <3>4, <3>5
    <2> HIDE DEF Four
    <2>3. Three(image, g) \in Seq(Byte) /\ Len(Three(image, g)) \in 1..3
      BY <2>1, ThreeIs
    <2>4. QED
      BY <2>2, <2>3, GroupDecodes
  <1>3. b64_decode(in) = FlattenSeq([g \in 1..n |-> Group(Four(g))])
    BY DEF b64_decode
  <1>4. [g \in 1..n |-> Group(Four(g))] = [g \in 1..n |-> Three(image, g)]
    <2> HIDE DEF Four
    <2>1. QED
      BY <1>2
  <1> HIDE DEF Four
  <1>5. QED
    BY <1>3, <1>4, GroupsFlatten

\* The image is what the server reads of its base64 text, however the client has
\* escaped that; of a text whose end was cut off it reads the first groups.
Meant(image, whole, buffer) ==
  /\ IsPrefix(buffer, image)
  /\ Len(image) - Len(buffer) <= IF whole THEN 0 ELSE 3

LEMMA BeginningMeant ==
  ASSUME NEW image \in Seq(Byte), NEW whole \in BOOLEAN, NEW n \in 0..Groups(image),
         n >= Groups(image) - 1, whole => n = Groups(image)
  PROVE  Meant(image, whole, SubSeq(image, 1, Upto(image, n)))
  <1>1. PICK l, u, b : l = Len(image) /\ u = Upto(image, n) /\ b = SubSeq(image, 1, u)
    OBVIOUS
  <1>2. n \in Nat /\ l \in Nat /\ u \in 0..l /\ l - u <= 3
    BY <1>1, GroupsAre
  <1>3. whole => u = l
    BY <1>1, GroupsAre
  <1>4. Len(b) = u
    BY <1>1, <1>2
  <1>5. SubSeq(b, 1, Len(b)) = b
    <2>1. b \in Seq(Byte)
      BY <1>1, <1>2
    <2>2. QED
      BY <2>1, SubSeqFull
  <1>6. IsPrefix(b, image)
    BY <1>1, <1>2, <1>4, <1>5 DEF IsPrefix
  <1>7. l - u <= IF whole THEN 0 ELSE 3
    BY <1>2, <1>3
  <1>8. QED
    BY <1>1, <1>4, <1>6, <1>7 DEF Meant

LEMMA TextDecodes ==
  ASSUME NEW m, IsText(m), NEW image \in Seq(Byte), image = m.image
  PROVE  Meant(image, m.whole, b64_decode(url_decode(m.chars)))
  <1>1. PICK cut \in 0..3, ways \in Seq(Ways), end \in Ends :
          /\ Len(ways) = Len(Encoded(m.image)) /\ (cut # 0 => end = <<>>)
          /\ m = Text(m.image, cut, ways, end)
    BY DEF IsText
  <1>2. PICK e, l, s : e = Encoded(image) /\ l = Len(e) - cut /\ s = SubSeq(e, 1, l)
    OBVIOUS
  <1>3. m.chars = Written(s, ways, end) /\ m.whole = (cut = 0)
    <2>1. PICK w : w = Written(s, ways, end)
      OBVIOUS
    <2>2. m = [chars |-> w, image |-> image, whole |-> cut = 0]
      BY <1>1, <1>2, <2>1 DEF Text
    <2>3. QED
      BY <2>1, <2>2
  <1>4. PICK n : n = Groups(image)
    OBVIOUS
  <1>5. /\ n \in Nat /\ e \in Seq(Byte) /\ Len(e) = 4 * n
        /\ \A k \in 1..Len(e) : e[k] # 37
    BY <1>2, <1>4, EncodedIs, GroupsAre
  <1>6. cut \in Int /\ l \in Int /\ l <= Len(e)
    BY <1>2, <1>5
  <1>7. PICK k : k = IF l > 0 THEN l ELSE 0
    OBVIOUS
  <1>8. /\ k \in Nat /\ k <= Len(e) /\ s \in Seq(Byte) /\ Len(s) = k
        /\ \A i \in 1..k : s[i] = e[i]
    <2>1. CASE l > 0
      <3>1. l \in Nat /\ l <= Len(e) /\ k = l /\ 0 \in Nat /\ 1 = 0 + 1 /\ l = 0 + l
        BY <1>6, <1>7, <2>1
      <3>2. s \in Seq(Byte) /\ Len(s) = l /\ \A i \in 1..l : s[i] = e[0 + i]
        BY <1>2, <1>5, <3>1, Slice
      <3>3. \A i \in 1..l : 0 + i = i
        BY <1>6
      <3>4. QED
        BY <3>1, <3>2, <3>3
    <2>2. CASE ~(l > 0)
      <3>1. s = <<>>
        BY <1>2, <1>5, <1>6, <2>2
      <3>2. QED
        BY <1>5, <1>6, <1>7, <2>2, <3>1
    <2>3. QED
      BY <2>1, <2>2
  <1>9. PICK in : in = url_decode(m.chars)
    OBVIOUS
  <1>10. in = s \o end
    <2>1. \A i \in 1..Len(s) : s[i] # 37 /\ ways[i] \in Ways
      BY <1>1, <1>2, <1>5, <1>8
    <2>2. url_decode(Written(s, ways, end)) = s \o end
      BY <1>8, <2>1, WrittenDecodes
    <2>3. QED
      BY <1>3, <1>9, <2>2
  <1>11. PICK d : d = Len(in) \div 4
    OBVIOUS
  <1>12. end \in Seq(Byte) /\ Len(end) \in 0..1 /\ (cut # 0 => Len(end) = 0)
    <2>1. << 37 >> \in Seq(Byte) /\ Len(<< 37 >>) = 1 /\ <<>> \in Seq(Byte) /\ Len(<<>>) = 0
      BY DEF Byte
    <2>2. end = <<>> \/ end = << 37 >>
      BY <1>1 DEF Ends
    <2>3. CASE end = <<>>
      BY <2>1, <2>3
    <2>4. CASE end = << 37 >>
      <3>1. end # <<>>
        BY <2>1, <2>4
      <3>2. cut = 0 /\ Len(end) = 1 /\ end \in Seq(Byte)
        BY <1>1, <2>1, <2>4, <3>1
      <3>3. QED
        BY <3>2
    <2>5. QED
      BY <2>2, <2>3, <2>4
  <1>13. in \in Seq(Byte) /\ Len(in) = k + Len(end) /\ \A i \in 1..k : in[i] = s[i]
    <2>1. s \in Seq(Byte) /\ end \in Seq(Byte) /\ Len(s) = k
      BY <1>8, <1>12
    <2>2. /\ s \o end \in Seq(Byte) /\ Len(s \o end) = Len(s) + Len(end)
          /\ \A i \in 1..Len(s) : (s \o end)[i] = s[i]
      BY <2>1, Joined
    <2>3. QED
      BY <1>10, <2>1, <2>2
  <1>14. d \in 0..n /\ d >= n - 1 /\ 4 * d <= k /\ (cut = 0 => d = n)
    <2>1. CASE cut = 0
      <3>1. k = 4 * n
        BY <1>2, <1>5, <1>7, <2>1
      <3>2. Len(in) = 4 * n \/ Len(in) = (4 * n) + 1
        <4>1. PICK w, c : w = Len(end) /\ c = Len(in)
          OBVIOUS
        <4>2. w \in 0..1 /\ c = (4 * n) + w
          BY <1>12, <1>13, <3>1, <4>1
        <4>3. n \in Nat
          BY <1>5
        <4>4. c = 4 * n \/ c = (4 * n) + 1
          BY <4>2, <4>3
        <4>5. QED
          BY <4>1, <4>4
      <3>3. d = n
        BY <1>5, <1>11, <3>2
      <3>4. QED
        BY <1>5, <3>1, <3>3
    <2>2. CASE cut # 0 /\ n > 0
      <3>1. k = (4 * n) - cut
        BY <1>2, <1>5, <1>7, <2>2
      <3>2. Len(in) = (4 * n) - cut
        BY <1>8, <1>12, <1>13, <2>2, <3>1
      <3>3. d = n - 1
        BY <1>5, <1>11, <2>2, <3>2
      <3>4. QED
        BY <1>5, <2>2, <3>1, <3>3
    <2>3. CASE cut # 0 /\ n = 0
      <3>1. k = 0
        BY <1>5, <1>8, <2>3
      <3>2. Len(in) = 0
        BY <1>12, <1>13, <2>3, <3>1
      <3>3. d = 0
        BY <1>11, <3>2
      <3>4. QED
        BY <2>3, <3>1, <3>3
    <2>4. QED
      BY <1>5, <2>1, <2>2, <2>3
  <1>15. b64_decode(in) = SubSeq(image, 1, Upto(image, d))
    <2>1. d \in 0..Groups(image) /\ Len(in) \div 4 = d
      BY <1>4, <1>11, <1>14
    <2>2. ASSUME NEW i \in 1..(4 * d) PROVE in[i] = Encoded(image)[i]
      <3>1. i \in 1..k
        BY <1>8, <1>14
      <3>2. QED
        BY <1>2, <1>8, <1>13, <3>1
    <2>3. QED
      BY <1>13, <2>1, <2>2, b64Decodes
  <1>16. Meant(image, m.whole, SubSeq(image, 1, Upto(image, d)))
    <2>1. m.whole \in BOOLEAN /\ d \in 0..Groups(image) /\ d >= Groups(image) - 1
          /\ (m.whole => d = Groups(image))
      BY <1>3, <1>4, <1>14
    <2>2. QED
      BY <2>1, BeginningMeant
  <1>17. QED
    BY <1>9, <1>15, <1>16

-----------------------------------------------------------------------------
(* What the server has read of a text *)

DecodeInv ==
  /\ pc = "decode" => \A m \in message : temp = url_decode(m.chars)
  /\ pc = "save" => \A m \in message : buff = b64_decode(url_decode(m.chars))

LEMMA NextDecodes == DecodeInv /\ [Next]_vars => DecodeInv'
  <1> SUFFICES ASSUME DecodeInv, [Next]_vars PROVE DecodeInv'
    OBVIOUS
  <1>1. CASE ReceiveText
    <2>1. PICK m \in Messages : message' = {m} /\ temp' = url_decode(m.chars)
      BY <1>1 DEF ReceiveText
    <2>2. pc' = "decode"
      BY <1>1 DEF ReceiveText
    <2>3. QED
      BY <2>1, <2>2 DEF DecodeInv
  <1>2. ASSUME Refuse PROVE DecodeInv'
    <2>1. pc' = "operate"
      BY <1>2 DEF Refuse, MakeList
    <2>2. QED
      BY <2>1 DEF DecodeInv
  <1>3. CASE ReceiveOther
    <2>1. pc' \in {"operate", "dead"}
      BY <1>3 DEF ReceiveOther, ReceiveRefused, ReceiveUpload, ReceiveUnparsed,
                  ReceiveFatal, MakeList
    <2>2. QED
      BY <2>1 DEF DecodeInv
  <1>4. CASE Decode
    <2>1. CASE Refuse
      BY <1>2, <2>1
    <2>2. CASE ~Refuse
      <3>1. pc = "decode" /\ pc' = "save" /\ buff' = b64_decode(temp) /\ message' = message
        BY <1>4, <2>2 DEF Decode
      <3>2. QED
        BY <3>1 DEF DecodeInv
    <2>3. QED
      BY <2>1, <2>2
  <1>5. CASE Save
    <2>1. CASE Refuse
      BY <1>2, <2>1
    <2>2. CASE ~Refuse
      <3>1. pc' = "operate"
        BY <1>5, <2>2 DEF Save, MakeList
      <3>2. QED
        BY <3>1 DEF DecodeInv
    <2>3. QED
      BY <2>1, <2>2
  <1>6. CASE Operate \/ PrintJson \/ FreeNode \/ FreeList \/ Reply
    <2>1. pc' \in {"operate", "free", "reply", "idle", "dead"}
      BY <1>6 DEF Operate, PrintJson, FreeNode, FreeList, Reply
    <2>2. QED
      BY <2>1 DEF DecodeInv
  <1>7. CASE UNCHANGED vars
    BY <1>7 DEF vars, DecodeInv
  <1>8. QED
    BY <1>1, <1>3, <1>4, <1>5, <1>6, <1>7 DEF Next, Work

\* Whatever images clients send as base64, of any length and bytes, and however
\* they escape the text (url_decode), what b64_decode gives save_img is the image
\* that was meant; of a text that was cut off, its beginning without at most one
\* group.  The assumption says what the texts are, not what the server does.
THEOREM TextsDecoded ==
  ASSUME \A m \in Messages : IsText(m)
  PROVE  Spec => []DecodedAsSent
  <1>1. TypeInv /\ DecodeInv => DecodedAsSent
    <2> SUFFICES ASSUME TypeInv, DecodeInv, pc = "save", NEW m \in message
                 PROVE  Meant(m.image, m.whole, buff)
      BY DEF DecodedAsSent, Meant
    <2>1. m \in Messages /\ buff = b64_decode(url_decode(m.chars))
      BY DEF TypeInv, DecodeInv
    <2>2. PICK image : image = m.image
      OBVIOUS
    <2>3. image \in Seq(Byte)
      <3>1. IsMessage(m)
        BY <2>1, MessagesAssumption
      <3>2. QED
        BY <2>2, <3>1 DEF IsMessage, Byte
    <2>4. QED
      BY <2>1, <2>2, <2>3, TextDecodes
  <1>2. Init => DecodeInv
    BY DEF Init, DecodeInv
  <1>3. Spec => []TypeInv
    BY InitType, NextType, PTL DEF Spec
  <1>4. QED
    BY <1>1, <1>2, <1>3, NextDecodes, PTL DEF Spec
=============================================================================
