------------------------------- MODULE Base64 -------------------------------
(***************************************************************************)
(* Uploads of images as base64 text, and the answers of the second upload  *)
(* service: base64_request_cb (xhttpd.c), url_decode, b64_decode and       *)
(* result2json (xutil.c), the list of results (xlist.c).                   *)
(*                                                                         *)
(* One worker: a request shares nothing with others.  Form uploads of the  *)
(* service (Multipart) appear with the results they have come to, since    *)
(* their answers are made from the same list.                              *)
(***************************************************************************)
EXTENDS Md5, FiniteSets, Functions, SequencesExt

CONSTANTS
  Messages,   \* what clients send: the value of base64, and what is meant
  MaxResults  \* bound: parts of a form upload

\* whole: the text is all of the image's base64 text; otherwise its end is cut off.
IsMessage(m) ==
  m \in [chars : Seq(1..255), image : Seq(0..255), whole : BOOLEAN]

ASSUME MessagesAssumption == \A m \in Messages : IsMessage(m)
ASSUME MaxResultsAssumption == MaxResults \in Nat

VARIABLES
  pc,       \* the step of the request under way
  message,  \* what the client has sent, as a set: for other uploads it is empty
  temp,     \* the text after url_decode
  buff,     \* the image after b64_decode
  infos,    \* the results, as they were put into the list
  list,     \* the list of results, from its head: indices of infos
  at,       \* current of operatorLinkedList and freeLinkedList
  array,    \* the array of the answer
  heap,     \* what the request has allocated and not freed
  pointers, \* the local variables that point to memory, by what they point to
  twice,    \* memory that was freed when it was not allocated
  losses    \* what the request has met that loses memory

vars == <<pc, message, temp, buff, infos, list, at, array, heap, pointers, twice, losses>>

-----------------------------------------------------------------------------
(* Texts: characters are their codes in ASCII *)

b64_int(ch) ==
  CASE ch = 43        -> 62
    [] ch = 47        -> 63
    [] ch = 61        -> 64
    [] ch \in 48..57  -> ch + 4
    [] ch \in 65..90  -> ch - 65
    [] ch \in 97..122 -> (ch - 97) + 26
    [] OTHER          -> 0

\* Mutant: the padding is not looked at.
GroupWhole(s) ==
  <<((s[1] * 4) + ((s[2] % 64) \div 16)) % 256,
    (((s[2] % 16) * 16) + ((s[3] % 64) \div 4)) % 256,
    (((s[3] % 4) * 64) + s[4]) % 256>>

\* b64_decode: the bytes of four characters; a 64 is the padding.
Group(s) ==
  LET first == ((s[1] * 4) + ((s[2] % 64) \div 16)) % 256
      second == (((s[2] % 16) * 16) + ((s[3] % 64) \div 4)) % 256
      third == (((s[3] % 4) * 64) + s[4]) % 256
  IN IF s[3] = 64 THEN <<first>>
     ELSE IF s[4] = 64 THEN <<first, second>> ELSE <<first, second, third>>

\* Characters behind the last group of four are dropped.
b64_decode(in) ==
  FlattenSeq([g \in 1..(Len(in) \div 4) |->
                Group([j \in 1..4 |-> b64_int(in[(4 * (g - 1)) + j])])])

HexValue(ch) ==
  CASE ch \in 48..57  -> ch - 48
    [] ch \in 65..70  -> ch - 55
    [] ch \in 97..102 -> ch - 87
    [] OTHER          -> -1

\* Mutant: an escape is stepped over by one character too few.
url_decodeStep(str) ==
  LET hex(i) == i <= Len(str) /\ HexValue(str[i]) >= 0
      from[i \in 1..(Len(str) + 1)] ==
        IF i > Len(str) THEN <<>>
        ELSE IF str[i] # 37 \/ i = Len(str) THEN <<str[i]>> \o from[i + 1]
        ELSE IF hex(i + 1) /\ hex(i + 2)
        THEN <<(HexValue(str[i + 1]) * 16) + HexValue(str[i + 2])>> \o from[i + 2]
        ELSE from[i + 1]
  IN from[1]

\* url_decode: a % at the end stays, any other without two digits is dropped.
url_decode(str) ==
  LET hex(i) == i <= Len(str) /\ HexValue(str[i]) >= 0
      from[i \in 1..(Len(str) + 1)] ==
        IF i > Len(str) THEN <<>>
        ELSE IF str[i] # 37 \/ i = Len(str) THEN <<str[i]>> \o from[i + 1]
        ELSE IF hex(i + 1) /\ hex(i + 2)
        THEN <<(HexValue(str[i + 1]) * 16) + HexValue(str[i + 2])>> \o from[i + 3]
        ELSE from[i + 1]
  IN from[1]

-----------------------------------------------------------------------------
(* Memory *)

Node(i) == <<"node", i>>
Info(i) == <<"info", i>>
List == <<"list", 0>>
Temp == <<"temp", 0>>
Buff == <<"buff", 0>>
Ret == <<"ret", 0>>
Pattern == <<"boundaryPattern", 0>>
Parser == <<"parser", 0>>
Arg == <<"mp_arg", 0>>
FormList == <<"list of x_multipart_parse", 0>>

Nodes == {Node(i) : i \in 1..(MaxResults + 1)}
Locals == {Temp, Buff, Ret, Pattern, Parser, Arg}
Memory == Nodes \union {Info(i) : i \in 1..(MaxResults + 1)}
            \union Locals \union {List, FormList}

\*   overwritten  free has written over the pointer to the next node
\*   unparsed     x_multipart_parse has given a form up
Losses == {"overwritten", "unparsed"}

Free(ms) == heap' = heap \ ms /\ twice' = twice \union (ms \ heap)

Init ==
  /\ pc = "idle" /\ message = {} /\ temp = <<>> /\ buff = <<>>
  /\ infos = <<>> /\ list = <<>> /\ at = 1 /\ array = <<>>
  /\ heap = {} /\ pointers = {} /\ twice = {} /\ losses = {}

\* Mutant: a result is put at the tail of the list.
MakeListTail(results, rest) ==
  /\ infos' = results
  /\ list' = [i \in DOMAIN results |-> i]
  /\ at' = 1 /\ array' = <<>>
  /\ heap' = rest \union {List} \union {Node(i) : i \in DOMAIN results}
                  \union {Info(i) : i \in DOMAIN results}
  /\ pc' = "operate"

\* initializeList, and addHead for one result after the other.
MakeList(results, rest) ==
  /\ infos' = results
  /\ list' = Reverse([i \in DOMAIN results |-> i])
  /\ at' = 1 /\ array' = <<>>
  /\ heap' = rest \union {List} \union {Node(i) : i \in DOMAIN results}
                  \union {Info(i) : i \in DOMAIN results}
  /\ pc' = "operate"

\* Mutant: the code of a result is not set.
ResultWithoutCode(code, name) == [code |-> 0, name |-> name]

Result(code, name) == [code |-> code, name |-> name]

-----------------------------------------------------------------------------
(* Requests *)

\* base64_request_cb with a POST and a text.
ReceiveText ==
  /\ pc = "idle"
  /\ \E m \in Messages : message' = {m} /\ temp' = url_decode(m.chars)
  /\ heap' = {Temp} /\ pointers' = {Temp} /\ losses' = {}
  /\ pc' = "decode"
  /\ UNCHANGED <<buff, infos, list, at, array, twice>>

\* base64_request_cb with another method or without the text, and an upload that
\* post_upload_request_cb refuses before or after it has read the body: the
\* answer has no result.
ReceiveRefused ==
  /\ pc = "idle"
  /\ \E rest \in SUBSET {Buff} : MakeList(<<>>, rest) /\ pointers' = rest
  /\ losses' = {}
  /\ UNCHANGED <<message, temp, buff, twice>>

\* x_binary_parse with an image, and x_multipart_parse with a form: the list is
\* that of the answer, and has the results of the parts.
ReceiveUpload ==
  /\ pc = "idle"
  /\ \E n \in 0..MaxResults : \E codes \in [1..n -> {200, 201}] :
     \E rest \in {{Buff}, {Buff, Pattern, Parser, Arg}} :
       /\ MakeList([i \in 1..n |-> Result(codes[i], <<>>)], rest)
       /\ pointers' = rest
  /\ losses' = {}
  /\ UNCHANGED <<message, temp, buff, twice>>

\* x_multipart_parse gives a form up: its Content-Type has no boundary, or the
\* quote before it has no end, or a malloc fails.  The list that it has made,
\* and a parser when it is mp_arg that cannot be had, stay behind; err of
\* post_upload_request_cb makes another list.
ReceiveUnparsed ==
  /\ pc = "idle"
  /\ \E parser \in SUBSET {Parser} : MakeList(<<>>, {Buff, FormList} \union parser)
  /\ pointers' = {Buff}
  /\ losses' = {"unparsed"}
  /\ UNCHANGED <<message, temp, buff, twice>>

\* x_multipart_parse with a Content-Type that has the word boundary and no "=":
\* strchr finds nothing, and strlen is asked for the length of a text at 1.
ReceiveFatal ==
  /\ pc = "idle"
  /\ pc' = "dead"
  /\ UNCHANGED <<message, temp, buff, infos, list, at, array, heap, pointers, twice, losses>>

ReceiveOther == ReceiveRefused \/ ReceiveUpload \/ ReceiveUnparsed \/ ReceiveFatal

\* Mutant: err leaves the pointers to what it has freed.
RefuseKeepsPointers ==
  /\ MakeList(<<>>, heap \ pointers)
  /\ twice' = twice \union (pointers \ heap)
  /\ UNCHANGED <<pointers, message, temp, buff, losses>>

\* err: temp and buff are freed, and the answer has no result.
Refuse ==
  /\ MakeList(<<>>, heap \ pointers)
  /\ twice' = twice \union (pointers \ heap)
  /\ pointers' = {}
  /\ UNCHANGED <<message, temp, buff, losses>>

\* malloc for the image, whose length is three quarters of the text's; it is
\* never less than b64_decode writes.
Decode ==
  /\ pc = "decode"
  /\ \/ /\ buff' = b64_decode(temp)
        /\ heap' = heap \union {Buff} /\ pointers' = pointers \union {Buff}
        /\ pc' = "save"
        /\ UNCHANGED <<message, temp, infos, list, at, array, twice, losses>>
     \/ Refuse

\* save_img names the image and stores it, or fails.
Save ==
  /\ pc = "save"
  /\ \/ /\ MakeList(<<Result(200, Digest(buff))>>, heap)
        /\ UNCHANGED <<message, temp, buff, pointers, twice, losses>>
     \/ Refuse

-----------------------------------------------------------------------------
(* result2json *)

\* operatorLinkedList, operatorInfo: a result goes into the array.
Operate ==
  /\ pc = "operate" /\ at <= Len(list)
  /\ array' = Append(array, infos[list[at]])
  /\ Free({Info(list[at])})
  /\ at' = at + 1
  /\ UNCHANGED <<pc, message, temp, buff, infos, list, pointers, losses>>

\* cJSON_PrintUnformatted gives the text ret; freeLinkedList begins.
PrintJson ==
  /\ pc = "operate" /\ at > Len(list)
  /\ heap' = heap \union {Ret} /\ pointers' = pointers \union {Ret}
  /\ at' = 1 /\ pc' = "free"
  /\ UNCHANGED <<message, temp, buff, infos, list, array, twice, losses>>

\* freeLinkedList frees a node and then reads its next pointer: it is still
\* there, or free has written over it: with NULL, or with something that the
\* process dies of when it is followed and freed.
FreeNode ==
  /\ pc = "free" /\ at <= Len(list)
  /\ Free({Node(list[at])})
  /\ \/ at' = at + 1 /\ UNCHANGED <<pc, losses>>
     \/ /\ at' = Len(list) + 1 /\ UNCHANGED pc
        /\ losses' = losses \union {"overwritten"}
     \/ pc' = "dead" /\ UNCHANGED <<at, losses>>
  /\ UNCHANGED <<message, temp, buff, infos, list, array, pointers>>

FreeList ==
  /\ pc = "free" /\ at > Len(list)
  /\ Free({List})
  /\ pc' = "reply"
  /\ UNCHANGED <<message, temp, buff, infos, list, at, array, pointers, losses>>

\* The answer is sent, and what the local variables point to is freed: ret, temp
\* and buff at done, before that what x_multipart_parse has taken for a form.
Reply ==
  /\ pc = "reply"
  /\ Free(pointers)
  /\ pointers' = {} /\ pc' = "idle"
  /\ UNCHANGED losses
  /\ message' = {} /\ temp' = <<>> /\ buff' = <<>>
  /\ infos' = <<>> /\ list' = <<>> /\ at' = 1 /\ array' = <<>>

Work == Decode \/ Save \/ Operate \/ PrintJson \/ FreeNode \/ FreeList \/ Reply

Next == ReceiveText \/ ReceiveOther \/ Work

Spec == Init /\ [][Next]_vars

-----------------------------------------------------------------------------
(* Properties *)

\* What was read of a text are bytes; the list leads to results of the request, with
\* the codes of the service; what is allocated or freed are pieces of the request.
TypeOK ==
  /\ pc \in {"idle", "decode", "save", "operate", "free", "reply", "dead"}
  /\ \A m \in message : IsMessage(m)
  /\ temp \in Seq(0..255) /\ buff \in Seq(0..255)
  /\ \A i \in DOMAIN infos : infos[i].code \in {200, 201}
  /\ list \in Seq(DOMAIN infos)
  /\ at \in 1..(MaxResults + 2)
  /\ heap \subseteq Memory /\ twice \subseteq Memory
  /\ pointers \subseteq Locals /\ losses \subseteq Losses

\* Of a text that is all there the image is decoded that the client meant,
\* however it has escaped the text; of one that was cut off, the beginning of
\* the image without at most one group.
DecodedAsSent ==
  pc = "save" =>
    \A m \in message :
      /\ IsPrefix(buff, m.image)
      /\ Len(m.image) - Len(buff) <= IF m.whole THEN 0 ELSE 3

\* The array of an answer has each result of its request once, the last one
\* first, and the name that it gives for an image is the md5 of the image's
\* bytes: md5_process is given the message as RFC 1321 pads it, block for block.
AnswerNamesImage ==
  pc \in {"free", "reply"} =>
    /\ array = Reverse(infos)
    /\ message # {} =>
         \A i \in DOMAIN array : FlattenSeq(array[i].name) = Padded(buff)

\* No memory is freed twice, and a request that is over has given back all that
\* it took, unless free has written over a node that freeLinkedList then reads,
\* or x_multipart_parse has given the form up: then no more is lost than the
\* nodes of the list, or the list and the parser of the form.
MemoryGivenBack ==
  /\ twice = {}
  /\ pc = "idle" =>
       heap \subseteq (IF "overwritten" \in losses THEN Nodes ELSE {})
                 \union (IF "unparsed" \in losses THEN {FormList, Parser} ELSE {})
=============================================================================
