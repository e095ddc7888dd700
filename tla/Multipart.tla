------------------------------ MODULE Multipart ------------------------------
(***************************************************************************)
(* A worker thread of zimg takes uploads: /upload (zhttpd.c) and /up       *)
(* (xhttpd.c).  A body is an image by itself or a multipart form, which    *)
(* the parser of xparser.c reads byte by byte; zhttpd.c uses the library   *)
(* that xparser.c is a copy of.  A step of the model is one turn of the    *)
(* parser's loop with the callbacks it makes.                              *)
(***************************************************************************)
EXTENDS Integers, Sequences

CONSTANTS Boundary,   \* boundaryPattern: "--" and the client's boundary
          Letters,    \* letters, which header names are made of
          Others,     \* bytes that mean nothing to the parser
          Requests,   \* the requests that clients may send
          NoRequest   \* stands for no request

CR == "CR"
LF == "LF"
SP == "SP"

\* What a header's value says of a file, as one byte: nothing (plain), a quoted
\* name of an image, of something else, or of length 0, a name whose closing
\* quote is missing, or a name that is not quoted.
Values == {"plain", "image", "other", "empty", "unclosed", "bare"}

Bytes == {CR, LF, "-", ":", SP} \union Letters \union Others \union Values

\* A boundary comes from a header, where no line ends.
ASSUME BoundaryAssumption ==
  Boundary \in Seq(Bytes \ {CR, LF}) /\ Len(Boundary) > 0
ASSUME LettersAssumption ==
  (Letters \union Others) \intersect ({CR, LF, "-", ":", SP} \union Values) = {}
\* The service a request is for, what the callback finds it to be (a request
\* that is refused for its method, sender, length or type; an image; a file of
\* another type; a form; a form whose Content-Type has "boundary" but no "="),
\* and its body, which is not empty.
IsRequest(r) ==
  /\ r.service \in {"upload", "up"}
  /\ r.kind \in {"refused", "image", "other", "multipart", "fatal"}
  /\ r.body \in Seq(Bytes) /\ Len(r.body) > 0
ASSUME RequestsAssumption == \A r \in Requests : IsRequest(r)

VARIABLES pc,          \* what the worker is doing
          req,         \* the request it serves
          i,           \* the parser's position in the body, from 1
          x_state,     \* the parser's state
          index,       \* bytes of the boundary matched so far
          mark,        \* where the header's value begins
          dmark,       \* where the part's data begins
          dbmark,      \* the line end that may begin a boundary
          check_name,  \* mp_arg->check_name = -1: the part is not to be saved
          succno,      \* images saved for this request
          out          \* the answer: what is told of each part

parser == <<i, x_state, index, mark, dmark, dbmark>>
mp_arg == <<check_name, succno>>
vars == <<pc, req, parser, mp_arg, out>>

States == {"start_boundary", "header_field_start", "header_field",
           "headers_almost_done", "header_value_start", "header_value",
           "header_value_almost_done", "part_data_start", "part_data",
           "part_data_almost_boundary", "part_data_boundary",
           "part_data_almost_end", "part_data_end", "part_data_final_hyphen",
           "end"}

\* A result: what is told, and the bytes of the body that it is about.
Told == [msg : {"ok", "save", "type", "failed"}, from : Nat, to : Nat]
Result(msg, from, to) == [msg |-> msg, from |-> from, to |-> to]

body == req.body
c == body[i]
isLast == i = Len(body)

\* The code takes what follows the first "=" of the Content-Type: of a client that
\* writes another parameter before its boundary, the body has another boundary.
BoundaryLength == Len(Boundary)

\* A worker has a request from its receipt to the answer or to the end of the
\* process, the parser reads inside of the body, and index stays within the
\* delimiter that the code has allocated.
TypeOK ==
  /\ pc \in {"idle", "parse", "parsed", "reply", "dead"}
  /\ IF pc = "idle" THEN req = NoRequest ELSE IsRequest(req)
  /\ pc = "parse" => i <= Len(body)
  /\ x_state \in States
  /\ i \in Nat \ {0}
  /\ index \in 0..(BoundaryLength + 1)
  /\ mark \in Nat /\ dmark \in Nat /\ dbmark \in Nat
  /\ check_name \in BOOLEAN
  /\ succno \in Nat
  /\ out \in Seq(Told)

\* x_multipart_parser_init; mp_arg's fields in x_multipart_parse.  s_start does
\* nothing but fall through with an index of 0.
Init ==
  /\ pc = "idle" /\ req = NoRequest /\ out = <<>>
  /\ i = 1 /\ x_state = "start_boundary" /\ index = 0
  /\ mark = 0 /\ dmark = 0 /\ dbmark = 0
  /\ check_name = FALSE /\ succno = 0

-----------------------------------------------------------------------------
(* The callbacks *)

\* addHead: the list of /up grows at its head.  The page of /upload grows at
\* its end.
AddResults(rs) == IF req.service = "up" THEN rs \o out ELSE out \o rs

\* strnstr(at, "filename=", length): the file name in a value.
FileName(from, to) ==
  LET named == {j \in from..to : body[j] \in Values \ {"plain"}}
  IN  IF named = {} THEN "plain"
      ELSE body[CHOOSE j \in named : \A k \in named : j <= k]

\* on_header_value: the value forbids to save the part.
Refuses(v) == v \in {"other", "empty", "unclosed"}

\* Mutant: a part after a refused one is refused too.
OnChunkDataSticky(from, to) ==
  IF check_name \/ to < from
  THEN UNCHANGED <<mp_arg, out>>
  ELSE \/ /\ succno' = succno + 1
          /\ out' = AddResults(<<Result("ok", from, to)>>)
          /\ UNCHANGED check_name
       \/ out' = AddResults(<<Result("save", from, to)>>) /\ UNCHANGED mp_arg

\* The file type of n calls is told as not supported.
TellType(n) == AddResults([k \in 1..n |-> Result("type", 0, 0)])

\* x_on_header_value: a named file that is refused is told.
OnHeaderValue(v) ==
  /\ check_name' = (check_name \/ Refuses(v))
  /\ out' = IF v \notin {"plain", "empty"} /\ check_name' THEN TellType(1) ELSE out
  /\ UNCHANGED succno

\* The value ends at the CR that is also the last byte: x_on_header_value is
\* called a second time, after its first call put a 0 where the quote was.
OnLastHeaderValue(v) ==
  /\ check_name' = (check_name \/ Refuses(v) \/ v = "image")
  /\ out' = CASE v \in {"plain", "empty"} \/ ~check_name' -> out
              [] v = "image" /\ ~check_name               -> TellType(1)
              [] OTHER                                     -> TellType(2)
  /\ UNCHANGED succno

\* x_on_chunk_data: the part is saved, unless a header refused it or it is
\* empty; the next part starts anew.
OnChunkData(from, to) ==
  IF check_name
  THEN check_name' = FALSE /\ UNCHANGED <<succno, out>>
  ELSE IF to < from
  THEN UNCHANGED <<mp_arg, out>>
  ELSE \/ /\ succno' = succno + 1
          /\ out' = AddResults(<<Result("ok", from, to)>>)
          /\ UNCHANGED check_name
       \/ out' = AddResults(<<Result("save", from, to)>>) /\ UNCHANGED mp_arg

-----------------------------------------------------------------------------
(* x_multipart_parser_execute *)

In(states) == pc = "parse" /\ x_state \in states
Become(state) == x_state' = state

\* return i: the parser gives up on the rest of the body.
Stop == pc' = "parsed" /\ UNCHANGED <<i, x_state>>

\* Mutant: the end of the body is not looked at.
AdvanceUnchecked == i' = i + 1 /\ UNCHANGED pc

\* ++i; while (i < len)
Advance == /\ i' = i + 1
           /\ pc' = IF isLast THEN "parsed" ELSE "parse"

\* i--: the byte is read again, as data.
Again == /\ Become("part_data")
         /\ UNCHANGED <<pc, i>>

StartBoundary ==
  /\ In({"start_boundary"})
  /\ \/ /\ index < BoundaryLength /\ c = Boundary[index + 1]
        /\ index' = index + 1 /\ Advance /\ UNCHANGED x_state
     \/ /\ index = BoundaryLength /\ c = CR
        /\ index' = index + 1 /\ Advance /\ UNCHANGED x_state
     \/ /\ index = BoundaryLength + 1 /\ c = LF
        /\ index' = 0 /\ Advance /\ Become("header_field_start")
     \/ /\ index < BoundaryLength => c # Boundary[index + 1]
        /\ index = BoundaryLength => c # CR
        /\ index > BoundaryLength => c # LF
        /\ Stop /\ UNCHANGED index
  /\ UNCHANGED <<req, mark, dmark, dbmark, mp_arg, out>>

HeaderField ==
  /\ In({"header_field_start", "header_field"})
  /\ \/ c = CR /\ Become("headers_almost_done") /\ Advance
     \/ c = ":" /\ Become("header_value_start") /\ Advance
     \/ c \in Letters \union {"-"} /\ Become("header_field") /\ Advance
     \/ c \notin Letters \union {CR, ":", "-"} /\ Stop
  /\ UNCHANGED <<req, index, mark, dmark, dbmark, mp_arg, out>>

HeadersAlmostDone ==
  /\ In({"headers_almost_done"})
  /\ IF c = LF THEN Become("part_data_start") /\ Advance ELSE Stop
  /\ UNCHANGED <<req, index, mark, dmark, dbmark, mp_arg, out>>

HeaderValueStart ==
  /\ In({"header_value_start"})
  /\ c = SP
  /\ Advance
  /\ UNCHANGED <<req, x_state, index, mark, dmark, dbmark, mp_arg, out>>

HeaderValue ==
  /\ \/ In({"header_value_start"}) /\ c # SP /\ mark' = i
     \/ In({"header_value"}) /\ UNCHANGED mark
  /\ IF c = CR
     THEN /\ IF isLast THEN OnLastHeaderValue(FileName(mark', i - 1))
                       ELSE OnHeaderValue(FileName(mark', i - 1))
          /\ Become("header_value_almost_done")
     ELSE /\ IF isLast THEN OnHeaderValue(FileName(mark', i))
                       ELSE UNCHANGED <<mp_arg, out>>
          /\ Become("header_value")
  /\ Advance
  /\ UNCHANGED <<req, index, dmark, dbmark>>

HeaderValueAlmostDone ==
  /\ In({"header_value_almost_done"})
  /\ IF c = LF THEN Become("header_field_start") /\ Advance ELSE Stop
  /\ UNCHANGED <<req, index, mark, dmark, dbmark, mp_arg, out>>

\* Mutant: the data of the second part begins where that of the first began.
PartDataKeepsMark ==
  /\ In({"part_data_start", "part_data"})
  /\ dmark' = IF dmark = 0 THEN i ELSE dmark
  /\ IF c = CR THEN dbmark' = i /\ Become("part_data_almost_boundary")
               ELSE UNCHANGED dbmark /\ Become("part_data")
  /\ Advance
  /\ UNCHANGED <<req, index, mark, mp_arg, out>>

PartData ==
  /\ In({"part_data_start", "part_data"})
  /\ dmark' = IF x_state = "part_data_start" THEN i ELSE dmark
  /\ IF c = CR THEN dbmark' = i /\ Become("part_data_almost_boundary")
               ELSE UNCHANGED dbmark /\ Become("part_data")
  /\ Advance
  /\ UNCHANGED <<req, index, mark, mp_arg, out>>

\* Mutant: the byte is read again in the same state.
PartDataAlmostBoundaryStays ==
  /\ In({"part_data_almost_boundary"})
  /\ IF c = LF THEN Become("part_data_boundary") /\ index' = 0 /\ Advance
               ELSE UNCHANGED <<pc, i, x_state, index>>
  /\ UNCHANGED <<req, mark, dmark, dbmark, mp_arg, out>>

PartDataAlmostBoundary ==
  /\ In({"part_data_almost_boundary"})
  /\ IF c = LF THEN Become("part_data_boundary") /\ index' = 0 /\ Advance
               ELSE Again /\ UNCHANGED index
  /\ UNCHANGED <<req, mark, dmark, dbmark, mp_arg, out>>

\* Mutant: the byte that does not fit is taken for data without another look.
PartDataBoundarySkips ==
  /\ In({"part_data_boundary"})
  /\ IF c # Boundary[index + 1]
     THEN Become("part_data") /\ Advance /\ UNCHANGED index
     ELSE /\ index' = index + 1
          /\ Become(IF index' = BoundaryLength THEN "part_data_almost_end"
                                               ELSE "part_data_boundary")
          /\ Advance
  /\ UNCHANGED <<req, mark, dmark, dbmark, mp_arg, out>>

PartDataBoundary ==
  /\ In({"part_data_boundary"})
  /\ IF c # Boundary[index + 1]
     THEN Again /\ UNCHANGED index
     ELSE /\ index' = index + 1
          /\ Become(IF index' = BoundaryLength THEN "part_data_almost_end"
                                               ELSE "part_data_boundary")
          /\ Advance
  /\ UNCHANGED <<req, mark, dmark, dbmark, mp_arg, out>>

PartDataAlmostEnd ==
  /\ In({"part_data_almost_end"})
  /\ \/ c = "-" /\ Become("part_data_final_hyphen") /\ Advance
     \/ c = CR /\ Become("part_data_end") /\ Advance
     \/ c \notin {"-", CR} /\ Stop
  /\ UNCHANGED <<req, index, mark, dmark, dbmark, mp_arg, out>>

\* One hyphen after the boundary is enough for the data to be handed over.
PartDataFinalHyphen ==
  /\ In({"part_data_final_hyphen"})
  /\ OnChunkData(dmark, dbmark - 1)
  /\ IF c = "-" THEN Become("end") /\ Advance ELSE Stop
  /\ UNCHANGED <<req, index, mark, dmark, dbmark>>

PartDataEnd ==
  /\ In({"part_data_end"})
  /\ IF c = LF
     THEN /\ OnChunkData(dmark, dbmark - 1)
          /\ Become("header_field_start")
          /\ Advance
     ELSE Stop /\ UNCHANGED <<mp_arg, out>>
  /\ UNCHANGED <<req, index, mark, dmark, dbmark>>

End == /\ In({"end"})
       /\ Advance
       /\ UNCHANGED <<req, x_state, index, mark, dmark, dbmark, mp_arg, out>>

Execute == \/ StartBoundary \/ HeaderField \/ HeadersAlmostDone
           \/ HeaderValueStart \/ HeaderValue \/ HeaderValueAlmostDone
           \/ PartData \/ PartDataAlmostBoundary \/ PartDataBoundary
           \/ PartDataAlmostEnd \/ PartDataFinalHyphen \/ PartDataEnd \/ End

-----------------------------------------------------------------------------
(* The requests *)

\* The answer to a request that fails as a whole.
ErrorAnswer(service) ==
  IF service = "up" THEN <<>> ELSE <<Result("failed", 0, 0)>>

\* post_request_cb, post_upload_request_cb: method, access, length and type of
\* the request are looked at, and the boundary of a form, where a missing "=" is
\* read as if it were there and ends the process; a body that is an image is
\* saved at once (binary_parse).
Receive ==
  /\ pc = "idle"
  /\ \E r \in Requests :
       /\ req' = r
       /\ \/ r.kind = "multipart" /\ pc' = "parse" /\ UNCHANGED out
          \/ /\ r.kind = "image" /\ pc' = "reply"
             /\ out' = <<Result("ok", 1, Len(r.body))>>
          \/ r.kind = "fatal" /\ pc' = "dead" /\ UNCHANGED out
          \/ /\ r.kind \notin {"multipart", "fatal"} /\ pc' = "reply"
             /\ out' = ErrorAnswer(r.service)
  /\ UNCHANGED <<parser, mp_arg>>

\* multipart_parse after the parser returned: whatever it returned.
MultipartParsed ==
  /\ pc = "parsed"
  /\ out' = IF req.service = "upload" /\ succno = 0
            THEN Append(out, Result("failed", 0, 0)) ELSE out
  /\ pc' = "reply"
  /\ UNCHANGED <<req, parser, mp_arg>>

\* The answer is sent; parser and mp_arg are freed.
Reply ==
  /\ pc = "reply"
  /\ pc' = "idle" /\ req' = NoRequest /\ out' = <<>>
  /\ i' = 1 /\ x_state' = "start_boundary" /\ index' = 0
  /\ mark' = 0 /\ dmark' = 0 /\ dbmark' = 0
  /\ check_name' = FALSE /\ succno' = 0

Next == Receive \/ Execute \/ MultipartParsed \/ Reply

Spec == Init /\ [][Next]_vars

\* The worker runs; nobody has to send a request.
FairSpec == Spec /\ WF_vars(Execute \/ MultipartParsed \/ Reply)

-----------------------------------------------------------------------------
(* Properties *)

\* A line end and the boundary begin at j.
DelimiterAt(j) ==
  /\ j + 1 + BoundaryLength <= Len(body)
  /\ body[j] = CR /\ body[j + 1] = LF
  /\ \A k \in 1..BoundaryLength : body[j + 1 + k] = Boundary[k]

\* When the parser is about to hand over the data of a part, the data ends at a
\* line end with the boundary and contains none before: nothing of the part is
\* lost, nothing of the next one is taken with it, and a length is never
\* negative, although the parser looks for the boundary without going back.
ChunkDelimited ==
  In({"part_data_almost_end", "part_data_final_hyphen", "part_data_end"}) =>
    /\ dmark <= dbmark
    /\ DelimiterAt(dbmark)
    /\ \A j \in dmark..(dbmark - 1) : ~DelimiterAt(j)

\* Every request is answered, but for one whose boundary has no "=": the loop of
\* the parser, which may read a byte twice, ends, and nothing in a body takes the
\* process down.
Answered == pc # "idle" /\ req.kind # "fatal" ~> pc = "idle"
=============================================================================
