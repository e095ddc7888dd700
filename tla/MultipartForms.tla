--------------------------- MODULE MultipartForms ---------------------------
(***************************************************************************)
(* The forms that clients send to Multipart, as RFC 2046 and RFC 7578      *)
(* write them, and what they are to be told.                               *)
(***************************************************************************)
EXTENDS Multipart, SequencesExt

\* What stands from the k-th piece on, if end follows the last one.
From(pieces, end) ==
  LET from[k \in 1..(Len(pieces) + 1)] ==
        IF k > Len(pieces) THEN end ELSE pieces[k] \o from[k + 1]
  IN  from

\* What a client sends: the boundary, the parts with a boundary behind each, and
\* the end of the form.
RenderHeader(h) == h.name \o <<":", SP>> \o h.value \o <<CR, LF>>
DataAndBoundary(p) == <<CR, LF>> \o p.data \o <<CR, LF>> \o Boundary
FromHeader(p) ==
  From([h \in DOMAIN p.headers |-> RenderHeader(p.headers[h])], DataAndBoundary(p))
RenderPart(p) == <<CR, LF>> \o FromHeader(p)[1]
FromPart(parts) ==
  From([k \in DOMAIN parts |-> RenderPart(parts[k])], <<"-", "-", CR, LF>>)
RenderForm(parts) == Boundary \o FromPart(parts)[1]

\* What a header says of a file: the first byte of its value that does.
Says(h) ==
  LET named == {j \in DOMAIN h.value : h.value[j] \in Values \ {"plain"}}
  IN  IF named = {} THEN "plain"
      ELSE h.value[CHOOSE j \in named : \A k \in named : j <= k]

\* A part has any number of headers, of which one at most names a file, and
\* data in which the boundary does not begin a line.
Header == [name : Seq(Letters \union {"-"}), value : Seq(Bytes \ {CR})]
Part ==
  {p \in [headers : Seq(Header), data : Seq(Bytes)] :
     /\ \A g, h \in DOMAIN p.headers :
          Says(p.headers[g]) # "plain" /\ Says(p.headers[h]) # "plain" => g = h
     /\ \A j \in 1..(Len(p.data) - BoundaryLength - 1) :
          SubSeq(p.data, j, j + 1 + BoundaryLength) # <<CR, LF>> \o Boundary}

\* A form of one part or more arrives whole, or up to one of its bytes.
IsForm(r) ==
  /\ r.parts \in Seq(Part) /\ Len(r.parts) > 0
  /\ LET form == RenderForm(r.parts)
     IN  \/ r.arrives = "whole" /\ r.body = form
         \/ /\ r.arrives = "cut" /\ Len(r.body) < Len(form)
            /\ r.body = SubSeq(form, 1, Len(r.body))

\* A request for which the parser runs holds a form, unless it was damaged.
ASSUME FormsAssumption ==
  \A r \in Requests :
    r.kind = "multipart" /\ r.arrives \in {"whole", "cut"} => IsForm(r)

-----------------------------------------------------------------------------
(* Properties *)

\* A file of a type that is not taken, as its header says, is told; a part that
\* no header refuses is saved, unless it is empty.
TypeTold(p) == \E h \in DOMAIN p.headers : Says(p.headers[h]) \in {"other", "unclosed"}
ToSave(p) == p.data # <<>> /\ \A h \in DOMAIN p.headers : ~Refuses(Says(p.headers[h]))
Mentioned(p) == TypeTold(p) \/ ToSave(p)

\* The answer, as the client reads it, in the order of the parts.
InOrder == IF req.service = "up" THEN Reverse(out) ELSE out
Saves(n) == InOrder[n].msg \in {"ok", "save"}

\* The n-th result is the one for the part p: it has the data of p, and no byte
\* of another part, or says that the type of p is not supported.
Answers(n, p) ==
  IF Saves(n)
  THEN ToSave(p) /\ SubSeq(body, InOrder[n].from, InOrder[n].to) = p.data
  ELSE InOrder[n].msg = "type" /\ TypeTold(p)

\* The results ns are for the parts ks: one for each, in their order.
AnswerParts(ns, ks) ==
  \E which \in [ns -> ks] :
    /\ \A m, n \in ns : m < n => which[m] < which[n]
    /\ \A k \in ks : \E n \in ns : which[n] = k
    /\ \A n \in ns : Answers(n, req.parts[which[n]])

\* A form that arrives whole is answered part by part: each file that is
\* refused is told, every other part that is not empty is saved, byte for byte
\* and by itself, and what is said of a part never depends on the others.
PartsAnswered ==
  pc = "parsed" /\ req.arrives = "whole" =>
    AnswerParts(DOMAIN InOrder, {k \in DOMAIN req.parts : Mentioned(req.parts[k])})

\* Of a form that stops early the first parts are saved, byte for byte: none
\* that did not arrive whole, and none twice, out of turn or left out before
\* another.
CutSavesWholeParts ==
  pc = "parsed" /\ req.arrives = "cut" =>
    \E last \in 0..Len(req.parts) :
      AnswerParts({n \in DOMAIN InOrder : Saves(n)},
                  {k \in 1..last : ToSave(req.parts[k])})
=============================================================================
