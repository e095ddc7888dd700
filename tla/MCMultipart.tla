----------------------------- MODULE MCMultipart -----------------------------
(* Small forms for Multipart, and requests without one. *)
EXTENDS MultipartForms

Dashes == <<"-", "-", "b">>

Names(value) == [name |-> <<"n", "-", "n">>, value |-> value]
PartOf(value, typed, data) ==
  [headers |-> <<Names(<<value>>)>> \o (IF typed THEN <<Names(<<"plain">>)>> ELSE <<>>),
   data |-> data]
Parts(values, typed, datas) ==
  {PartOf(v, t, d) : v \in values, t \in typed, d \in datas \ {<<CR, LF>> \o Dashes}}

\* Forms that arrive whole, up to one of their bytes, and with one byte changed.
Form(service, parts, arrives, bytes) ==
  [service |-> service, kind |-> "multipart", parts |-> parts,
   arrives |-> arrives, body |-> bytes]
Whole(services, forms) ==
  {Form(s, f, "whole", RenderForm(f)) : s \in services, f \in forms}
Cut(services, forms) ==
  UNION {LET form == RenderForm(f)
         IN  {Form(s, f, "cut", SubSeq(form, 1, n)) : s \in services, n \in 1..(Len(form) - 1)} :
         f \in forms}
Damaged(services, forms) ==
  UNION {LET form == RenderForm(f)
         IN  {Form(s, f, "damaged", [form EXCEPT ![n] = "0"]) : s \in services, n \in DOMAIN form} :
         f \in forms}
\* The boundary that the code takes is not the one that the client writes.
Misread(services, forms) ==
  UNION {LET form == RenderForm(f)
         IN  {Form(s, f, "misread", [n \in DOMAIN form |-> IF form[n] = "b" THEN "0" ELSE form[n]]) :
                s \in services} :
         f \in forms}
Formless ==
  [service : {"upload", "up"}, kind : {"refused", "image", "other", "fatal"},
   parts : {<<>>}, arrives : {"whole"}, body : {<<"0">>}]

\* One image with any five bytes that look like an end of its part, two parts of
\* all kinds, three with headers of all shapes, the same cut short, damaged or with
\* a boundary of their own, and requests without a form.
Images == Parts({"image"}, {FALSE}, [1..5 -> {CR, LF, "-", "b"}])
Kinds == Parts(Values, BOOLEAN, {<<>>, <<"0">>, <<CR, LF, "-">>})
CutKinds == Parts({"image", "other", "empty"}, {FALSE}, {<<>>, <<"0">>})
Headers ==
  {<<>>, <<Names(<<>>)>>, <<Names(<<SP, "0", "image", "other">>)>>,
   <<[name |-> <<>>, value |-> <<"plain", ":", LF>>], Names(<<SP, SP, "other">>)>>}
Shapes == {[headers |-> h, data |-> <<"0">>] : h \in Headers}
MCRequests ==
  Whole({"up"}, {<<p>> : p \in Images})
    \union Whole({"upload", "up"}, Kinds \X Kinds)
    \union Whole({"up"}, Shapes \X Shapes \X Shapes)
    \union Cut({"upload", "up"}, CutKinds \X CutKinds)
    \union Cut({"upload"}, {<<p, p>> : p \in Shapes})
    \union Damaged({"upload", "up"}, CutKinds \X CutKinds)
    \union Misread({"upload", "up"}, CutKinds \X CutKinds)
    \union Formless
=============================================================================
