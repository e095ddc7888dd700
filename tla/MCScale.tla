------------------------------ MODULE MCScale ------------------------------
(* Constants for model-checking Scale. *)
EXTENDS Scale

Original(cols, rows, orientation, quality) ==
  [cols |-> cols, rows |-> rows, orientation |-> orientation,
   quality |-> quality, fmt |-> "png"]

\* Wide, high, lying on its side, square, and flat.
MCOriginals == {Original(7, 4, 1, 90), Original(3, 8, 1, 0), Original(6, 3, 6, 60),
                Original(4, 4, 1, 75), Original(9, 1, 1, 90)}

\* Queries of one proportion and two sizes, negative and very large ones too, of a
\* cut, and of the other parameters.
MCQueries ==
  {[NoArgs EXCEPT !.p = p, !.w = w, !.h = h] :
     p \in {0, 1, 2, 4}, w \in {0, 1, 3, 12}, h \in {0, 2, 5}}
  \union {[NoArgs EXCEPT !.p = 3, !.w = w, !.h = h] : w \in {0, 60, 150}, h \in {0, 5, 130}}
  \union {[NoArgs EXCEPT !.p = p, !.w = w, !.h = h] :
            p \in 0..4, w \in {-5, 190}, h \in {0, 3}}
  \union {[NoArgs EXCEPT !.p = p, !.h = h] : p \in {1, 3, 4}, h \in {-200, 200}}
  \union {[NoArgs EXCEPT !.x = x, !.y = y, !.w = w, !.h = 2] :
            x \in {-1, 0, 5}, y \in {-1, 1}, w \in {-2, 0, 3}}
  \union {[NoArgs EXCEPT !.w = 3, !.g = 1, !.r = r] : r \in {0, -30}}
  \union {[NoArgs EXCEPT !.w = 3, !.q = q, !.f = f] : q \in {-1, 50, 150}, f \in {"", "nonesuch"}}
  \union {[NoArgs EXCEPT !.t = t] : t \in DOMAIN TypeList \union {"unknown", "spelled"}}
  \union {[NoArgs EXCEPT !.p = p, !.w = 3] : p \in {-1, 5}}

Setting(args, types, zoom, script) ==
  [args |-> args, types |-> types, zoom |-> zoom, script |-> script,
   quality |-> 75, fmt |-> "jpeg"]
MCSettings == {Setting(TRUE, TRUE, TRUE, TRUE), Setting(TRUE, TRUE, FALSE, TRUE),
               Setting(TRUE, FALSE, TRUE, FALSE), Setting(FALSE, TRUE, TRUE, TRUE)}

\* Types like those of type_list, for small images.
Type(type, size, quality) ==
  [type |-> type, size |-> size, ratio |-> <<0, 1>>, cols |-> 0, rows |-> 0,
   rotate |-> 0, gray |-> 0, quality |-> quality, fmt |-> ""]
MCTypeList ==
  [t \in {"test", "original", "thumbnail", "small", "middle", "crop200", "ratio", "box"} |->
    CASE t = "test"      -> [Type("SQUARE", 2, 75) EXCEPT !.rotate = 90, !.gray = 1,
                                                         !.fmt = "JPEG"]
      [] t = "original"  -> Type("NONE", 0, 70)
      [] t = "thumbnail" -> Type("MAX_SIZE", 3, 85)
      [] t = "small"     -> [Type("MAX_SIZE", 5, 85) EXCEPT !.ratio = <<2, 5>>]
      [] t = "middle"    -> Type("MAX_WIDTH", 3, 90)
      [] t = "crop200"   -> Type("CROP", 3, 90)
      [] t = "ratio"     -> [Type("MAX_WIDTH", 3, 90) EXCEPT !.ratio = <<1, 2>>]
      [] OTHER           -> [Type("PROPORTION", 0, 90) EXCEPT !.ratio = <<1, 1>>,
                                                           !.cols = 5, !.rows = 3]]

\* t=3:0:1:0:-1:-1:0:75:jpeg
MCSpells == [t \in {"spelled"} |-> [NoArgs EXCEPT !.w = 3, !.q = 75, !.f = "jpeg"]]
=============================================================================
