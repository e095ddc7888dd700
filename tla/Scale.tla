------------------------------- MODULE Scale -------------------------------
(***************************************************************************)
(* How an image is scaled: the parameters of a get (zhttpd.c), the key     *)
(* under which the result is kept (zimg.c, zutil.c), convert (zscale.c),   *)
(* lua_convert (zlscale.c) with the script bin/script/process.lua.         *)
(*                                                                         *)
(* An image is its size before it is turned and what was done to it.       *)
(* DiskStore and DbStore have the calls of a get one by one; here a get is *)
(* one step, and of what files, database and cache keep for it one map is  *)
(* left, from keys to images, which may forget.                            *)
(***************************************************************************)
EXTENDS Integers, Sequences, FiniteSets, Functions

CONSTANTS
  Originals,  \* images that were uploaded
  Queries,    \* queries of gets; a parameter that is absent has its default
  Settings,   \* what the configuration may say
  TypeList,   \* type_list of the script: a record for each type
  NoType,     \* no parameter t
  Spells,     \* the types that spell parameters as gen_key does: what they spell
  NoneFormats,  \* the formats that begin with "none"
  MaxInt,     \* the largest int
  MaxKept     \* bound: how many results are kept at a time

ASSUME MaxIntAssumption == MaxInt \in Nat /\ MaxInt >= 100

Ints == (-MaxInt - 1)..MaxInt

IsOriginal(o) ==
  /\ DOMAIN o = {"cols", "rows", "orientation", "quality", "fmt"}
  /\ {o.cols, o.rows} \subseteq 1..MaxInt
  /\ o.orientation \in 1..8 /\ o.quality \in Nat

IsQuery(q) ==
  /\ DOMAIN q = {"w", "h", "p", "g", "x", "y", "r", "q", "f", "t"}
  /\ {q.w, q.h, q.p, q.g, q.x, q.y, q.r, q.q} \subseteq Ints

ASSUME OriginalsAssumption == \A o \in Originals : IsOriginal(o)
ASSUME QueriesAssumption == \A q \in Queries : IsQuery(q)
ASSUME SettingsAssumption ==
  \A s \in Settings :
    /\ DOMAIN s = {"args", "types", "zoom", "script", "quality", "fmt"}
    /\ {s.args, s.types, s.zoom, s.script} \subseteq BOOLEAN
    /\ s.quality \in 1..100

\* size: 0 for none; ratio: numerator and denominator, <<0, 1>> for none.  As
\* in the script's list, a type that scales or cuts has a size, a ratio is at
\* most 1, only PROPORTION has columns and rows, and each type has a quality.
ASSUME TypeListAssumption ==
  \A t \in DOMAIN TypeList : LET a == TypeList[t] IN
    /\ DOMAIN a = {"type", "size", "ratio", "cols", "rows", "rotate",
                   "gray", "quality", "fmt"}
    /\ a.size \in Nat /\ (a.type \notin {"NONE", "PROPORTION"} => a.size > 0)
    /\ IF a.type = "PROPORTION" THEN {a.cols, a.rows} \subseteq Nat \ {0}
                                ELSE a.cols = 0 /\ a.rows = 0
    /\ a.ratio[1] \in Nat /\ a.ratio[2] \in Nat \ {0} /\ a.ratio[1] <= a.ratio[2]
    /\ a.quality \in 1..100

\* No type of the list does; and no request has the quality 0.
ASSUME SpellsAssumption ==
  /\ DOMAIN Spells \intersect DOMAIN TypeList = {}
  /\ \A t \in DOMAIN Spells : LET a == Spells[t] IN
       {a.w, a.h, a.p, a.g, a.x, a.y, a.r, a.q} \subseteq Ints /\ a.q # 0

ASSUME MaxKeptAssumption == MaxKept \in Nat

VARIABLES
  settings,
  orig,     \* the image that the gets ask for
  kept,     \* the results that are kept: a function from keys
  query,    \* the query under way
  status,   \* where its answer comes from, or that there can be none
  answer    \* the image answered, as a set: without one it is empty

vars == <<settings, orig, kept, query, status, answer>>

-----------------------------------------------------------------------------
(* Parameters and keys *)

NoArgs == [w |-> 0, h |-> 0, p |-> 1, g |-> 0, x |-> -1, y |-> -1, r |-> 0,
           q |-> 0, f |-> "", t |-> NoType]

\* Mutant: the default quality is forgotten.
ReadWithoutQuality(query_, s) ==
  LET a == IF s.args THEN query_ ELSE NoArgs IN
  [w |-> a.w, h |-> a.h, p |-> IF a.x # -1 \/ a.y # -1 THEN 1 ELSE a.p,
   g |-> a.g, x |-> a.x, y |-> a.y, r |-> a.r, q |-> a.q,
   f |-> IF a.f # "" THEN a.f ELSE s.fmt,
   t |-> IF s.types THEN query_.t ELSE NoType]

\* get_request_cb: what it takes of the query.  Parameters and types may be
\* disabled; a position means a cut, whatever p is.
Read(query_, s) ==
  LET a == IF s.args THEN query_ ELSE NoArgs IN
  [w |-> a.w, h |-> a.h, p |-> IF a.x # -1 \/ a.y # -1 THEN 1 ELSE a.p,
   g |-> a.g, x |-> a.x, y |-> a.y, r |-> a.r,
   q |-> IF a.q # 0 THEN a.q ELSE s.quality,
   f |-> IF a.f # "" THEN a.f ELSE s.fmt,
   t |-> IF s.types THEN query_.t ELSE NoType]

ByScript(req, s) == s.script /\ req.t # NoType

\* gen_key: what is written behind the md5.  It is cut after 127 characters, of
\* which a request that can be converted (its p is a digit, or its sizes are 0)
\* leaves eight at least for the format.
gen_key(a) == <<a.w, a.h, a.p, a.g, a.x, a.y, a.r, a.q, a.f>>

\* "md5:type" is the same string as that of the parameters that the type spells.
TypeKey(t) == IF t \in DOMAIN Spells THEN gen_key(Spells[t]) ELSE <<t>>

\* Mutant: the key does not have the position.
KeyWithoutPosition(req, s) ==
  IF ByScript(req, s) THEN TypeKey(req.t)
  ELSE IF req.p = 0 /\ req.w = 0 /\ req.h = 0 THEN <<>>
  ELSE <<req.w, req.h, req.p, req.g, req.r, req.q, req.f>>

\* get_img: under which key the result is kept.  The empty tuple is the key and
\* the name of the original.
Key(req, s) ==
  IF ByScript(req, s) THEN TypeKey(req.t)
  ELSE IF req.p = 0 /\ req.w = 0 /\ req.h = 0 THEN <<>>
  ELSE gen_key(req)

\* A file of a type has a name of its own, "t_type".
OwnFile(req, s) == ByScript(req, s) /\ req.t \in DOMAIN Spells

-----------------------------------------------------------------------------
(* Numbers: doubles come out a little above or below what they should be *)

Least(a, b) == IF a <= b THEN a ELSE b

\* round(n / d): both neighbours of a half.
Round(n, d) ==
  {k \in {n \div d, (n \div d) + 1} :
     /\ 2 * (n - (k * d)) <= d
     /\ 2 * ((k * d) - n) <= d}

\* math.ceil(n / d): a whole number may come out as the next one.
Ceil(n, d) ==
  IF n % d = 0 THEN {n \div d, (n \div d) + 1} ELSE {(n \div d) + 1}

\* math.ceil(n / 2), which is exact.
CeilHalf(n) == (n + 1) \div 2

\* n / d as a size: a whole number may come out as the one before.
Floor(n, d) ==
  IF n % d = 0 /\ n > 0 THEN {n \div d, (n \div d) - 1} ELSE {n \div d}

-----------------------------------------------------------------------------
(* ImageMagick.  Operators give the images a call may leave with MagickTrue: *)
(* none when it cannot succeed.  That it fails is always possible besides.   *)

\* cut: the pixels that were cut off on the left, right, top and bottom.
\* missed: a call failed and that was not noticed, its result is empty, or it was
\* given a number out of range, so that the size says nothing.
\* turn: the angle by which it is turned.
Decoded(o) ==
  [cols |-> o.cols, rows |-> o.rows, cut |-> <<0, 0, 0, 0>>, turn |-> 0, gray |-> FALSE,
   quality |-> o.quality, fmt |-> o.fmt, missed |-> FALSE]

Turned(im) == [im EXCEPT !.cols = im.rows, !.rows = im.cols]

\* MagickAutoOrientImage; the orientations from 5 on lie on their side.
Oriented(o) == IF o.orientation >= 5 THEN Turned(Decoded(o)) ELSE Decoded(o)

\* MagickResizeImage.
Resized(im, cols, rows) ==
  IF cols > 0 /\ rows > 0 THEN {[im EXCEPT !.cols = cols, !.rows = rows]} ELSE {}

\* The same with sizes that went through an int: a negative one is a huge size
\* for MagickResizeImage, a number outside of int becomes any.
ResizedToInts(im, cols, rows) ==
  IF \E side \in {cols, rows} : side \in Ints /\ side <= 0 THEN {}
  ELSE IF {cols, rows} \subseteq Ints THEN Resized(im, cols, rows)
  ELSE {[im EXCEPT !.missed = TRUE]}

\* MagickCropImage: a size of 0 is all there is; what is cut ends with the
\* image; one pixel is left of a cut outside, or of a negative size.
Cropped(im, cols, rows, x, y) ==
  IF x >= im.cols \/ y >= im.rows \/ cols < 0 \/ rows < 0
  THEN {[im EXCEPT !.cols = 1, !.rows = 1, !.missed = TRUE]}
  ELSE LET c == IF cols = 0 THEN im.cols - x ELSE Least(cols, im.cols - x)
           r == IF rows = 0 THEN im.rows - y ELSE Least(rows, im.rows - y)
       IN {[im EXCEPT !.cols = c, !.rows = r,
                      !.cut = <<x, (im.cols - x) - c, y, (im.rows - y) - r>>]}

-----------------------------------------------------------------------------
(* convert *)

\* Mutant: disable_zoom_up is not looked at.
UnclampedSize(size, p, own, zoom) == size

\* proportion: what disable_zoom_up leaves of a size asked for.  The image's own
\* size is unsigned: a negative size is above it.
Clamped(size, p, own, zoom) ==
  IF zoom THEN size
  ELSE IF p = 3 THEN Least(size, 100)
  ELSE IF size < 0 THEN own ELSE Least(size, own)

\* Mutant: the fraction of the other size is cut off.
ProportionalFloor(im, cols, rows) ==
  IF cols > 0 THEN ResizedToInts(im, cols, (cols * im.rows) \div im.cols)
  ELSE ResizedToInts(im, (rows * im.cols) \div im.rows, rows)

\* p = 1 with one size: the other in proportion.
Proportional(im, cols, rows) ==
  IF cols > 0
  THEN UNION {ResizedToInts(im, cols, r) : r \in Round(cols * im.rows, im.cols)}
  ELSE UNION {ResizedToInts(im, c, rows) : c \in Round(rows * im.cols, im.rows)}

\* Mutant: the part that is left is not taken from the middle.
FillLeft(im, cols, rows) ==
  LET wide == cols * im.rows > rows * im.cols
      sizes == IF wide THEN {cols} \X Round(cols * im.rows, im.cols)
               ELSE Round(rows * im.cols, im.rows) \X {rows}
  IN UNION {UNION {Cropped(s, cols, rows, 0, 0) : s \in ResizedToInts(im, z[1], z[2])} :
              z \in sizes}

\* p = 1 with both sizes: the image is made to cover them and its middle is
\* cut out.  What the resizing returned is lost, so that the cut may be of the
\* image as it was.
Fill(im, cols, rows) ==
  LET wide == cols * im.rows > rows * im.cols
      sizes == IF wide THEN {cols} \X Round(cols * im.rows, im.cols)
               ELSE Round(rows * im.cols, im.rows) \X {rows}
  IN UNION {UNION {Cropped(s, cols, rows, IF wide THEN 0 ELSE (z[1] - cols) \div 2,
                           IF wide THEN (z[2] - rows) \div 2 ELSE 0) :
                     s \in ResizedToInts(im, z[1], z[2])
                             \union {[im EXCEPT !.missed = TRUE]}} :
              z \in sizes}

\* p = 2: where the middle begins.  With a size above the image's the unsigned
\* difference wraps; its half is outside of uint32_t, which makes it 0 on x86
\* and the largest number on ARM.
Middle(own, size) == IF size <= own THEN {(own - size) \div 2} ELSE {0, own}

MiddleCut(im, cols, rows) ==
  UNION {Cropped(im, cols, rows, x, y) :
           x \in Middle(im.cols, cols), y \in Middle(im.rows, rows)}

\* Mutant: a percentage that is not given is 0.
PercentOfEach(im, cols, rows) ==
  UNION {ResizedToInts(im, c, r) : c \in Round(im.cols * cols, 100),
                                   r \in Round(im.rows * rows, 100)}

\* p = 3: a percentage for each side, or one for both.
Percentages(cols, rows) ==
  IF 0 \notin {cols, rows} THEN <<cols, rows>>
  ELSE IF cols > 0 THEN <<cols, cols>> ELSE <<rows, rows>>

Percent(im, cols, rows) ==
  LET rate == Percentages(cols, rows)
  IN UNION {ResizedToInts(im, c, r) : c \in Round(im.cols * rate[1], 100),
                                      r \in Round(im.rows * rate[2], 100)}

\* Mutant: the larger of two rates is taken.
FitLarger(im, cols, rows) ==
  LET byCols == rows = 0 \/ (cols # 0 /\ cols * im.rows > rows * im.cols) IN
  Proportional(im, IF byCols THEN cols ELSE 0, IF byCols THEN 0 ELSE rows)

\* p = 4: the smaller of the rates of the sizes that are given.
Fit(im, cols, rows) ==
  LET byCols == rows = 0 \/ (cols # 0 /\ cols * im.rows < rows * im.cols) IN
  Proportional(im, IF byCols THEN cols ELSE 0, IF byCols THEN 0 ELSE rows)

proportion(im, p, w, h, zoom) ==
  LET cols == Clamped(w, p, im.cols, zoom)
      rows == Clamped(h, p, im.rows, zoom)
  IN IF p = 0 THEN Resized(im, cols, rows)
     ELSE IF p = 1 /\ 0 \in {cols, rows} THEN Proportional(im, cols, rows)
     ELSE IF p = 1 THEN Fill(im, cols, rows)
     ELSE IF p = 2 THEN MiddleCut(im, cols, rows)
     ELSE IF p = 3 THEN Percent(im, cols, rows)
     ELSE IF p = 4 THEN Fit(im, cols, rows) ELSE {}

\* What crop takes from begin on: the sum is compared unsigned, so that a negative
\* one is above the image's own size.
CropSize(size, own, begin) ==
  IF size = 0 \/ begin + size < 0 THEN own - begin ELSE Least(size, own - begin)

crop(im, x, y, cols, rows) ==
  LET left == IF x < 0 THEN 0 ELSE x
      top == IF y < 0 THEN 0 ELSE y
  IN IF left >= im.cols \/ top >= im.rows THEN {}
     ELSE Cropped(im, CropSize(cols, im.cols, left), CropSize(rows, im.rows, top), left, top)

Scaled(im, req, zoom) ==
  IF req.w = 0 /\ req.h = 0 THEN {im}
  ELSE IF req.x = -1 /\ req.y = -1 THEN proportion(im, req.p, req.w, req.h, zoom)
  ELSE crop(im, req.x, req.y, req.w, req.h)

\* The quality goes down only; what begins with "none" keeps the format.
Finished(im, req) ==
  [im EXCEPT
     !.turn = req.r,
     !.gray = @ \/ req.g = 1,
     !.quality = IF @ = 0 \/ @ > req.q THEN req.q ELSE @,
     !.fmt = IF req.f \in NoneFormats THEN @ ELSE req.f]

convert(o, req, zoom) == {Finished(im, req) : im \in Scaled(Oriented(o), req, zoom)}

-----------------------------------------------------------------------------
(* lua_convert, with the functions of the script: a is the record of the type *)

square(im, a) ==
  LET side == Least(im.cols, im.rows) IN
  UNION {Resized(s, a.size, a.size) :
           s \in Cropped(im, side, side, CeilHalf(im.cols - side),
                         CeilHalf(im.rows - side))}

HasRatio(a) == a.ratio[1] > 0

\* cols / rows < ratio, and cols / rows > 1 / ratio.
Narrow(im, a) == im.cols * a.ratio[2] < a.ratio[1] * im.rows
Wide(im, a) == im.cols * a.ratio[1] > a.ratio[2] * im.rows

\* With a ratio above the image's it cuts, but returns nothing: f() fails.
max_width(im, a) ==
  IF im.cols <= a.size THEN {im}
  ELSE IF ~HasRatio(a)
       THEN UNION {Resized(im, a.size, r) : r \in Ceil(a.size * im.rows, im.cols)}
       ELSE IF Narrow(im, a) THEN {} ELSE Cropped(im, a.size, im.rows, 0, 0)

\* max_size: the long side of an image beyond the ratio is cut to it.
CutToRatio(im, a) ==
  IF HasRatio(a) /\ im.cols > im.rows /\ Wide(im, a)
  THEN UNION {Cropped(im, Least(c, im.cols), im.rows, 0, 0) :
                c \in Floor(im.rows * a.ratio[2], a.ratio[1])}
  ELSE IF HasRatio(a) /\ Narrow(im, a)
       THEN UNION {Cropped(im, im.cols, Least(r, im.rows), 0, 0) :
                     r \in Floor(im.cols * a.ratio[2], a.ratio[1])}
       ELSE {im}

\* Mutant: the long side is not looked for.
MaxSizeByCols(im, a) ==
  IF im.cols <= a.size /\ im.rows <= a.size THEN {im}
  ELSE UNION {Resized(im, a.size, r) : r \in Ceil(a.size * im.rows, im.cols)}

\* The size it scales to is that of the image before the cut.
max_size(im, a) ==
  LET fits(side) == HasRatio(a) /\ side * a.ratio[2] < a.size * a.ratio[1] IN
  IF im.cols <= a.size /\ im.rows <= a.size THEN {im}
  ELSE IF fits(im.cols) /\ Narrow(im, a)
  THEN Cropped(im, im.cols, Least(im.rows, a.size), 0, 0)
  ELSE IF fits(im.rows) /\ Wide(im, a)
  THEN Cropped(im, Least(im.cols, a.size), im.rows, 0, 0)
  ELSE LET sizes == IF im.cols > im.rows
                    THEN {a.size} \X Ceil(a.size * im.rows, im.cols)
                    ELSE Ceil(a.size * im.cols, im.rows) \X {a.size}
       IN UNION {UNION {Resized(s, z[1], z[2]) : s \in CutToRatio(im, a)} : z \in sizes}

\* The script's proportion; no type of type_list uses it.
LuaProportion(im, a) ==
  IF HasRatio(a) /\ im.cols * a.ratio[2] > a.ratio[1] * im.rows
  THEN IF im.cols < a.cols THEN {im}
       ELSE UNION {Resized(im, a.cols, r) : r \in Ceil(a.cols * im.rows, im.cols)}
  ELSE IF im.rows < a.rows THEN {im}
       ELSE UNION {Resized(im, c, a.rows) : c \in Ceil(a.rows * im.cols, im.rows)}

LuaCrop(im, a) ==
  LET cols == Least(IF a.cols > 0 THEN a.cols ELSE a.size, im.cols)
      rows == Least(IF a.rows > 0 THEN a.rows ELSE a.size, im.rows)
  IN Cropped(im, cols, rows, CeilHalf(im.cols - cols), CeilHalf(im.rows - rows))

\* The switch of f().
LuaScaled(im, a) ==
  CASE a.type = "SQUARE"     -> square(im, a)
    [] a.type = "MAX_WIDTH"  -> max_width(im, a)
    [] a.type = "MAX_SIZE"   -> max_size(im, a)
    [] a.type = "PROPORTION" -> LuaProportion(im, a)
    [] a.type = "CROP"       -> LuaCrop(im, a)
    [] OTHER                 -> {im}

\* What f() does then: only the return code of the last call is kept.
LuaSteps(a) ==
  (IF a.rotate > 0 THEN <<"rotate">> ELSE <<>>) \o
  (IF a.gray = 1 THEN <<"gray">> ELSE <<>>) \o
  (IF a.quality > 0 THEN <<"quality">> ELSE <<>>) \o
  (IF a.fmt # "" THEN <<"fmt">> ELSE <<>>)

LuaFinished(im, a, done) ==
  [im EXCEPT
     !.turn = IF "rotate" \in done THEN a.rotate ELSE @,
     !.gray = "gray" \in done,
     !.quality = IF "quality" \in done THEN a.quality ELSE @,
     !.fmt = IF "fmt" \in done THEN a.fmt ELSE @,
     !.missed = @ \/ Len(LuaSteps(a)) # Cardinality(done)]

\* lua_convert and f().  The orientation is dropped.  A last call that fails
\* leaves the return code 0, which get_img does not take for a failure: it does
\* not save the image, but answers and caches it.
lua_convert(o, t) ==
  IF t \notin DOMAIN TypeList THEN {}
  ELSE LET a == TypeList[t] IN
       {LuaFinished(im, a, done) : im \in LuaScaled(Decoded(o), a),
                                   done \in SUBSET Range(LuaSteps(a))}

-----------------------------------------------------------------------------
(* Gets *)

Results(o, req, s) ==
  IF ByScript(req, s) THEN lua_convert(o, req.t) ELSE convert(o, req, s.zoom)

Init ==
  /\ settings \in Settings
  /\ orig \in Originals
  /\ kept = <<>>
  /\ query = NoArgs
  /\ status = "none"
  /\ answer = {}

\* Files, and the database, stay when the process is started with another
\* configuration.
Restart ==
  /\ status = "none"
  /\ settings' \in Settings
  /\ UNCHANGED <<orig, kept, query, status, answer>>

\* The cache drops what it likes, an administrator deletes files.
Forget ==
  /\ status = "none"
  /\ \E k \in DOMAIN kept : kept' = [x \in DOMAIN kept \ {k} |-> kept[x]]
  /\ UNCHANGED <<settings, orig, query, status, answer>>

\* The client takes the answer.
Taken ==
  /\ status # "none"
  /\ query' = NoArgs /\ status' = "none" /\ answer' = {}
  /\ UNCHANGED <<settings, orig, kept>>

Answer(q, how, ims) ==
  /\ query' = q
  /\ status' = how
  /\ answer' = ims
  /\ UNCHANGED <<settings, orig>>

\* Without sizes p = 0 asks for the original as it is.
GetOriginal(q) ==
  /\ Key(Read(q, settings), settings) = <<>>
  /\ Answer(q, "original", {Decoded(orig)})
  /\ UNCHANGED kept

GetKept(q) ==
  LET k == Key(Read(q, settings), settings) IN
  /\ k # <<>> /\ k \in DOMAIN kept
  /\ Answer(q, "kept", {kept[k]})
  /\ UNCHANGED kept

Keep(k, im) ==
  kept' = IF Cardinality(DOMAIN kept) >= MaxKept THEN kept
          ELSE [x \in DOMAIN kept \union {k} |-> IF x = k THEN im ELSE kept[x]]

\* Without a cache a file of the same key but of another name is not looked at.
GetConverted(q) ==
  LET req == Read(q, settings)
      k == Key(req, settings)
  IN /\ k # <<>> /\ (k \in DOMAIN kept => OwnFile(req, settings))
     /\ \/ \E im \in Results(orig, req, settings) :
             Answer(q, "made", {im}) /\ Keep(k, im)
        \/ /\ Results(orig, req, settings) = {}
           /\ Answer(q, "impossible", {}) /\ UNCHANGED kept

Get(q) == GetOriginal(q) \/ GetKept(q) \/ GetConverted(q)

Next == Restart \/ Forget \/ Taken \/ (status = "none" /\ \E q \in Queries : Get(q))

Spec == Init /\ [][Next]_vars

-----------------------------------------------------------------------------
(* Properties *)

\* Images have pixels both ways, and those of a conversion that went well a quality;
\* an answer has an image exactly when the request could be satisfied.
TypeOK ==
  /\ settings \in Settings /\ orig \in Originals
  /\ query \in Queries \union {NoArgs}
  /\ Cardinality(DOMAIN kept) <= MaxKept
  /\ status \in {"none", "original", "kept", "made", "impossible"}
  /\ answer = {} <=> status \in {"none", "impossible"}
  /\ \A im \in answer :
       /\ im.cols > 0 /\ im.rows > 0
       /\ status # "original" /\ ~im.missed => im.quality # 0

\* The request that was answered, and the image it is about, the right way up.
Req == Read(query, settings)
Own == Oriented(orig)
Scripted == ByScript(Req, settings)
ByArgs == status = "made" /\ ~Scripted
Positioned == Req.x # -1 \/ Req.y # -1

\* A size asked for: without enlargement no more than the image's own, which also
\* stands for a negative size.
Asked(size, own) ==
  IF settings.zoom THEN size ELSE IF size < 0 THEN own ELSE Least(size, own)

\* A result that was kept is one that the request could be given if it were
\* converted now; only disable_zoom_up may have been different.  An unknown type
\* that spells parameters may be answered as they are, and no type otherwise.
KeptAsMade ==
  status = "kept" =>
    \A im \in answer : \E z \in BOOLEAN :
      \/ im \in Results(orig, Req, [settings EXCEPT !.zoom = z])
      \/ /\ Scripted /\ Req.t \in DOMAIN Spells
         /\ im \in convert(orig, Spells[Req.t], z)

\* The size an answer has, if no call failed.  A cut, and p = 0, p = 1 or p = 2
\* with two sizes: what was asked for, as far as the image goes.  p = 4, or
\* p = 1 with one size: no more than asked for, and one side as asked for.
SidesAsAsked ==
  ByArgs /\ (Req.w # 0 \/ Req.h # 0) =>
    \A im \in answer : ~im.missed =>
      LET w == Asked(Req.w, Own.cols)
          h == Asked(Req.h, Own.rows)
          left == IF Req.x < 0 THEN 0 ELSE Req.x
          top == IF Req.y < 0 THEN 0 ELSE Req.y
      IN /\ Positioned =>
              /\ im.cols = IF Req.w <= 0 THEN Own.cols - left
                           ELSE Least(Req.w, Own.cols - left)
              /\ im.rows = IF Req.h <= 0 THEN Own.rows - top
                           ELSE Least(Req.h, Own.rows - top)
         /\ ~Positioned /\ Req.p \in {0, 1} /\ w > 0 /\ h > 0 =>
              im.cols = w /\ im.rows = h
         /\ ~Positioned /\ Req.p = 2 /\ w > 0 /\ h > 0 =>
              im.cols = Least(w, Own.cols) /\ im.rows = Least(h, Own.rows)
         /\ ~Positioned /\ (Req.p = 4 \/ (Req.p = 1 /\ (w = 0 \/ h = 0))) =>
              /\ w > 0 => im.cols <= w
              /\ h > 0 => im.rows <= h
              /\ im.cols = w \/ im.rows = h

\* Where the size follows from one side, or from a percentage of both, the other
\* side is in proportion, as near as whole pixels allow.
InProportion ==
  ByArgs /\ ~Positioned /\ (Req.w # 0 \/ Req.h # 0)
  /\ (Req.p = 4 \/ (Req.p \in {1, 3} /\ (Req.w = 0 \/ Req.h = 0))) =>
    \A im \in answer : ~im.missed =>
      LET off == (im.cols * Own.rows) - (im.rows * Own.cols)
      IN 2 * off <= Own.cols + Own.rows /\ -2 * off <= Own.cols + Own.rows

\* A cut that the request has not positioned is in the middle: p = 1 and p = 2
\* with two sizes, the squares and cuts of the script.
Centred ==
  (\/ ByArgs /\ ~Positioned /\ Req.p \in {1, 2} /\ Req.w > 0 /\ Req.h > 0
   \/ /\ status = "made" /\ Scripted
      /\ TypeList[Req.t].type \in {"SQUARE", "CROP"}) =>
    \A im \in answer : ~im.missed =>
      \A i \in {1, 3} : im.cut[i] - im.cut[i + 1] \in {-1, 0, 1}

\* Conversions are what was asked for: their sides, their proportion, and the
\* part of the image they show.
SizeAsAsked == SidesAsAsked /\ InProportion /\ Centred

\* With disable_zoom_up no conversion by parameters is larger than the image.
NotEnlarged ==
  ByArgs /\ ~settings.zoom =>
    \A im \in answer :
      im.cols <= Own.cols /\ im.rows <= Own.rows

\* What the script makes of an image keeps to the size of its type: squares
\* exactly, cuts as far as the image goes, others up to one pixel.
ThumbsFit ==
  status = "made" /\ Scripted =>
    \A im \in answer :
      LET a == TypeList[Req.t]
          whole == Decoded(orig)
          sides == {im.cols, im.rows}
      IN CASE a.type = "SQUARE"    -> sides = {a.size}
           [] a.type = "MAX_SIZE"  -> \A n \in sides : n <= a.size + 1
           [] a.type = "MAX_WIDTH" -> im.cols <= a.size
           [] a.type = "CROP"      -> sides = {Least(a.size, whole.cols),
                                               Least(a.size, whole.rows)}
           [] OTHER                -> TRUE

\* A side that is n / d in proportion may round to nothing.
Vanishes(n, d) == 2 * n <= d

\* A request that no run of ImageMagick could satisfy is one of these: a p that
\* is not known, a size missing for p = 0, a negative size that disable_zoom_up
\* has not replaced, a position outside of the image, a side that rounds to
\* nothing; a type that is not known, and an image that is narrow for a type of
\* fixed width with a ratio.
RefusedForCause ==
  status = "impossible" =>
    IF Scripted
    THEN Req.t \in DOMAIN TypeList =>
           TypeList[Req.t].type = "MAX_WIDTH" /\ Narrow(Decoded(orig), TypeList[Req.t])
    ELSE IF Positioned THEN Req.x >= Own.cols \/ Req.y >= Own.rows
    ELSE \/ Req.p \notin 0..4
         \/ Req.p = 0 /\ 0 \in {Req.w, Req.h}
         \/ (settings.zoom \/ Req.p = 3) /\ (Req.w < 0 \/ Req.h < 0)
         \/ /\ Req.p = 3
            /\ LET pc == IF Req.w = 0 THEN Req.h ELSE Req.w
                   pr == IF Req.h = 0 THEN Req.w ELSE Req.h
               IN Vanishes(Own.cols * pc, 100) \/ Vanishes(Own.rows * pr, 100)
         \/ /\ Req.p \in {1, 4}
            /\ \/ Req.w > 0 /\ Vanishes(Req.w * Own.rows, Own.cols)
               \/ Req.h > 0 /\ Vanishes(Req.h * Own.cols, Own.rows)
=============================================================================
