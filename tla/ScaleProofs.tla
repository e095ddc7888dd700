---------------------------- MODULE ScaleProofs ----------------------------
(***************************************************************************)
(* Proofs about Scale, for any images, queries, types and configurations.  *)
(*                                                                         *)
(* Keys: what is kept under the key of a request is a result of that       *)
(* request, or of the parameters that its type spells.  The argument is    *)
(* that the key has everything that convert and lua_convert look at, but   *)
(* for disable_zoom_up, and that nothing is made of a type that spells     *)
(* parameters.                                                             *)
(* Sizes: what is made has the size that was asked for, and a request is   *)
(* refused only for a cause.  The sides of a result are products of sizes  *)
(* divided and rounded, down, up or to the nearest, so that the lemmas     *)
(* about quotients carry the proofs.                                       *)
(* Types: what is made is an image of at least one pixel each way.         *)
(***************************************************************************)
EXTENDS Scale, FiniteSetTheorems, TLAPS

-----------------------------------------------------------------------------
(* Keys *)

LEMMA KeyShapes ==
  /\ \A t : <<t>> # <<>>
  /\ \A t, u : <<t>> = <<u>> => t = u
  /\ \A t, req : <<t>> # gen_key(req)
  /\ \A req : gen_key(req) # <<>>
  BY DEF gen_key

\* A key that is not the original's tells who converts, and all arguments, unless
\* the type of one of the requests spells them.
LEMMA KeyTells ==
  ASSUME NEW r1, NEW s1, NEW r2, NEW s2,
         Key(r1, s1) = Key(r2, s2), Key(r1, s1) # <<>>,
         ~OwnFile(r1, s1)
  PROVE  \/ ByScript(r1, s1) /\ ByScript(r2, s2) /\ r1.t = r2.t
         \/ ~ByScript(r1, s1) /\ ~ByScript(r2, s2) /\ gen_key(r1) = gen_key(r2)
         \/ ~ByScript(r1, s1) /\ OwnFile(r2, s2) /\ gen_key(r1) = gen_key(Spells[r2.t])
  <1>1. \A r, s : \/ ByScript(r, s) /\ ~OwnFile(r, s) /\ Key(r, s) = <<r.t>>
                  \/ ByScript(r, s) /\ OwnFile(r, s) /\ Key(r, s) = gen_key(Spells[r.t])
                  \/ ~ByScript(r, s) /\ Key(r, s) = <<>>
                  \/ ~ByScript(r, s) /\ Key(r, s) = gen_key(r)
    BY DEF Key, TypeKey, OwnFile
  <1>2. QED
    BY <1>1, KeyShapes

\* convert looks at nothing else.
LEMMA ConvertLooksAtFields ==
  ASSUME NEW o, NEW r1, NEW r2, NEW zoom, gen_key(r1) = gen_key(r2)
  PROVE  convert(o, r1, zoom) = convert(o, r2, zoom)
  <1>1. /\ r1.w = r2.w /\ r1.h = r2.h /\ r1.p = r2.p /\ r1.g = r2.g /\ r1.x = r2.x
        /\ r1.y = r2.y /\ r1.r = r2.r /\ r1.q = r2.q /\ r1.f = r2.f
    BY DEF gen_key
  <1>2. \A im : Scaled(im, r1, zoom) = Scaled(im, r2, zoom)
    BY <1>1 DEF Scaled
  <1>3. \A im : Finished(im, r1) = Finished(im, r2)
    BY <1>1 DEF Finished
  <1>4. QED
    BY <1>2, <1>3 DEF convert

LEMMA SameKeySameResults ==
  ASSUME NEW o, NEW r1, NEW s1 \in Settings, NEW r2, NEW s2 \in Settings,
         Key(r1, s1) = Key(r2, s2), Key(r1, s1) # <<>>,
         NEW im \in Results(o, r1, s1)
  PROVE  \/ im \in Results(o, r2, [s2 EXCEPT !.zoom = s1.zoom])
         \/ OwnFile(r2, s2) /\ im \in convert(o, Spells[r2.t], s1.zoom)
  <1> DEFINE s == [s2 EXCEPT !.zoom = s1.zoom]
  <1>1. s.zoom = s1.zoom /\ s.script = s2.script
    BY SettingsAssumption
  <1>2. ByScript(r2, s) <=> ByScript(r2, s2)
    BY <1>1 DEF ByScript
  <1>3. CASE ByScript(r1, s1) /\ ByScript(r2, s2) /\ r1.t = r2.t
    BY <1>2, <1>3 DEF Results
  <1>4. CASE ~ByScript(r1, s1) /\ ~ByScript(r2, s2) /\ gen_key(r1) = gen_key(r2)
    <2>1. convert(o, r1, s1.zoom) = convert(o, r2, s1.zoom)
      BY <1>4, ConvertLooksAtFields
    <2>2. QED
      BY <1>1, <1>2, <1>4, <2>1 DEF Results
  <1>5. CASE ~ByScript(r1, s1) /\ OwnFile(r2, s2) /\ gen_key(r1) = gen_key(Spells[r2.t])
    <2>1. convert(o, r1, s1.zoom) = convert(o, Spells[r2.t], s1.zoom)
      BY <1>5, ConvertLooksAtFields
    <2>2. im \in convert(o, r1, s1.zoom)
      BY <1>5 DEF Results
    <2>3. QED
      BY <1>5, <2>1, <2>2
  <1>6. ~OwnFile(r1, s1)
    <2>1. CASE OwnFile(r1, s1)
      <3>1. r1.t \notin DOMAIN TypeList
        BY <2>1, SpellsAssumption DEF OwnFile
      <3>2. Results(o, r1, s1) = {}
        BY <2>1, <3>1 DEF OwnFile, Results, lua_convert
      <3>3. QED
        BY <3>2
    <2>2. QED
      BY <2>1
  <1>7. QED
    BY <1>3, <1>4, <1>5, <1>6, KeyTells

-----------------------------------------------------------------------------
(* The inductive invariant *)

\* What is kept under a key is a result of a request that had the key.
KeptOf(k, im) ==
  \E r : \E s \in Settings : /\ k # <<>> /\ k = Key(r, s)
                             /\ im \in Results(orig, r, s)

KeptInv ==
  /\ settings \in Settings
  /\ \A k \in DOMAIN kept : KeptOf(k, kept[k])
  /\ KeptAsMade

LEMMA InitKept == Init => KeptInv
  BY DEF Init, KeptInv, KeptAsMade

LEMMA NextKept == KeptInv /\ [Next]_vars => KeptInv'
  <1> SUFFICES ASSUME KeptInv, [Next]_vars PROVE KeptInv'
    OBVIOUS
  <1>1. CASE Restart
    <2>1. settings' \in Settings /\ kept' = kept /\ orig' = orig /\ status' = "none"
      BY <1>1 DEF Restart
    <2>2. QED
      BY <2>1 DEF KeptInv, KeptOf, KeptAsMade
  <1>2. CASE Forget
    <2>1. /\ settings' = settings /\ orig' = orig /\ status' = "none"
          /\ \A k \in DOMAIN kept' : k \in DOMAIN kept /\ kept'[k] = kept[k]
      BY <1>2 DEF Forget
    <2>2. QED
      BY <2>1 DEF KeptInv, KeptOf, KeptAsMade
  <1>3. CASE Taken
    <2>1. settings' = settings /\ kept' = kept /\ orig' = orig /\ status' = "none"
      BY <1>3 DEF Taken
    <2>2. QED
      BY <2>1 DEF KeptInv, KeptOf, KeptAsMade
  <1>4. ASSUME NEW q \in Queries, Get(q) PROVE KeptInv'
    <2> DEFINE r == Read(q, settings)
               k == Key(r, settings)
    <2>1. CASE GetOriginal(q)
      <3>1. settings' = settings /\ kept' = kept /\ orig' = orig /\ status' = "original"
        BY <2>1 DEF GetOriginal, Answer
      <3>2. QED
        BY <3>1 DEF KeptInv, KeptOf, KeptAsMade
    <2>2. CASE GetKept(q)
      <3>1. /\ settings' = settings /\ kept' = kept /\ orig' = orig
            /\ query' = q /\ answer' = {kept[k]}
            /\ k # <<>> /\ k \in DOMAIN kept
        BY <2>2 DEF GetKept, Answer
      <3>2. PICK r0 : \E s0 \in Settings :
               k = Key(r0, s0) /\ kept[k] \in Results(orig, r0, s0)
        BY <3>1 DEF KeptInv, KeptOf
      <3>3. PICK s0 \in Settings : k = Key(r0, s0) /\ kept[k] \in Results(orig, r0, s0)
        BY <3>2
      <3>4. \/ kept[k] \in Results(orig, r, [settings EXCEPT !.zoom = s0.zoom])
            \/ OwnFile(r, settings) /\ kept[k] \in convert(orig, Spells[r.t], s0.zoom)
        BY <3>1, <3>3, SameKeySameResults DEF KeptInv
      <3>5. s0.zoom \in BOOLEAN
        BY SettingsAssumption
      <3>6. KeptAsMade'
        BY <3>1, <3>4, <3>5 DEF KeptAsMade, Req, Scripted, OwnFile
      <3>7. QED
        BY <3>1, <3>6 DEF KeptInv, KeptOf
    <2>3. CASE GetConverted(q)
      <3>1. settings' = settings /\ orig' = orig /\ k # <<>> /\ status' # "kept"
        BY <2>3 DEF GetConverted, Answer
      <3>2. \/ kept' = kept
            \/ \E im \in Results(orig, r, settings) : Keep(k, im)
        BY <2>3 DEF GetConverted
      <3>3. ASSUME NEW j \in DOMAIN kept' PROVE KeptOf(j, kept'[j])
        <4>1. \/ j \in DOMAIN kept /\ kept'[j] = kept[j]
              \/ j = k /\ kept'[j] \in Results(orig, r, settings)
          BY <3>2, <3>3 DEF Keep
        <4>2. QED
          BY <3>1, <4>1 DEF KeptInv, KeptOf
      <3>4. QED
        BY <3>1, <3>3 DEF KeptInv, KeptOf, KeptAsMade
    <2>4. QED
      BY <1>4, <2>1, <2>2, <2>3 DEF Get
  <1>5. CASE UNCHANGED vars
    <2>1. UNCHANGED <<settings, orig, kept, query, status, answer>>
      BY <1>5 DEF vars
    <2>2. QED
      BY <2>1 DEF KeptInv, KeptOf, KeptAsMade, Req, Scripted
  <1>6. QED
    BY <1>1, <1>2, <1>3, <1>4, <1>5 DEF Next

\* A kept result answers only requests that conversion now could answer with
\* the same image, whatever was asked, kept and configured before; only
\* disable_zoom_up may have been different when it was made.  The exception is
\* an unknown type that spells parameters, which may have the result of these.
THEOREM KeptForItsRequests == Spec => []KeptAsMade
  <1>1. KeptInv => KeptAsMade
    BY DEF KeptInv
  <1>2. QED
    BY <1>1, InitKept, NextKept, PTL DEF Spec

-----------------------------------------------------------------------------
(* Sizes *)

IsImage(im) ==
  /\ {"cols", "rows", "cut", "turn", "gray", "quality", "fmt", "missed"} \subseteq DOMAIN im
  /\ im.cols \in Nat \ {0} /\ im.rows \in Nat \ {0}
  /\ im.quality \in Int

\* An image without more columns or rows than another.
Within(a, im) ==
  /\ IsImage(a) /\ a.cols <= im.cols /\ a.rows <= im.rows

\* A quotient is rounded to no more than any whole number that it is not above.
LEMMA RoundBound ==
  ASSUME NEW n \in Nat, NEW d \in Nat \ {0}, NEW m \in Nat, n <= d * m,
         NEW k \in Round(n, d)
  PROVE  k \in Nat /\ k <= m
  <1>1. n \div d \in Nat
    OBVIOUS
  <1>2. k \in Nat /\ 2 * ((k * d) - n) <= d
    BY <1>1 DEF Round
  <1>3. CASE k >= m + 1
    <2>1. k * d >= (m + 1) * d
      BY <1>2, <1>3
    <2>2. (m + 1) * d = (d * m) + d
      OBVIOUS
    <2>3. k * d \in Nat /\ d * m \in Nat
      BY <1>2
    <2>4. (k * d) - n >= d
      BY <2>1, <2>2, <2>3
    <2>5. QED
      BY <1>2, <2>3, <2>4
  <1>4. QED
    BY <1>2, <1>3

LEMMA ProductBound ==
  ASSUME NEW a \in Nat, NEW b \in Nat, NEW c \in Nat, a <= c
  PROVE  a * b \in Nat /\ a * b <= c * b /\ a * b <= b * c
  OBVIOUS

LEMMA ResizedWithin ==
  ASSUME NEW im, IsImage(im), NEW c \in Nat, NEW r \in Nat,
         c <= im.cols, r <= im.rows, NEW a \in Resized(im, c, r)
  PROVE  Within(a, im)
  <1>1. c > 0 /\ r > 0 /\ a = [im EXCEPT !.cols = c, !.rows = r]
    BY DEF Resized
  <1>2. QED
    BY <1>1 DEF IsImage, Within

\* A size that went through an int is exact, or the call has missed it.
LEMMA ToInts ==
  ASSUME NEW im, IsImage(im), NEW c \in Int, NEW r \in Int, NEW a \in ResizedToInts(im, c, r)
  PROVE  \/ c > 0 /\ r > 0 /\ a \in Resized(im, c, r)
         \/ a.missed /\ Within(a, im)
  <1>1. CASE {c, r} \subseteq Ints
    BY <1>1 DEF ResizedToInts, Resized
  <1>2. CASE ~({c, r} \subseteq Ints)
    BY <1>2 DEF ResizedToInts, IsImage, Within
  <1>3. QED
    BY <1>1, <1>2

LEMMA ResizedSides ==
  ASSUME NEW im, IsImage(im), NEW c \in Int, NEW r \in Int, NEW a \in Resized(im, c, r)
  PROVE  /\ IsImage(a) /\ c > 0 /\ r > 0 /\ a.cols = c /\ a.rows = r
         /\ a.cut = im.cut /\ a.missed = im.missed
  <1>1. c > 0 /\ r > 0 /\ a = [im EXCEPT !.cols = c, !.rows = r]
    BY DEF Resized
  <1>2. QED
    BY <1>1 DEF IsImage

LEMMA ToIntsSides ==
  ASSUME NEW im, IsImage(im), NEW c \in Int, NEW r \in Int, NEW a \in ResizedToInts(im, c, r)
  PROVE  /\ IsImage(a)
         /\ a.missed \/ (c > 0 /\ r > 0 /\ a.cols = c /\ a.rows = r /\ a.cut = im.cut)
  BY ToInts, ResizedSides DEF Within

LEMMA ToIntsWithin ==
  ASSUME NEW im, IsImage(im), NEW c \in Nat, NEW r \in Nat,
         c <= im.cols, r <= im.rows, NEW a \in ResizedToInts(im, c, r)
  PROVE  Within(a, im)
  BY ToInts, ResizedWithin

\* MagickCropImage never enlarges.
LEMMA CroppedWithin ==
  ASSUME NEW im, IsImage(im), NEW c \in Int, NEW r \in Int, NEW x \in Nat, NEW y \in Nat,
         NEW a \in Cropped(im, c, r, x, y)
  PROVE  Within(a, im)
  <1>1. CASE x >= im.cols \/ y >= im.rows \/ c < 0 \/ r < 0
    <2>1. a = [im EXCEPT !.cols = 1, !.rows = 1, !.missed = TRUE]
      BY <1>1 DEF Cropped
    <2>2. QED
      BY <2>1 DEF IsImage, Within
  <1>2. CASE ~(x >= im.cols \/ y >= im.rows \/ c < 0 \/ r < 0)
    <2> DEFINE cc == IF c = 0 THEN im.cols - x ELSE Least(c, im.cols - x)
               rr == IF r = 0 THEN im.rows - y ELSE Least(r, im.rows - y)
    <2>1. cc \in Nat \ {0} /\ cc <= im.cols /\ rr \in Nat \ {0} /\ rr <= im.rows
      BY <1>2 DEF IsImage, Least
    <2>2. a = [im EXCEPT !.cols = cc, !.rows = rr,
                         !.cut = <<x, (im.cols - x) - cc, y, (im.rows - y) - rr>>]
      BY <1>2 DEF Cropped
    <2> HIDE DEF cc, rr
    <2>3. QED
      BY <2>1, <2>2 DEF IsImage, Within
  <1>3. QED
    BY <1>1, <1>2

\* Of a negative size nothing is known.
LEMMA CroppedNegative ==
  ASSUME NEW im, IsImage(im), NEW c \in Int, NEW r \in Int, c < 0 \/ r < 0,
         NEW x, NEW y, NEW a \in Cropped(im, c, r, x, y)
  PROVE  IsImage(a) /\ a.cols = 1 /\ a.rows = 1 /\ a.missed
  <1>1. a = [im EXCEPT !.cols = 1, !.rows = 1, !.missed = TRUE]
    BY DEF Cropped
  <1>2. QED
    BY <1>1 DEF IsImage

\* With a size it keeps to the size, wherever the cut begins.
LEMMA CroppedToSize ==
  ASSUME NEW im, IsImage(im), NEW c \in Nat \ {0}, NEW r \in Nat \ {0},
         NEW x \in Int, NEW y \in Int, NEW a \in Cropped(im, c, r, x, y)
  PROVE  IsImage(a) /\ a.cols <= c /\ a.rows <= r
  <1>1. CASE x >= im.cols \/ y >= im.rows
    <2>1. a = [im EXCEPT !.cols = 1, !.rows = 1, !.missed = TRUE]
      BY <1>1 DEF Cropped
    <2>2. QED
      BY <2>1 DEF IsImage
  <1>2. CASE ~(x >= im.cols \/ y >= im.rows)
    <2> DEFINE cc == Least(c, im.cols - x)
               rr == Least(r, im.rows - y)
    <2>1. cc \in Nat \ {0} /\ cc <= c /\ rr \in Nat \ {0} /\ rr <= r
      BY <1>2 DEF IsImage, Least
    <2>2. a = [im EXCEPT !.cols = cc, !.rows = rr,
                         !.cut = <<x, (im.cols - x) - cc, y, (im.rows - y) - rr>>]
      BY <1>2 DEF Cropped
    <2> HIDE DEF cc, rr
    <2>3. QED
      BY <2>1, <2>2 DEF IsImage
  <1>3. QED
    BY <1>1, <1>2

LEMMA ProportionalWithin ==
  ASSUME NEW im, IsImage(im), NEW c \in Nat, NEW r \in Nat,
         c <= im.cols, r <= im.rows, NEW a \in Proportional(im, c, r)
  PROVE  Within(a, im)
  <1>1. CASE c > 0
    <2>1. PICK k \in Round(c * im.rows, im.cols) : a \in ResizedToInts(im, c, k)
      BY <1>1 DEF Proportional
    <2>2. c * im.rows \in Nat /\ c * im.rows <= im.cols * im.rows
      BY ProductBound DEF IsImage
    <2>3. k \in Nat /\ k <= im.rows
      BY <2>2, RoundBound DEF IsImage
    <2>4. QED
      BY <2>1, <2>3, ToIntsWithin
  <1>2. CASE ~(c > 0)
    <2>1. PICK k \in Round(r * im.cols, im.rows) : a \in ResizedToInts(im, k, r)
      BY <1>2 DEF Proportional
    <2>2. r * im.cols \in Nat /\ r * im.cols <= im.rows * im.cols
      BY ProductBound DEF IsImage
    <2>3. k \in Nat /\ k <= im.cols
      BY <2>2, RoundBound DEF IsImage
    <2>4. QED
      BY <2>1, <2>3, ToIntsWithin
  <1>3. QED
    BY <1>1, <1>2

\* Fill keeps to the sizes, whatever the resizing before the cut returned.
LEMMA FillToSize ==
  ASSUME NEW im, IsImage(im), NEW c \in Nat \ {0}, NEW r \in Nat \ {0},
         NEW a \in Fill(im, c, r)
  PROVE  IsImage(a) /\ a.cols <= c /\ a.rows <= r
  <1> DEFINE wide == c * im.rows > r * im.cols
             sizes == IF wide THEN {c} \X Round(c * im.rows, im.cols)
                      ELSE Round(r * im.cols, im.rows) \X {r}
             x(z) == IF wide THEN 0 ELSE (z[1] - c) \div 2
             y(z) == IF wide THEN (z[2] - r) \div 2 ELSE 0
  <1>1. PICK z \in sizes :
           \E s \in ResizedToInts(im, z[1], z[2]) \union {[im EXCEPT !.missed = TRUE]} :
             a \in Cropped(s, c, r, x(z), y(z))
    BY DEF Fill
  <1>2. z[1] \in Int /\ z[2] \in Int
    <2>1. /\ c * im.rows \in Nat /\ r * im.cols \in Nat
      BY DEF IsImage
    <2>2. /\ \A k \in Round(c * im.rows, im.cols) : k \in Int
          /\ \A k \in Round(r * im.cols, im.rows) : k \in Int
      BY <2>1 DEF Round, IsImage
    <2>3. QED
      BY <2>2
  <1>3. PICK s \in ResizedToInts(im, z[1], z[2]) \union {[im EXCEPT !.missed = TRUE]} :
           a \in Cropped(s, c, r, x(z), y(z))
    BY <1>1
  <1>4. IsImage(s)
    <2>1. CASE s \in ResizedToInts(im, z[1], z[2])
      BY <1>2, <2>1, ToIntsSides
    <2>2. CASE s = [im EXCEPT !.missed = TRUE]
      BY <2>2 DEF IsImage
    <2>3. QED
      BY <1>3, <2>1, <2>2
  <1>5. x(z) \in Int /\ y(z) \in Int
    BY <1>2
  <1> HIDE DEF x, y
  <1>6. QED
    BY <1>3, <1>4, <1>5, CroppedToSize

LEMMA FillWithin ==
  ASSUME NEW im, IsImage(im), NEW c \in Nat \ {0}, NEW r \in Nat \ {0},
         c <= im.cols, r <= im.rows, NEW a \in Fill(im, c, r)
  PROVE  Within(a, im)
  BY FillToSize DEF IsImage, Within

LEMMA RoundNegative ==
  ASSUME NEW n \in Int, n <= 0, NEW d \in Nat \ {0}, NEW k \in Round(n, d)
  PROVE  k \in Int /\ k <= 0
  <1>1. k \in Int /\ 2 * ((k * d) - n) <= d
    BY DEF Round
  <1>2. CASE k >= 1
    <2>1. k * d >= d /\ k * d \in Int
      BY <1>1, <1>2
    <2>2. QED
      BY <1>1, <2>1
  <1>3. QED
    BY <1>1, <1>2

\* The percentages of the sides.
LEMMA PercentParts ==
  ASSUME NEW im, IsImage(im), NEW c \in Int, NEW r \in Int, NEW a \in Percent(im, c, r)
  PROVE  \E u, v \in Int :
           /\ {u, v} \subseteq {c, r} /\ (c # 0 /\ r # 0 => u = c /\ v = r)
           /\ c >= 0 /\ r >= 0 =>
                u = (IF c = 0 THEN r ELSE c) /\ v = (IF r = 0 THEN c ELSE r)
           /\ c = 0 \/ r = 0 => u = v
           /\ \E k \in Round(im.cols * u, 100), l \in Round(im.rows * v, 100) :
                a \in ResizedToInts(im, k, l)
  <1>1. PICK u : u = Percentages(c, r)[1]
    OBVIOUS
  <1>2. PICK v : v = Percentages(c, r)[2]
    OBVIOUS
  <1>3. /\ u \in Int /\ v \in Int
        /\ {u, v} \subseteq {c, r} /\ (c # 0 /\ r # 0 => u = c /\ v = r)
        /\ c >= 0 /\ r >= 0 =>
             u = (IF c = 0 THEN r ELSE c) /\ v = (IF r = 0 THEN c ELSE r)
        /\ c = 0 \/ r = 0 => u = v
    BY <1>1, <1>2 DEF Percentages
  <1>4. \E k \in Round(im.cols * u, 100), l \in Round(im.rows * v, 100) :
          a \in ResizedToInts(im, k, l)
    BY <1>1, <1>2 DEF Percent
  <1>5. QED
    BY <1>3, <1>4

\* A percentage of 0 or below makes no image, but for one out of range.
LEMMA PercentNegative ==
  ASSUME NEW im, IsImage(im), NEW u \in Int, NEW v \in Int, u <= 0 \/ v <= 0,
         NEW k \in Round(im.cols * u, 100), NEW l \in Round(im.rows * v, 100),
         NEW a \in ResizedToInts(im, k, l)
  PROVE  a.missed /\ Within(a, im)
  <1>1. k \in Int /\ l \in Int
    BY DEF Round, IsImage
  <1>2. u <= 0 => im.cols * u <= 0 /\ im.cols * u \in Int
    BY DEF IsImage
  <1>3. v <= 0 => im.rows * v <= 0 /\ im.rows * v \in Int
    BY DEF IsImage
  <1>4. k <= 0 \/ l <= 0
    BY <1>2, <1>3, RoundNegative
  <1>5. QED
    BY <1>1, <1>4, ToInts

LEMMA PercentWithin ==
  ASSUME NEW im, IsImage(im), NEW c \in Int, NEW r \in Int, c <= 100, r <= 100,
         NEW a \in Percent(im, c, r)
  PROVE  Within(a, im)
  <1>1. PICK u \in Int, v \in Int :
          /\ u <= 100 /\ v <= 100
          /\ \E k \in Round(im.cols * u, 100), l \in Round(im.rows * v, 100) :
               a \in ResizedToInts(im, k, l)
    BY PercentParts
  <1>2. PICK k \in Round(im.cols * u, 100), l \in Round(im.rows * v, 100) :
          a \in ResizedToInts(im, k, l)
    BY <1>1
  <1>3. CASE u <= 0 \/ v <= 0
    BY <1>2, <1>3, PercentNegative
  <1>4. CASE u > 0 /\ v > 0
    <2>1. /\ im.cols * u \in Nat /\ im.cols * u <= 100 * im.cols
          /\ im.rows * v \in Nat /\ im.rows * v <= 100 * im.rows
      BY <1>1, <1>4 DEF IsImage
    <2>2. k \in Nat /\ k <= im.cols /\ l \in Nat /\ l <= im.rows
      BY <1>2, <2>1, RoundBound DEF IsImage
    <2>3. QED
      BY <1>2, <2>2, ToIntsWithin
  <1>5. QED
    BY <1>3, <1>4

\* The cases of proportion.
Cases(im, p, cols, rows) ==
  IF p = 0 THEN Resized(im, cols, rows)
  ELSE IF p = 1 /\ 0 \in {cols, rows} THEN Proportional(im, cols, rows)
  ELSE IF p = 1 THEN Fill(im, cols, rows)
  ELSE IF p = 2 THEN MiddleCut(im, cols, rows)
  ELSE IF p = 3 THEN Percent(im, cols, rows)
  ELSE IF p = 4 THEN Fit(im, cols, rows) ELSE {}

LEMMA ProportionCases ==
  ASSUME NEW im, NEW p, NEW w, NEW h, NEW zoom
  PROVE  proportion(im, p, w, h, zoom) =
           Cases(im, p, Clamped(w, p, im.cols, zoom), Clamped(h, p, im.rows, zoom))
  BY DEF proportion, Cases

\* In none of its cases does proportion make an image larger, given sizes that
\* are no larger, or percentages up to 100.
LEMMA CasesWithin ==
  ASSUME NEW im, IsImage(im), NEW p \in Int, NEW cols \in Int, NEW rows \in Int,
         p = 3 => cols <= 100 /\ rows <= 100,
         p # 3 => cols \in 0..im.cols /\ rows \in 0..im.rows,
         NEW a \in Cases(im, p, cols, rows)
  PROVE  Within(a, im)
  <1>2. CASE p = 0
    <2>1. a \in Resized(im, cols, rows)
      BY <1>2 DEF Cases
    <2>2. QED
      BY <1>2, <2>1, ResizedWithin
  <1>3. CASE p = 1
    <2>1. a \in IF 0 \in {cols, rows} THEN Proportional(im, cols, rows)
               ELSE Fill(im, cols, rows)
      BY <1>3 DEF Cases
    <2>2. QED
      BY <1>3, <2>1, ProportionalWithin, FillWithin
  <1>4. CASE p = 2
    <2>1. PICK x \in Middle(im.cols, cols), y \in Middle(im.rows, rows) :
             a \in Cropped(im, cols, rows, x, y)
      BY <1>4 DEF Cases, MiddleCut
    <2>2. x \in Nat /\ y \in Nat
      BY <1>4, <2>1 DEF Middle, IsImage
    <2>3. QED
      BY <2>1, <2>2, CroppedWithin
  <1>5. CASE p = 3
    <2>1. a \in Percent(im, cols, rows)
      BY <1>5 DEF Cases
    <2>2. QED
      BY <1>5, <2>1, PercentWithin
  <1>6. CASE p = 4
    <2>1. a \in Fit(im, cols, rows)
      BY <1>6 DEF Cases
    <2>2. \/ a \in Proportional(im, cols, 0)
          \/ a \in Proportional(im, 0, rows)
      BY <1>6, <2>1 DEF Fit
    <2>3. QED
      BY <1>6, <2>2, ProportionalWithin DEF IsImage
  <1>7. p \in 0..4
    BY DEF Cases
  <1>8. QED
    BY <1>2, <1>3, <1>4, <1>5, <1>6, <1>7

\* With disable_zoom_up proportion makes no image larger.
LEMMA ProportionWithin ==
  ASSUME NEW im, IsImage(im), NEW p \in Int, NEW w \in Int, NEW h \in Int,
         NEW zoom, zoom = FALSE, NEW a, a \in proportion(im, p, w, h, zoom)
  PROVE  Within(a, im)
  <1>1. PICK cols : cols = Clamped(w, p, im.cols, zoom)
    OBVIOUS
  <1>2. PICK rows : rows = Clamped(h, p, im.rows, zoom)
    OBVIOUS
  <1>3. /\ cols \in Int /\ (p = 3 => cols <= 100) /\ (p # 3 => cols \in 0..im.cols)
        /\ rows \in Int /\ (p = 3 => rows <= 100) /\ (p # 3 => rows \in 0..im.rows)
    BY <1>1, <1>2 DEF Clamped, Least, IsImage
  <1>4. a \in Cases(im, p, cols, rows)
    BY <1>1, <1>2, ProportionCases
  <1>5. QED
    BY <1>3, <1>4, CasesWithin

LEMMA CropWithin ==
  ASSUME NEW im, IsImage(im), NEW x \in Int, NEW y \in Int, NEW w \in Int, NEW h \in Int,
         NEW a \in crop(im, x, y, w, h)
  PROVE  Within(a, im)
  <1> DEFINE left == IF x < 0 THEN 0 ELSE x
             top == IF y < 0 THEN 0 ELSE y
             c == CropSize(w, im.cols, left)
             r == CropSize(h, im.rows, top)
  <1>1. left < im.cols /\ top < im.rows /\ a \in Cropped(im, c, r, left, top)
    BY DEF crop, IsImage
  <1>2. c \in Int /\ r \in Int /\ left \in Nat /\ top \in Nat
    BY <1>1 DEF CropSize, Least, IsImage
  <1> HIDE DEF c, r, left, top
  <1>3. QED
    BY <1>1, <1>2, CroppedWithin

\* What convert makes.
LEMMA ScaledWithin ==
  ASSUME NEW im, IsImage(im), NEW req, NEW zoom, zoom = FALSE,
         NEW a, a \in Scaled(im, req, zoom),
         req.w \in Int, req.h \in Int, req.p \in Int, req.x \in Int, req.y \in Int
  PROVE  Within(a, im)
  <1>1. CASE req.w = 0 /\ req.h = 0
    BY <1>1 DEF Scaled, Within, IsImage
  <1>2. CASE ~(req.w = 0 /\ req.h = 0) /\ req.x = -1 /\ req.y = -1
    BY <1>2, ProportionWithin DEF Scaled
  <1>3. CASE ~(req.w = 0 /\ req.h = 0) /\ ~(req.x = -1 /\ req.y = -1)
    <2>1. a \in crop(im, req.x, req.y, req.w, req.h)
      BY <1>3 DEF Scaled
    <2>2. QED
      BY <2>1, CropWithin
  <1>4. QED
    BY <1>1, <1>2, <1>3

LEMMA OwnIsImage ==
  ASSUME NEW o \in Originals
  PROVE  IsImage(Oriented(o))
  BY OriginalsAssumption DEF IsOriginal, IsImage, Oriented, Decoded, Turned

\* The size of an image stays when it is turned, and so on.
LEMMA FinishedSize ==
  ASSUME NEW im, IsImage(im), NEW req
  PROVE  Finished(im, req).cols = im.cols /\ Finished(im, req).rows = im.rows
  BY DEF Finished, IsImage

LEMMA ReadType ==
  ASSUME NEW q \in Queries, NEW s \in Settings
  PROVE  /\ Read(q, s).w \in Int /\ Read(q, s).h \in Int /\ Read(q, s).p \in Int
         /\ Read(q, s).x \in Int /\ Read(q, s).y \in Int
  <1> DEFINE a == IF s.args THEN q ELSE NoArgs
  <1>1. /\ q.w \in Int /\ q.h \in Int /\ q.p \in Int
        /\ q.x \in Int /\ q.y \in Int
    BY QueriesAssumption, MaxIntAssumption DEF IsQuery, Ints
  <1>2. /\ a.w \in Int /\ a.h \in Int /\ a.p \in Int
        /\ a.x \in Int /\ a.y \in Int
    BY <1>1 DEF NoArgs
  <1>3. /\ Read(q, s).w = a.w /\ Read(q, s).h = a.h
        /\ Read(q, s).x = a.x /\ Read(q, s).y = a.y
        /\ Read(q, s).p = IF a.x # -1 \/ a.y # -1 THEN 1 ELSE a.p
    BY DEF Read
  <1>4. QED
    BY <1>2, <1>3

\* An answer that was made is a result of its request; when there can be no
\* answer the request has no result.
MadeInv ==
  /\ settings \in Settings /\ orig \in Originals
  /\ status = "made" => /\ query \in Queries
                        /\ answer \subseteq Results(orig, Req, settings)
  /\ status = "impossible" => /\ query \in Queries
                              /\ Results(orig, Req, settings) = {}

LEMMA MadeCorrect == Spec => []MadeInv
  <1>1. Init => MadeInv
    BY DEF Init, MadeInv
  <1>2. MadeInv /\ [Next]_vars => MadeInv'
    <2> SUFFICES ASSUME MadeInv, [Next]_vars PROVE MadeInv'
      OBVIOUS
    <2>1. CASE Restart \/ Forget \/ Taken
      BY <2>1 DEF MadeInv, Restart, Forget, Taken
    <2>2. ASSUME NEW q \in Queries, Get(q) PROVE MadeInv'
      <3>1. CASE GetOriginal(q) \/ GetKept(q)
        BY <3>1 DEF MadeInv, GetOriginal, GetKept, Answer
      <3>2. CASE GetConverted(q)
        <4>1. /\ settings' = settings /\ orig' = orig /\ query' = q
              /\ status' = "made" =>
                   \E im \in Results(orig, Read(q, settings), settings) : answer' = {im}
              /\ status' = "impossible" => Results(orig, Read(q, settings), settings) = {}
          BY <3>2 DEF GetConverted, Answer
        <4>2. QED
          BY <4>1 DEF MadeInv, Req
      <3>3. QED
        BY <2>2, <3>1, <3>2 DEF Get
    <2>3. CASE UNCHANGED vars
      BY <2>3 DEF vars, MadeInv, Req
    <2>4. QED
      BY <2>1, <2>2, <2>3 DEF Next
  <1>3. QED
    BY <1>1, <1>2, PTL DEF Spec

\* Whatever image and sizes there are: with disable_zoom_up no conversion by
\* parameters has more columns or rows than the image.
THEOREM NeverEnlarged == Spec => []NotEnlarged
  <1>1. MadeInv => NotEnlarged
    <2> SUFFICES ASSUME MadeInv, ByArgs, ~settings.zoom, NEW im \in answer
                 PROVE  im.cols <= Own.cols /\ im.rows <= Own.rows
      BY DEF NotEnlarged
    <2>1. im \in convert(orig, Req, settings.zoom) /\ settings.zoom = FALSE
      BY SettingsAssumption DEF MadeInv, ByArgs, Scripted, Results
    <2>2. PICK a \in Scaled(Own, Req, settings.zoom) : im = Finished(a, Req)
      BY <2>1 DEF convert, Own
    <2>3. Within(a, Own)
      <3>1. IsImage(Own)
        BY OwnIsImage DEF MadeInv, Own
      <3>2. /\ Req.w \in Int /\ Req.h \in Int /\ Req.p \in Int
            /\ Req.x \in Int /\ Req.y \in Int
        BY ReadType DEF MadeInv, ByArgs, Req
      <3>3. QED
        BY <2>1, <2>2, <3>1, <3>2, ScaledWithin
    <2>4. QED
      BY <2>2, <2>3, FinishedSize DEF Within
  <1>2. QED
    BY <1>1, MadeCorrect, PTL

-----------------------------------------------------------------------------
(* Quotients, as the code rounds them *)

LEMMA Quotient ==
  ASSUME NEW n \in Nat, NEW d \in Nat \ {0}
  PROVE  /\ n \div d \in Nat
         /\ (n \div d) * d <= n
         /\ n < ((n \div d) * d) + d
  OBVIOUS

LEMMA Half ==
  ASSUME NEW n \in Int
  PROVE  /\ n \div 2 \in Int
         /\ 2 * (n \div 2) <= n
         /\ n <= (2 * (n \div 2)) + 1
  OBVIOUS

LEMMA RoundNear ==
  ASSUME NEW n \in Nat, NEW d \in Nat \ {0}, NEW k \in Round(n, d)
  PROVE  k \in Nat /\ 2 * (n - (k * d)) <= d /\ 2 * ((k * d) - n) <= d
  BY Quotient DEF Round

\* There is a nearest number, and a quotient above a half does not vanish.
LEMMA RoundSome ==
  ASSUME NEW n \in Nat, NEW d \in Nat \ {0}
  PROVE  /\ Round(n, d) # {}
         /\ ~Vanishes(n, d) => \A k \in Round(n, d) : k > 0
  <1> DEFINE k == n \div d
  <1>1. k \in Nat /\ k * d <= n /\ n < (k * d) + d
    BY Quotient
  <1>2. (k + 1) * d = (k * d) + d /\ k * d \in Nat
    BY <1>1
  <1>3. k \in Round(n, d) \/ k + 1 \in Round(n, d)
    <2>1. \/ 2 * (n - (k * d)) <= d
          \/ 2 * (((k + 1) * d) - n) <= d
      BY <1>1, <1>2
    <2>2. 2 * ((k * d) - n) <= d /\ 2 * (n - ((k + 1) * d)) <= d
      BY <1>1, <1>2
    <2>3. QED
      BY <2>1, <2>2 DEF Round
  <1>4. ASSUME ~Vanishes(n, d), NEW j \in Round(n, d) PROVE j > 0
    <2>1. j \in Nat /\ 2 * (n - (j * d)) <= d
      BY <1>4, RoundNear
    <2>2. j = 0 => j * d = 0
      OBVIOUS
    <2>3. QED
      BY <1>4, <2>1, <2>2 DEF Vanishes
  <1>5. QED
    BY <1>3, <1>4

\* A quotient is rounded to no less than any whole number that it is not below.
LEMMA RoundReaches ==
  ASSUME NEW n \in Nat, NEW d \in Nat \ {0}, NEW m \in Nat, m * d <= n,
         NEW k \in Round(n, d)
  PROVE  k \in Nat /\ m <= k
  <1>1. k \in Nat /\ 2 * (n - (k * d)) <= d
    BY RoundNear
  <1>2. CASE k + 1 <= m
    <2>1. (k + 1) * d <= m * d
      BY <1>1, <1>2
    <2>2. (k + 1) * d = (k * d) + d /\ k * d \in Nat /\ m * d \in Nat
      BY <1>1
    <2>3. QED
      BY <1>1, <2>1, <2>2
  <1>3. QED
    BY <1>1, <1>2

LEMMA CeilBound ==
  ASSUME NEW n \in Nat, NEW d \in Nat \ {0}, NEW m \in Nat, n <= m * d,
         NEW k \in Ceil(n, d)
  PROVE  k \in Nat /\ k <= m + 1
  <1>1. n \div d \in Nat /\ (n \div d) * d <= n
    BY Quotient
  <1>2. CASE m + 1 <= n \div d
    <2>1. (m + 1) * d <= (n \div d) * d
      BY <1>1, <1>2
    <2>2. (m + 1) * d = (m * d) + d /\ m * d \in Nat /\ (n \div d) * d \in Nat
      BY <1>1
    <2>3. QED
      BY <1>1, <2>1, <2>2
  <1>3. k \in {n \div d, (n \div d) + 1}
    BY DEF Ceil
  <1>4. QED
    BY <1>1, <1>2, <1>3

LEMMA CeilSome ==
  ASSUME NEW n \in Nat \ {0}, NEW d \in Nat \ {0}
  PROVE  Ceil(n, d) # {} /\ \A k \in Ceil(n, d) : k \in Nat \ {0}
  <1>1. n \div d \in Nat /\ (n % d = 0 => n \div d > 0)
    <2>1. n = (d * (n \div d)) + (n % d)
      OBVIOUS
    <2>2. n \div d = 0 => d * (n \div d) = 0
      OBVIOUS
    <2>3. QED
      BY <2>1, <2>2, Quotient
  <1>2. QED
    BY <1>1 DEF Ceil

-----------------------------------------------------------------------------
(* The sides of a conversion *)

\* A cut that begins in the image leaves what was asked for, as far as the image
\* goes.
LEMMA CroppedInside ==
  ASSUME NEW im, IsImage(im), NEW c \in Nat, NEW r \in Nat, NEW x \in Nat, NEW y \in Nat,
         x < im.cols, y < im.rows, NEW a \in Cropped(im, c, r, x, y)
  PROVE  /\ IsImage(a) /\ a.missed = im.missed
         /\ a.cols = IF c = 0 THEN im.cols - x ELSE Least(c, im.cols - x)
         /\ a.rows = IF r = 0 THEN im.rows - y ELSE Least(r, im.rows - y)
         /\ a.cut[1] - a.cut[2] = (2 * x) - (im.cols - a.cols)
         /\ a.cut[3] - a.cut[4] = (2 * y) - (im.rows - a.rows)
  <1>1. ~(x >= im.cols \/ y >= im.rows)
    BY DEF IsImage
  <1> DEFINE cc == IF c = 0 THEN im.cols - x ELSE Least(c, im.cols - x)
             rr == IF r = 0 THEN im.rows - y ELSE Least(r, im.rows - y)
             ends == <<x, (im.cols - x) - cc, y, (im.rows - y) - rr>>
  <1>2. cc \in Nat \ {0} /\ rr \in Nat \ {0}
    BY <1>1 DEF IsImage, Least
  <1>3. a = [im EXCEPT !.cols = cc, !.rows = rr, !.cut = ends]
    BY <1>1 DEF Cropped
  <1>4. /\ ends[1] = x /\ ends[2] = (im.cols - x) - cc
        /\ ends[3] = y /\ ends[4] = (im.rows - y) - rr
    OBVIOUS
  <1> HIDE DEF cc, rr, ends
  <1>5. a.cols = cc /\ a.rows = rr /\ a.cut = ends /\ IsImage(a)
    BY <1>2, <1>3 DEF IsImage
  <1>6. a.missed = im.missed
    BY <1>3 DEF IsImage
  <1>7. /\ a.cut[1] - a.cut[2] = (2 * x) - (im.cols - a.cols)
        /\ a.cut[3] - a.cut[4] = (2 * y) - (im.rows - a.rows)
    BY <1>1, <1>2, <1>4, <1>5 DEF IsImage
  <1>8. QED
    BY <1>5, <1>6, <1>7 DEF cc, rr

\* A cut that begins elsewhere is noticed.
LEMMA CroppedSides ==
  ASSUME NEW im, IsImage(im), NEW c \in Nat, NEW r \in Nat, NEW x \in Nat, NEW y \in Nat,
         NEW a \in Cropped(im, c, r, x, y), ~a.missed
  PROVE  /\ IsImage(a) /\ x < im.cols /\ y < im.rows /\ ~im.missed
         /\ a.cols = IF c = 0 THEN im.cols - x ELSE Least(c, im.cols - x)
         /\ a.rows = IF r = 0 THEN im.rows - y ELSE Least(r, im.rows - y)
         /\ a.cut[1] - a.cut[2] = (2 * x) - (im.cols - a.cols)
         /\ a.cut[3] - a.cut[4] = (2 * y) - (im.rows - a.rows)
  <1>1. ~(x >= im.cols \/ y >= im.rows)
    <2>1. (x >= im.cols \/ y >= im.rows) =>
            a = [im EXCEPT !.cols = 1, !.rows = 1, !.missed = TRUE]
      BY DEF Cropped
    <2>2. QED
      BY <2>1 DEF IsImage
  <1>2. x < im.cols /\ y < im.rows
    BY <1>1 DEF IsImage
  <1>3. a.missed = im.missed
    BY <1>2, CroppedInside
  <1>4. ~im.missed
    BY <1>3
  <1>5. QED
    BY <1>2, <1>4, CroppedInside

LEMMA CroppedSome ==
  ASSUME NEW im, NEW c, NEW r, NEW x, NEW y
  PROVE  Cropped(im, c, r, x, y) # {}
  BY DEF Cropped

LEMMA ResizedSome ==
  ASSUME NEW im, NEW c \in Int, NEW r \in Int, c > 0, r > 0
  PROVE  Resized(im, c, r) # {} /\ ResizedToInts(im, c, r) # {}
  <1>1. Resized(im, c, r) # {}
    BY DEF Resized
  <1>2. ~\E side \in {c, r} : side \in Ints /\ side <= 0
    OBVIOUS
  <1>3. ResizedToInts(im, c, r) \in {Resized(im, c, r), {[im EXCEPT !.missed = TRUE]}}
    BY <1>2 DEF ResizedToInts
  <1>4. QED
    BY <1>1, <1>3

\* One side as asked for, the other in proportion.
LEMMA ProportionalSides ==
  ASSUME NEW im, IsImage(im), NEW c \in Nat, NEW r \in Nat, NEW a \in Proportional(im, c, r)
  PROVE  /\ IsImage(a)
         /\ ~a.missed /\ c > 0 => a.cols = c /\ a.rows \in Round(c * im.rows, im.cols)
         /\ ~a.missed /\ c = 0 =>
              r > 0 /\ a.rows = r /\ a.cols \in Round(r * im.cols, im.rows)
  <1>1. c * im.rows \in Nat /\ r * im.cols \in Nat
    BY DEF IsImage
  <1>2. CASE c > 0
    <2>1. PICK k \in Round(c * im.rows, im.cols) : a \in ResizedToInts(im, c, k)
      BY <1>2 DEF Proportional
    <2>2. k \in Int
      BY <1>1, RoundNear DEF IsImage
    <2>3. QED
      BY <1>2, <2>1, <2>2, ToIntsSides
  <1>3. CASE c = 0
    <2>1. PICK k \in Round(r * im.cols, im.rows) : a \in ResizedToInts(im, k, r)
      BY <1>3 DEF Proportional
    <2>2. k \in Int
      BY <1>1, RoundNear DEF IsImage
    <2>3. QED
      BY <1>3, <2>1, <2>2, ToIntsSides
  <1>4. QED
    BY <1>2, <1>3

\* Without a size above 0 there is no image, but for one out of range.
LEMMA ProportionalNegative ==
  ASSUME NEW im, IsImage(im), NEW c \in Int, NEW r \in Int, c <= 0, r <= 0,
         NEW a \in Proportional(im, c, r)
  PROVE  IsImage(a) /\ a.missed
  <1>1. PICK k \in Round(r * im.cols, im.rows) : a \in ResizedToInts(im, k, r)
    BY DEF Proportional
  <1>2. k \in Int
    BY DEF Round, IsImage
  <1>3. QED
    BY <1>1, <1>2, ToIntsSides

\* A percentage of each side.
LEMMA PercentSides ==
  ASSUME NEW im, IsImage(im), NEW c \in Int, NEW r \in Int, NEW a \in Percent(im, c, r)
  PROVE  /\ IsImage(a)
         /\ c < 0 \/ r < 0 => a.missed
         /\ ~a.missed => /\ a.cols \in Round(im.cols * (IF c = 0 THEN r ELSE c), 100)
                         /\ a.rows \in Round(im.rows * (IF r = 0 THEN c ELSE r), 100)
  <1>1. PICK u \in Int, v \in Int :
          /\ {u, v} \subseteq {c, r} /\ (c # 0 /\ r # 0 => u = c /\ v = r)
          /\ c >= 0 /\ r >= 0 =>
               u = (IF c = 0 THEN r ELSE c) /\ v = (IF r = 0 THEN c ELSE r)
          /\ c = 0 \/ r = 0 => u = v
          /\ \E k \in Round(im.cols * u, 100), l \in Round(im.rows * v, 100) :
               a \in ResizedToInts(im, k, l)
    BY PercentParts
  <1>2. PICK k \in Round(im.cols * u, 100), l \in Round(im.rows * v, 100) :
           a \in ResizedToInts(im, k, l)
    BY <1>1
  <1>3. k \in Int /\ l \in Int
    BY DEF Round, IsImage
  <1>4. IsImage(a) /\ (a.missed \/ (a.cols = k /\ a.rows = l))
    BY <1>2, <1>3, ToIntsSides
  <1>5. c < 0 \/ r < 0 => a.missed
    <2>1. c < 0 \/ r < 0 => u <= 0 \/ v <= 0
      BY <1>1
    <2>2. QED
      BY <1>2, <2>1, PercentNegative
  <1>6. QED
    BY <1>1, <1>2, <1>4, <1>5

\* The cut of crop, which begins in the image.
LEMMA CropSides ==
  ASSUME NEW im, IsImage(im), NEW x \in Int, NEW y \in Int, NEW w \in Int, NEW h \in Int,
         NEW left, left = (IF x < 0 THEN 0 ELSE x),
         NEW top, top = (IF y < 0 THEN 0 ELSE y),
         NEW a \in crop(im, x, y, w, h), ~a.missed
  PROVE  /\ a.cols = IF w <= 0 THEN im.cols - left ELSE Least(w, im.cols - left)
         /\ a.rows = IF h <= 0 THEN im.rows - top ELSE Least(h, im.rows - top)
  <1>1. PICK c : c = CropSize(w, im.cols, left)
    OBVIOUS
  <1>2. PICK r : r = CropSize(h, im.rows, top)
    OBVIOUS
  <1>3. left < im.cols /\ top < im.rows /\ a \in Cropped(im, c, r, left, top)
    BY <1>1, <1>2 DEF crop, IsImage
  <1>4. left \in Nat /\ top \in Nat /\ im.cols \in Nat /\ im.rows \in Nat
    BY DEF IsImage
  <1>5. /\ c \in Int /\ c <= im.cols - left
        /\ c < 0 \/ c = IF w <= 0 THEN im.cols - left ELSE Least(w, im.cols - left)
        /\ c # 0
    BY <1>1, <1>3, <1>4 DEF CropSize, Least
  <1>6. /\ r \in Int /\ r <= im.rows - top
        /\ r < 0 \/ r = IF h <= 0 THEN im.rows - top ELSE Least(h, im.rows - top)
        /\ r # 0
    BY <1>2, <1>3, <1>4 DEF CropSize, Least
  <1>7. c >= 0 /\ r >= 0
    BY <1>3, <1>5, <1>6, CroppedNegative
  <1>8. /\ a.cols = IF c = 0 THEN im.cols - left ELSE Least(c, im.cols - left)
        /\ a.rows = IF r = 0 THEN im.rows - top ELSE Least(r, im.rows - top)
    <2>1. PICK l \in Nat, t \in Nat : l = left /\ t = top
      BY <1>4
    <2>2. c \in Nat /\ r \in Nat
      BY <1>5, <1>6, <1>7
    <2>3. l < im.cols /\ t < im.rows /\ a \in Cropped(im, c, r, l, t)
      BY <1>3, <2>1
    <2>4. QED
      BY <2>1, <2>2, <2>3, CroppedInside
  <1>9. a.cols = c /\ a.rows = r
    BY <1>4, <1>5, <1>6, <1>8 DEF Least
  <1>10. QED
    BY <1>5, <1>6, <1>7, <1>9

LEMMA CropSome ==
  ASSUME NEW im, IsImage(im), NEW x \in Int, NEW y \in Int, NEW w \in Int, NEW h \in Int,
         crop(im, x, y, w, h) = {}
  PROVE  x >= im.cols \/ y >= im.rows
  BY CroppedSome DEF crop, IsImage

\* Where half of what a side has too much begins.
LEMMA Begins ==
  ASSUME NEW n \in Nat, NEW m \in Nat, m <= n
  PROVE  /\ (n - m) \div 2 \in Nat
         /\ m <= n - ((n - m) \div 2)
         /\ (2 * ((n - m) \div 2)) - (n - m) \in {-1, 0}
  <1>1. n - m \in Nat
    OBVIOUS
  <1>2. QED
    BY <1>1, Half

\* p = 2: as much of the middle as there is.
LEMMA MiddleCutSides ==
  ASSUME NEW im, IsImage(im), NEW c \in Nat \ {0}, NEW r \in Nat \ {0},
         NEW a \in MiddleCut(im, c, r), ~a.missed
  PROVE  /\ a.cols = Least(c, im.cols) /\ a.rows = Least(r, im.rows)
         /\ a.cut[1] - a.cut[2] \in {-1, 0} /\ a.cut[3] - a.cut[4] \in {-1, 0}
  <1>1. PICK x \in Middle(im.cols, c), y \in Middle(im.rows, r) :
           a \in Cropped(im, c, r, x, y)
    BY DEF MiddleCut
  <1>2. /\ c <= im.cols => x = (im.cols - c) \div 2
        /\ ~(c <= im.cols) => x \in {0, im.cols}
        /\ r <= im.rows => y = (im.rows - r) \div 2
        /\ ~(r <= im.rows) => y \in {0, im.rows}
    BY <1>1 DEF Middle
  <1>3. /\ c <= im.cols =>
             x \in Nat /\ c <= im.cols - x /\ (2 * x) - (im.cols - c) \in {-1, 0}
        /\ r <= im.rows =>
             y \in Nat /\ r <= im.rows - y /\ (2 * y) - (im.rows - r) \in {-1, 0}
    BY <1>2, Begins DEF IsImage
  <1>4. x \in Nat /\ y \in Nat
    BY <1>2, <1>3 DEF IsImage
  <1>5. /\ x < im.cols /\ y < im.rows
        /\ a.cols = Least(c, im.cols - x)
        /\ a.rows = Least(r, im.rows - y)
        /\ a.cut[1] - a.cut[2] = (2 * x) - (im.cols - a.cols)
        /\ a.cut[3] - a.cut[4] = (2 * y) - (im.rows - a.rows)
    BY <1>1, <1>4, CroppedSides
  <1>6. /\ ~(c <= im.cols) => x = 0
        /\ ~(r <= im.rows) => y = 0
    BY <1>2, <1>5 DEF IsImage
  <1>7. a.cols = Least(c, im.cols) /\ (2 * x) - (im.cols - a.cols) \in {-1, 0}
    <2>1. CASE c <= im.cols
      BY <1>3, <1>4, <1>5, <2>1 DEF Least, IsImage
    <2>2. CASE ~(c <= im.cols)
      BY <1>5, <1>6, <2>2 DEF Least, IsImage
    <2>3. QED
      BY <2>1, <2>2
  <1>8. a.rows = Least(r, im.rows) /\ (2 * y) - (im.rows - a.rows) \in {-1, 0}
    <2>1. CASE r <= im.rows
      BY <1>3, <1>4, <1>5, <2>1 DEF Least, IsImage
    <2>2. CASE ~(r <= im.rows)
      BY <1>5, <1>6, <2>2 DEF Least, IsImage
    <2>3. QED
      BY <2>1, <2>2
  <1>9. QED
    BY <1>5, <1>7, <1>8

\* p = 1 with two sizes: made to cover them, and cut to them in the middle.
LEMMA FillSides ==
  ASSUME NEW im, IsImage(im), NEW c \in Nat \ {0}, NEW r \in Nat \ {0},
         NEW a \in Fill(im, c, r), ~a.missed
  PROVE  /\ a.cols = c /\ a.rows = r
         /\ a.cut[1] - a.cut[2] \in {-1, 0} /\ a.cut[3] - a.cut[4] \in {-1, 0}
  <1> DEFINE wide == c * im.rows > r * im.cols
             sizes == IF wide THEN {c} \X Round(c * im.rows, im.cols)
                      ELSE Round(r * im.cols, im.rows) \X {r}
             x(z) == IF wide THEN 0 ELSE (z[1] - c) \div 2
             y(z) == IF wide THEN (z[2] - r) \div 2 ELSE 0
  <1>1. PICK z \in sizes :
           \E s \in ResizedToInts(im, z[1], z[2]) \union {[im EXCEPT !.missed = TRUE]} :
             a \in Cropped(s, c, r, x(z), y(z))
    BY DEF Fill
  <1>2. PICK s \in ResizedToInts(im, z[1], z[2]) \union {[im EXCEPT !.missed = TRUE]} :
           a \in Cropped(s, c, r, x(z), y(z))
    BY <1>1
  <1>3. /\ z[1] \in Nat /\ c <= z[1] /\ (wide => z[1] = c)
        /\ z[2] \in Nat /\ r <= z[2] /\ (~wide => z[2] = r)
    <2>1. c * im.rows \in Nat /\ r * im.cols \in Nat
      BY DEF IsImage
    <2>2. CASE wide
      <3>1. z[1] = c /\ z[2] \in Round(c * im.rows, im.cols)
        BY <1>1, <2>2
      <3>2. z[2] \in Nat /\ r <= z[2]
        BY <2>1, <2>2, <3>1, RoundReaches DEF IsImage
      <3>3. QED
        BY <2>2, <3>1, <3>2
    <2>3. CASE ~wide
      <3>1. z[2] = r /\ z[1] \in Round(r * im.cols, im.rows)
        BY <1>1, <2>3
      <3>2. z[1] \in Nat /\ c <= z[1]
        BY <2>1, <2>3, <3>1, RoundReaches DEF IsImage
      <3>3. QED
        BY <2>3, <3>1, <3>2
    <2>4. QED
      BY <2>2, <2>3
  <1>4. /\ x(z) \in Nat /\ c <= z[1] - x(z) /\ (2 * x(z)) - (z[1] - c) \in {-1, 0}
        /\ y(z) \in Nat /\ r <= z[2] - y(z) /\ (2 * y(z)) - (z[2] - r) \in {-1, 0}
    <2>1. /\ (z[1] - c) \div 2 \in Nat /\ c <= z[1] - ((z[1] - c) \div 2)
          /\ (2 * ((z[1] - c) \div 2)) - (z[1] - c) \in {-1, 0}
      BY <1>3, Begins
    <2>2. /\ (z[2] - r) \div 2 \in Nat /\ r <= z[2] - ((z[2] - r) \div 2)
          /\ (2 * ((z[2] - r) \div 2)) - (z[2] - r) \in {-1, 0}
      BY <1>3, Begins
    <2> HIDE DEF wide, sizes
    <2>3. CASE wide
      <3>1. x(z) = 0 /\ y(z) = (z[2] - r) \div 2 /\ z[1] = c
        BY <1>3, <2>3
      <3> HIDE DEF x, y
      <3>2. QED
        BY <2>2, <3>1
    <2>4. CASE ~wide
      <3>1. x(z) = (z[1] - c) \div 2 /\ y(z) = 0 /\ z[2] = r
        BY <1>3, <2>4
      <3> HIDE DEF x, y
      <3>2. QED
        BY <2>1, <3>1
    <2>5. QED
      BY <2>3, <2>4
  <1> HIDE DEF x, y, wide, sizes
  <1>5. IsImage([im EXCEPT !.missed = TRUE]) /\ [im EXCEPT !.missed = TRUE].missed = TRUE
    BY DEF IsImage
  <1>6. IsImage(s)
    <2>1. ASSUME s \in ResizedToInts(im, z[1], z[2]) PROVE IsImage(s)
      BY <1>3, <2>1, ToIntsSides
    <2>2. QED
      BY <1>2, <1>5, <2>1
  <1>7. ~s.missed
    BY <1>2, <1>4, <1>6, CroppedSides
  <1>8. s \in ResizedToInts(im, z[1], z[2])
    BY <1>2, <1>5, <1>7
  <1>9. s.cols = z[1] /\ s.rows = z[2]
    BY <1>3, <1>7, <1>8, ToIntsSides
  <1>10. /\ a.cols = Least(c, z[1] - x(z)) /\ a.rows = Least(r, z[2] - y(z))
         /\ a.cut[1] - a.cut[2] = (2 * x(z)) - (z[1] - a.cols)
         /\ a.cut[3] - a.cut[4] = (2 * y(z)) - (z[2] - a.rows)
    BY <1>2, <1>4, <1>6, <1>9, CroppedSides
  <1>11. a.cols = c /\ a.rows = r
    BY <1>4, <1>10 DEF Least
  <1>12. QED
    BY <1>4, <1>10, <1>11

LEMMA FillSome ==
  ASSUME NEW im, IsImage(im), NEW c \in Nat \ {0}, NEW r \in Nat \ {0}
  PROVE  Fill(im, c, r) # {}
  <1> DEFINE wide == c * im.rows > r * im.cols
             sizes == IF wide THEN {c} \X Round(c * im.rows, im.cols)
                      ELSE Round(r * im.cols, im.rows) \X {r}
             x(z) == IF wide THEN 0 ELSE (z[1] - c) \div 2
             y(z) == IF wide THEN (z[2] - r) \div 2 ELSE 0
             cuts(z) == UNION {Cropped(s, c, r, x(z), y(z)) :
               s \in ResizedToInts(im, z[1], z[2]) \union {[im EXCEPT !.missed = TRUE]}}
  <1>1. c * im.rows \in Nat /\ r * im.cols \in Nat
    BY DEF IsImage
  <1>2. Round(c * im.rows, im.cols) # {} /\ Round(r * im.cols, im.rows) # {}
    BY <1>1, RoundSome DEF IsImage
  <1>3. PICK k \in Round(c * im.rows, im.cols), j \in Round(r * im.cols, im.rows) : TRUE
    BY <1>2
  <1>4. <<c, k>> \in sizes \/ <<j, r>> \in sizes
    OBVIOUS
  <1>5. PICK z : z \in sizes
    BY <1>4
  <1>6. Cropped([im EXCEPT !.missed = TRUE], c, r, x(z), y(z)) # {}
    BY CroppedSome
  <1>7. cuts(z) # {}
    BY <1>6
  <1>8. Fill(im, c, r) = UNION {cuts(v) : v \in sizes}
    BY DEF Fill
  <1> HIDE DEF cuts, sizes
  <1>9. QED
    BY <1>5, <1>7, <1>8

\* p = 4: inside of the sizes, and touching one of them.
LEMMA FitSides ==
  ASSUME NEW im, IsImage(im), NEW c \in Nat, NEW r \in Nat, c > 0 \/ r > 0,
         NEW a \in Fit(im, c, r)
  PROVE  /\ ~a.missed /\ c > 0 => a.cols <= c
         /\ ~a.missed /\ r > 0 => a.rows <= r
         /\ \/ c > 0 /\ a \in Proportional(im, c, 0)
            \/ r > 0 /\ a \in Proportional(im, 0, r)
  <1>1. c * im.rows \in Nat /\ r * im.cols \in Nat /\ im.cols \in Nat \ {0} /\ im.rows \in Nat \ {0}
    BY DEF IsImage
  <1>2. CASE r = 0 \/ (c > 0 /\ c * im.rows < r * im.cols)
    <2>1. c > 0 /\ a \in Proportional(im, c, 0)
      BY <1>2 DEF Fit
    <2>2. ~a.missed => a.cols = c /\ a.rows \in Round(c * im.rows, im.cols)
      BY <2>1, ProportionalSides
    <2>3. r > 0 => c * im.rows <= im.cols * r
      BY <1>1, <1>2
    <2>4. ~a.missed /\ r > 0 => a.rows <= r
      BY <1>1, <2>2, <2>3, RoundBound
    <2>5. QED
      BY <2>1, <2>2, <2>4
  <1>3. CASE ~(r = 0 \/ (c > 0 /\ c * im.rows < r * im.cols))
    <2>1. r > 0 /\ a \in Proportional(im, 0, r)
      BY <1>3 DEF Fit
    <2>2. ~a.missed => a.rows = r /\ a.cols \in Round(r * im.cols, im.rows)
      BY <2>1, ProportionalSides
    <2>3. c > 0 => r * im.cols <= im.rows * c
      BY <1>1, <1>3
    <2>4. ~a.missed /\ c > 0 => a.cols <= c
      BY <1>1, <2>2, <2>3, RoundBound
    <2>5. QED
      BY <2>1, <2>2, <2>4
  <1>4. QED
    BY <1>2, <1>3

\* A negative size is the smaller one.
LEMMA FitNegative ==
  ASSUME NEW im, IsImage(im), NEW c \in Int, NEW r \in Int, c < 0 \/ r < 0,
         NEW a \in Fit(im, c, r)
  PROVE  IsImage(a) /\ a.missed
  <1>3. PICK C \in Nat \ {0}, R \in Nat \ {0} : C = im.cols /\ R = im.rows
    BY DEF IsImage
  <1>4. CASE r = 0 \/ (c # 0 /\ c * im.rows < r * im.cols)
    <2>1. c < 0
      <3>1. c > 0 => r < 0 /\ c * R > 0 /\ r * C < 0
        OBVIOUS
      <3>2. c * R \in Int /\ r * C \in Int
        OBVIOUS
      <3>3. ~(c > 0)
        BY <1>3, <1>4, <3>1, <3>2
      <3>4. QED
        BY <1>4, <3>3
    <2>2. a \in Proportional(im, c, 0)
      BY <1>4 DEF Fit
    <2>3. QED
      BY <2>1, <2>2, ProportionalNegative
  <1>5. CASE ~(r = 0 \/ (c # 0 /\ c * im.rows < r * im.cols))
    <2>1. r < 0
      <3>1. r > 0 => c < 0 /\ c * R < 0 /\ r * C > 0
        OBVIOUS
      <3>2. c * R \in Int /\ r * C \in Int
        OBVIOUS
      <3>3. ~(r > 0)
        BY <1>3, <1>5, <3>1, <3>2
      <3>4. QED
        BY <1>5, <3>3
    <2>2. a \in Proportional(im, 0, r)
      BY <1>5 DEF Fit
    <2>3. QED
      BY <2>1, <2>2, ProportionalNegative
  <1>6. QED
    BY <1>4, <1>5

\* Nothing is known of a cut of a negative size, wherever it begins.
LEMMA FillNegative ==
  ASSUME NEW im, IsImage(im), NEW c \in Int, NEW r \in Int, c < 0 \/ r < 0,
         NEW a \in Fill(im, c, r)
  PROVE  IsImage(a) /\ a.missed
  <1> DEFINE wide == c * im.rows > r * im.cols
             sizes == IF wide THEN {c} \X Round(c * im.rows, im.cols)
                      ELSE Round(r * im.cols, im.rows) \X {r}
             x(z) == IF wide THEN 0 ELSE (z[1] - c) \div 2
             y(z) == IF wide THEN (z[2] - r) \div 2 ELSE 0
             cuts(z) == UNION {Cropped(s, c, r, x(z), y(z)) :
               s \in ResizedToInts(im, z[1], z[2]) \union {[im EXCEPT !.missed = TRUE]}}
  <1>1. PICK z \in sizes : a \in cuts(z)
    <2>1. Fill(im, c, r) = UNION {cuts(z) : z \in sizes}
      BY DEF Fill
    <2> HIDE DEF cuts, sizes
    <2>2. QED
      BY <2>1
  <1>2. z[1] \in Int /\ z[2] \in Int
    <2>1. /\ c * im.rows \in Int /\ r * im.cols \in Int
      BY DEF IsImage
    <2>2. /\ \A k \in Round(c * im.rows, im.cols) : k \in Int
          /\ \A k \in Round(r * im.cols, im.rows) : k \in Int
      BY <2>1 DEF Round, IsImage
    <2>3. QED
      BY <2>2
  <1>3. PICK s \in ResizedToInts(im, z[1], z[2]) \union {[im EXCEPT !.missed = TRUE]} :
           a \in Cropped(s, c, r, x(z), y(z))
    BY <1>1
  <1>4. IsImage(s)
    <2>1. IsImage([im EXCEPT !.missed = TRUE])
      BY DEF IsImage
    <2>2. s \in ResizedToInts(im, z[1], z[2]) => IsImage(s)
      BY <1>2, ToIntsSides
    <2>3. QED
      BY <1>3, <2>1, <2>2
  <1> HIDE DEF x, y
  <1>5. QED
    BY <1>3, <1>4, CroppedNegative

-----------------------------------------------------------------------------
(* Conversions by parameters are what was asked for *)

LEMMA ClampedAsked ==
  ASSUME NEW size \in Int, NEW p, NEW own \in Nat \ {0}, NEW zoom \in BOOLEAN,
         NEW n, n = Clamped(size, p, own, zoom)
  PROVE  /\ n \in Int /\ (n = 0 <=> size = 0)
         /\ zoom => n = size
         /\ ~zoom /\ p # 3 => n \in Nat /\ n = IF size < 0 THEN own ELSE Least(size, own)
         /\ p = 3 => n = IF zoom THEN size ELSE Least(size, 100)
  BY DEF Clamped, Least

\* What the answers of proportion look like, given the sizes that are left of
\* those asked for.
Proportioned(im, p, cols, rows, a) ==
  /\ IsImage(a)
  /\ ~a.missed =>
       /\ cols \in Nat /\ rows \in Nat
       /\ p = 0 => a.cols = cols /\ a.rows = rows
       /\ p = 1 /\ cols > 0 /\ rows > 0 =>
            /\ a.cols = cols /\ a.rows = rows
            /\ a.cut[1] - a.cut[2] \in {-1, 0} /\ a.cut[3] - a.cut[4] \in {-1, 0}
       /\ p = 2 /\ cols > 0 /\ rows > 0 =>
            /\ a.cols = Least(cols, im.cols) /\ a.rows = Least(rows, im.rows)
            /\ a.cut[1] - a.cut[2] \in {-1, 0} /\ a.cut[3] - a.cut[4] \in {-1, 0}
       /\ p = 3 => /\ a.cols \in Round(im.cols * (IF cols = 0 THEN rows ELSE cols), 100)
                   /\ a.rows \in Round(im.rows * (IF rows = 0 THEN cols ELSE rows), 100)
       /\ p = 4 \/ (p = 1 /\ (cols = 0 \/ rows = 0)) =>
            /\ cols > 0 => a.cols <= cols
            /\ rows > 0 => a.rows <= rows
            /\ \/ a.cols = cols /\ a.rows \in Round(cols * im.rows, im.cols)
               \/ a.rows = rows /\ a.cols \in Round(rows * im.cols, im.rows)

\* A negative size makes no image, but for one of which nothing is known.
LEMMA CasesNegative ==
  ASSUME NEW im, IsImage(im), NEW p \in Int, NEW cols \in Int, NEW rows \in Int,
         cols < 0 \/ rows < 0, NEW a \in Cases(im, p, cols, rows)
  PROVE  IsImage(a) /\ a.missed
  <1>1. CASE p = 0
    BY <1>1 DEF Cases, Resized
  <1>2. CASE p = 1 /\ (cols = 0 \/ rows = 0)
    <2>1. a \in Proportional(im, cols, rows) /\ cols <= 0 /\ rows <= 0
      BY <1>2 DEF Cases
    <2>2. QED
      BY <2>1, ProportionalNegative
  <1>3. CASE p = 1 /\ ~(cols = 0 \/ rows = 0)
    <2>1. a \in Fill(im, cols, rows)
      BY <1>3 DEF Cases
    <2>2. QED
      BY <2>1, FillNegative
  <1>4. CASE p = 2
    <2>1. PICK x \in Middle(im.cols, cols), y \in Middle(im.rows, rows) :
             a \in Cropped(im, cols, rows, x, y)
      BY <1>4 DEF Cases, MiddleCut
    <2>2. QED
      BY <2>1, CroppedNegative
  <1>5. CASE p = 3
    BY <1>5, PercentSides DEF Cases
  <1>6. CASE p = 4
    BY <1>6, FitNegative DEF Cases
  <1>7. p \in 0..4
    BY DEF Cases
  <1>8. QED
    BY <1>1, <1>2, <1>3, <1>4, <1>5, <1>6, <1>7

LEMMA CasesProportioned ==
  ASSUME NEW im, IsImage(im), NEW p \in Int, NEW cols \in Nat, NEW rows \in Nat,
         cols > 0 \/ rows > 0, NEW a \in Cases(im, p, cols, rows)
  PROVE  Proportioned(im, p, cols, rows, a)
  <1>1. CASE p = 0
    <2>1. a \in Resized(im, cols, rows)
      BY <1>1 DEF Cases
    <2>2. IsImage(a) /\ a.cols = cols /\ a.rows = rows
      BY <2>1, ResizedSides
    <2>3. QED
      BY <1>1, <2>2 DEF Proportioned
  <1>2. CASE p = 1 /\ (cols = 0 \/ rows = 0)
    <2>1. a \in Proportional(im, cols, rows)
      BY <1>2 DEF Cases
    <2>2. /\ IsImage(a)
          /\ ~a.missed /\ cols > 0 => a.cols = cols /\ a.rows \in Round(cols * im.rows, im.cols)
          /\ ~a.missed /\ cols = 0 => a.rows = rows /\ a.cols \in Round(rows * im.cols, im.rows)
      BY <2>1, ProportionalSides
    <2>3. QED
      BY <1>2, <2>2 DEF Proportioned
  <1>3. CASE p = 1 /\ cols > 0 /\ rows > 0
    <2>1. a \in Fill(im, cols, rows)
      BY <1>3 DEF Cases
    <2>2. IsImage(a)
      BY <1>3, <2>1, FillToSize
    <2>3. ~a.missed => /\ a.cols = cols /\ a.rows = rows
                       /\ a.cut[1] - a.cut[2] \in {-1, 0}
                       /\ a.cut[3] - a.cut[4] \in {-1, 0}
      BY <1>3, <2>1, FillSides
    <2>4. QED
      BY <1>3, <2>2, <2>3 DEF Proportioned
  <1>4. CASE p = 2
    <2>1. a \in MiddleCut(im, cols, rows)
      BY <1>4 DEF Cases
    <2>2. PICK x \in Middle(im.cols, cols), y \in Middle(im.rows, rows) :
             a \in Cropped(im, cols, rows, x, y)
      BY <2>1 DEF Cases, MiddleCut
    <2>3. x \in Nat /\ y \in Nat
      BY <2>2 DEF Middle, IsImage
    <2>4. IsImage(a)
      <3>1. Within(a, im)
        BY <2>2, <2>3, CroppedWithin
      <3>2. QED
        BY <3>1 DEF Within
    <2>5. cols > 0 /\ rows > 0 /\ ~a.missed =>
            /\ a.cols = Least(cols, im.cols) /\ a.rows = Least(rows, im.rows)
            /\ a.cut[1] - a.cut[2] \in {-1, 0} /\ a.cut[3] - a.cut[4] \in {-1, 0}
      BY <2>1, MiddleCutSides
    <2>6. QED
      BY <1>4, <2>4, <2>5 DEF Proportioned
  <1>5. CASE p = 3
    <2>1. a \in Percent(im, cols, rows)
      BY <1>5 DEF Cases
    <2>2. /\ IsImage(a)
          /\ ~a.missed => /\ a.cols \in Round(im.cols * (IF cols = 0 THEN rows ELSE cols), 100)
                          /\ a.rows \in Round(im.rows * (IF rows = 0 THEN cols ELSE rows), 100)
      BY <2>1, PercentSides
    <2>3. QED
      BY <1>5, <2>2 DEF Proportioned
  <1>6. CASE p = 4
    <2>1. a \in Fit(im, cols, rows)
      BY <1>6 DEF Cases
    <2>2. /\ ~a.missed /\ cols > 0 => a.cols <= cols
          /\ ~a.missed /\ rows > 0 => a.rows <= rows
          /\ \/ cols > 0 /\ a \in Proportional(im, cols, 0)
             \/ rows > 0 /\ a \in Proportional(im, 0, rows)
      BY <2>1, FitSides
    <2>3. ASSUME cols > 0, a \in Proportional(im, cols, 0)
          PROVE  /\ IsImage(a)
                 /\ ~a.missed => a.cols = cols /\ a.rows \in Round(cols * im.rows, im.cols)
      BY <2>3, ProportionalSides
    <2>4. ASSUME rows > 0, a \in Proportional(im, 0, rows)
          PROVE  /\ IsImage(a)
                 /\ ~a.missed => a.rows = rows /\ a.cols \in Round(rows * im.cols, im.rows)
      BY <2>4, ProportionalSides
    <2>5. QED
      BY <1>6, <2>2, <2>3, <2>4 DEF Proportioned
  <1>7. p \in 0..4
    BY DEF Cases
  <1>8. QED
    BY <1>1, <1>2, <1>3, <1>4, <1>5, <1>6, <1>7

LEMMA ProportionSides ==
  ASSUME NEW im, IsImage(im), NEW p \in Int, NEW w \in Int, NEW h \in Int, w # 0 \/ h # 0,
         NEW zoom \in BOOLEAN, NEW a \in proportion(im, p, w, h, zoom)
  PROVE  Proportioned(im, p, Clamped(w, p, im.cols, zoom), Clamped(h, p, im.rows, zoom), a)
  <1>1. PICK cols : cols = Clamped(w, p, im.cols, zoom)
    OBVIOUS
  <1>2. PICK rows : rows = Clamped(h, p, im.rows, zoom)
    OBVIOUS
  <1>3. cols \in Int /\ rows \in Int /\ (cols # 0 \/ rows # 0)
    BY <1>1, <1>2, ClampedAsked DEF IsImage
  <1>4. a \in Cases(im, p, cols, rows)
    BY <1>1, <1>2, ProportionCases
  <1>5. Proportioned(im, p, cols, rows, a)
    <2>1. CASE cols < 0 \/ rows < 0
      <3>1. IsImage(a) /\ a.missed
        BY <1>3, <1>4, <2>1, CasesNegative
      <3>2. QED
        BY <3>1 DEF Proportioned
    <2>2. CASE ~(cols < 0 \/ rows < 0)
      <3>1. cols \in Nat /\ rows \in Nat /\ (cols > 0 \/ rows > 0)
        BY <1>3, <2>2
      <3>2. QED
        BY <1>4, <3>1, CasesProportioned
    <2>3. QED
      BY <2>1, <2>2
  <1>6. QED
    BY <1>1, <1>2, <1>5

LEMMA FinishedKeeps ==
  ASSUME NEW im, IsImage(im), NEW req
  PROVE  Finished(im, req).cut = im.cut /\ Finished(im, req).missed = im.missed
  BY DEF Finished, IsImage

\* An answer made by parameters, as it was scaled.
LEMMA AnswerByArgs ==
  ASSUME MadeInv, ByArgs, Req.w # 0 \/ Req.h # 0, NEW im \in answer
  PROVE  /\ IsImage(Own) /\ settings.zoom \in BOOLEAN
         /\ Req.w \in Int /\ Req.h \in Int /\ Req.p \in Int /\ Req.x \in Int /\ Req.y \in Int
         /\ \E a : /\ IsImage(a) /\ im.missed = a.missed /\ im.cut = a.cut
                   /\ im.cols = a.cols /\ im.rows = a.rows
                   /\ IF Positioned THEN a \in crop(Own, Req.x, Req.y, Req.w, Req.h)
                      ELSE Proportioned(Own, Req.p,
                                        Clamped(Req.w, Req.p, Own.cols, settings.zoom),
                                        Clamped(Req.h, Req.p, Own.rows, settings.zoom), a)
  <1>1. IsImage(Own)
    BY OwnIsImage DEF MadeInv, Own
  <1>2. settings.zoom \in BOOLEAN
    BY SettingsAssumption DEF MadeInv
  <1>3. /\ Req.w \in Int /\ Req.h \in Int /\ Req.p \in Int
        /\ Req.x \in Int /\ Req.y \in Int
    BY ReadType DEF MadeInv, ByArgs, Req
  <1>4. im \in convert(orig, Req, settings.zoom)
    BY DEF MadeInv, ByArgs, Scripted, Results
  <1>5. PICK a \in Scaled(Own, Req, settings.zoom) : im = Finished(a, Req)
    BY <1>4 DEF convert, Own
  <1>6. IsImage(a) /\ IF Positioned THEN a \in crop(Own, Req.x, Req.y, Req.w, Req.h)
                      ELSE Proportioned(Own, Req.p,
                                        Clamped(Req.w, Req.p, Own.cols, settings.zoom),
                                        Clamped(Req.h, Req.p, Own.rows, settings.zoom), a)
    <2>1. CASE Positioned
      <3>1. a \in crop(Own, Req.x, Req.y, Req.w, Req.h)
        BY <1>5, <2>1 DEF Scaled, Positioned
      <3>2. QED
        BY <1>1, <1>3, <2>1, <3>1, CropWithin DEF Within
    <2>2. CASE ~Positioned
      <3>1. a \in proportion(Own, Req.p, Req.w, Req.h, settings.zoom)
        BY <1>5, <2>2 DEF Scaled, Positioned
      <3>2. Proportioned(Own, Req.p, Clamped(Req.w, Req.p, Own.cols, settings.zoom),
                         Clamped(Req.h, Req.p, Own.rows, settings.zoom), a)
        BY <1>1, <1>2, <1>3, <3>1, ProportionSides
      <3>3. QED
        BY <2>2, <3>2 DEF Proportioned
    <2>3. QED
      BY <2>1, <2>2
  <1>7. im.cols = a.cols /\ im.rows = a.rows
    BY <1>5, <1>6, FinishedSize
  <1>8. im.missed = a.missed /\ im.cut = a.cut
    BY <1>5, <1>6, FinishedKeeps
  <1>9. QED
    BY <1>1, <1>2, <1>3, <1>6, <1>7, <1>8

LEMMA MadeSides == MadeInv => SidesAsAsked
  <1> SUFFICES ASSUME MadeInv, ByArgs, Req.w # 0 \/ Req.h # 0, NEW im \in answer, ~im.missed
               PROVE  LET w == Asked(Req.w, Own.cols)
                          h == Asked(Req.h, Own.rows)
                          left == IF Req.x < 0 THEN 0 ELSE Req.x
                          top == IF Req.y < 0 THEN 0 ELSE Req.y
                      IN /\ Positioned =>
                              /\ im.cols = IF Req.w <= 0 THEN Own.cols - left
                                           ELSE Least(Req.w, Own.cols - left)
                              /\ im.rows = IF Req.h <= 0 THEN Own.rows - top
                                           ELSE Least(Req.h, Own.rows - top)
                         /\ ~Positioned /\ Req.p \in {0, 1} /\ w > 0 /\ h > 0 =>
                              im.cols = w /\ im.rows = h
                         /\ ~Positioned /\ Req.p = 2 /\ w > 0 /\ h > 0 =>
                              im.cols = Least(w, Own.cols) /\ im.rows = Least(h, Own.rows)
                         /\ ~Positioned /\ (Req.p = 4 \/ (Req.p = 1 /\ (w = 0 \/ h = 0))) =>
                              /\ w > 0 => im.cols <= w
                              /\ h > 0 => im.rows <= h
                              /\ im.cols = w \/ im.rows = h
    BY DEF SidesAsAsked
  <1> DEFINE w == Asked(Req.w, Own.cols)
             h == Asked(Req.h, Own.rows)
             left == IF Req.x < 0 THEN 0 ELSE Req.x
             top == IF Req.y < 0 THEN 0 ELSE Req.y
  <1>1. /\ IsImage(Own) /\ settings.zoom \in BOOLEAN
        /\ Req.w \in Int /\ Req.h \in Int /\ Req.p \in Int /\ Req.x \in Int /\ Req.y \in Int
    BY AnswerByArgs
  <1>2. PICK a : /\ IsImage(a) /\ im.missed = a.missed /\ im.cut = a.cut
                 /\ im.cols = a.cols /\ im.rows = a.rows
                 /\ IF Positioned THEN a \in crop(Own, Req.x, Req.y, Req.w, Req.h)
                    ELSE Proportioned(Own, Req.p,
                                      Clamped(Req.w, Req.p, Own.cols, settings.zoom),
                                      Clamped(Req.h, Req.p, Own.rows, settings.zoom), a)
    BY AnswerByArgs
  <1>3. ~a.missed
    BY <1>2
  <1>4. CASE Positioned
    <2>1. a \in crop(Own, Req.x, Req.y, Req.w, Req.h)
      BY <1>2, <1>4
    <2>2. /\ a.cols = IF Req.w <= 0 THEN Own.cols - left ELSE Least(Req.w, Own.cols - left)
          /\ a.rows = IF Req.h <= 0 THEN Own.rows - top ELSE Least(Req.h, Own.rows - top)
      BY <1>1, <1>3, <2>1, CropSides
    <2>3. QED
      BY <1>2, <1>4, <2>2
  <1>5. CASE ~Positioned
    <2>1. Proportioned(Own, Req.p, Clamped(Req.w, Req.p, Own.cols, settings.zoom),
                       Clamped(Req.h, Req.p, Own.rows, settings.zoom), a)
      BY <1>2, <1>5
    <2>2. Req.p # 3 => /\ w = Clamped(Req.w, Req.p, Own.cols, settings.zoom)
                       /\ h = Clamped(Req.h, Req.p, Own.rows, settings.zoom)
      BY <1>1 DEF Asked, Clamped, Least, IsImage
    <2>3. Req.p # 3 => Proportioned(Own, Req.p, w, h, a)
      BY <2>1, <2>2
    <2> HIDE DEF w, h
    <2>4. /\ Req.p \in {0, 1} /\ w > 0 /\ h > 0 => a.cols = w /\ a.rows = h
      BY <1>3, <2>3 DEF Proportioned
    <2>5. Req.p = 2 /\ w > 0 /\ h > 0 =>
            a.cols = Least(w, Own.cols) /\ a.rows = Least(h, Own.rows)
      BY <1>3, <2>3 DEF Proportioned
    <2>6. (Req.p = 4 \/ (Req.p = 1 /\ (w = 0 \/ h = 0))) =>
            /\ w > 0 => a.cols <= w
            /\ h > 0 => a.rows <= h
            /\ a.cols = w \/ a.rows = h
      BY <1>3, <2>3 DEF Proportioned
    <2>7. QED
      BY <1>2, <1>5, <2>4, <2>5, <2>6 DEF w, h
  <1>6. QED
    BY <1>4, <1>5

\* A side that was rounded is at most half a pixel off.
LEMMA NearInProportion ==
  ASSUME NEW c \in Nat, NEW C \in Nat \ {0}, NEW R \in Nat \ {0},
         NEW k \in Round(c * R, C)
  PROVE  /\ k \in Nat
         /\ 2 * ((c * R) - (k * C)) <= C + R
         /\ -2 * ((c * R) - (k * C)) <= C + R
  <1>1. c * R \in Nat
    OBVIOUS
  <1>2. k \in Nat /\ 2 * ((c * R) - (k * C)) <= C /\ 2 * ((k * C) - (c * R)) <= C
    BY <1>1, RoundNear
  <1>3. k * C \in Nat
    BY <1>2
  <1>4. QED
    BY <1>1, <1>2, <1>3

\* So are two sides of which the same percentage was taken.
LEMMA PercentInProportion ==
  ASSUME NEW v \in Nat, NEW C \in Nat \ {0}, NEW R \in Nat \ {0},
         NEW k \in Round(C * v, 100), NEW l \in Round(R * v, 100)
  PROVE  /\ k \in Nat /\ l \in Nat
         /\ 2 * ((k * R) - (l * C)) <= C + R
         /\ -2 * ((k * R) - (l * C)) <= C + R
  <1> DEFINE e == (100 * k) - (C * v)
             f == (100 * l) - (R * v)
  <1>1. C * v \in Nat /\ R * v \in Nat
    OBVIOUS
  <1>2. /\ k \in Nat /\ 2 * ((C * v) - (k * 100)) <= 100 /\ 2 * ((k * 100) - (C * v)) <= 100
        /\ l \in Nat /\ 2 * ((R * v) - (l * 100)) <= 100 /\ 2 * ((l * 100) - (R * v)) <= 100
    BY <1>1, RoundNear
  <1>3. e \in Int /\ -50 <= e /\ e <= 50 /\ f \in Int /\ -50 <= f /\ f <= 50
    BY <1>1, <1>2
  <1>4. 100 * ((k * R) - (l * C)) = (e * R) - (f * C)
    <2>1. e * R = (100 * (k * R)) - ((C * v) * R)
      BY <1>1, <1>2
    <2>2. f * C = (100 * (l * C)) - ((R * v) * C)
      BY <1>1, <1>2
    <2>3. (C * v) * R = (R * v) * C
      OBVIOUS
    <2>4. k * R \in Int /\ l * C \in Int /\ (C * v) * R \in Int
      BY <1>1, <1>2
    <2> HIDE DEF e, f
    <2>5. QED
      BY <2>1, <2>2, <2>3, <2>4
  <1> HIDE DEF e, f
  <1>5. /\ -50 * R <= e * R /\ e * R <= 50 * R /\ e * R \in Int
        /\ -50 * C <= f * C /\ f * C <= 50 * C /\ f * C \in Int
    BY <1>3
  <1>6. k * R \in Int /\ l * C \in Int
    BY <1>2
  <1>7. QED
    BY <1>2, <1>4, <1>5, <1>6

LEMMA MadeInProportion == MadeInv => InProportion
  <1> SUFFICES ASSUME MadeInv, ByArgs, ~Positioned, Req.w # 0 \/ Req.h # 0,
                      Req.p = 4 \/ (Req.p \in {1, 3} /\ (Req.w = 0 \/ Req.h = 0)),
                      NEW im \in answer, ~im.missed
               PROVE  LET off == (im.cols * Own.rows) - (im.rows * Own.cols)
                      IN 2 * off <= Own.cols + Own.rows /\ -2 * off <= Own.cols + Own.rows
    BY DEF InProportion
  <1>1. /\ IsImage(Own) /\ settings.zoom \in BOOLEAN
        /\ Req.w \in Int /\ Req.h \in Int /\ Req.p \in Int /\ Req.x \in Int /\ Req.y \in Int
    BY AnswerByArgs
  <1>2. PICK a : /\ IsImage(a) /\ im.missed = a.missed /\ im.cut = a.cut
                 /\ im.cols = a.cols /\ im.rows = a.rows
                 /\ IF Positioned THEN a \in crop(Own, Req.x, Req.y, Req.w, Req.h)
                    ELSE Proportioned(Own, Req.p,
                                      Clamped(Req.w, Req.p, Own.cols, settings.zoom),
                                      Clamped(Req.h, Req.p, Own.rows, settings.zoom), a)
    BY AnswerByArgs
  <1> DEFINE c == Clamped(Req.w, Req.p, Own.cols, settings.zoom)
             r == Clamped(Req.h, Req.p, Own.rows, settings.zoom)
             C == Own.cols
             R == Own.rows
  <1>3. Proportioned(Own, Req.p, c, r, a) /\ ~a.missed
    BY <1>2
  <1>4. /\ c \in Nat /\ (c = 0 <=> Req.w = 0)
        /\ r \in Nat /\ (r = 0 <=> Req.h = 0)
    <2>1. (c = 0 <=> Req.w = 0) /\ (r = 0 <=> Req.h = 0)
      BY <1>1, ClampedAsked DEF IsImage
    <2> HIDE DEF c, r
    <2>2. QED
      BY <1>3, <2>1 DEF Proportioned
  <1>5. C \in Nat \ {0} /\ R \in Nat \ {0} /\ a.cols \in Nat /\ a.rows \in Nat
    BY <1>1, <1>2 DEF IsImage
  <1> HIDE DEF c, r
  <1>6. /\ 2 * ((a.cols * R) - (a.rows * C)) <= C + R
        /\ -2 * ((a.cols * R) - (a.rows * C)) <= C + R
    <2>1. CASE Req.p = 4 \/ (Req.p = 1 /\ (c = 0 \/ r = 0))
      <3>1. \/ a.cols = c /\ a.rows \in Round(c * R, C)
            \/ a.rows = r /\ a.cols \in Round(r * C, R)
        BY <1>3, <2>1 DEF Proportioned
      <3> HIDE DEF C, R
      <3>2. CASE a.cols = c /\ a.rows \in Round(c * R, C)
        BY <1>4, <1>5, <3>2, NearInProportion
      <3>3. CASE a.rows = r /\ a.cols \in Round(r * C, R)
        <4>1. /\ 2 * ((a.rows * C) - (a.cols * R)) <= R + C
              /\ -2 * ((a.rows * C) - (a.cols * R)) <= R + C
          BY <1>4, <1>5, <3>3, NearInProportion
        <4>2. a.cols * R \in Int /\ a.rows * C \in Int
          BY <1>5
        <4>3. QED
          BY <1>5, <4>1, <4>2
      <3>4. QED
        BY <3>1, <3>2, <3>3
    <2>2. CASE Req.p = 3
      <3> DEFINE v == IF c = 0 THEN r ELSE c
      <3>1. c = 0 \/ r = 0
        BY <1>4, <2>2
      <3>2. a.cols \in Round(C * v, 100) /\ a.rows \in Round(R * v, 100) /\ v \in Nat
        BY <1>3, <1>4, <2>2, <3>1 DEF Proportioned
      <3> HIDE DEF v, C, R
      <3>3. QED
        BY <1>5, <3>2, PercentInProportion
    <2>3. QED
      BY <1>4, <2>1, <2>2
  <1>7. QED
    BY <1>2, <1>6

-----------------------------------------------------------------------------
(* What the script makes *)

LEMMA OriginalIsImage ==
  ASSUME NEW o \in Originals
  PROVE  IsImage(Decoded(o)) /\ ~Decoded(o).missed
  <1>1. IsImage(Decoded(o))
    BY OriginalsAssumption DEF IsOriginal, IsImage, Decoded
  <1>2. ~Decoded(o).missed
    BY DEF Decoded
  <1>3. QED
    BY <1>1, <1>2

\* Rounded up, a half is no more than the whole.
LEMMA HalfBegins ==
  ASSUME NEW n \in Nat, NEW m \in Nat \ {0}, m <= n
  PROVE  /\ CeilHalf(n - m) \in Nat /\ CeilHalf(n - m) < n
         /\ m <= n - CeilHalf(n - m)
         /\ (2 * CeilHalf(n - m)) - (n - m) \in {0, 1}
  <1>1. (n - m) + 1 \in Int /\ n - m \in Nat
    OBVIOUS
  <1>2. QED
    BY <1>1, Half DEF CeilHalf

\* The cuts of the script are in the middle and as large as they are to be.
LEMMA CutOfTheMiddle ==
  ASSUME NEW im, IsImage(im), NEW c \in Nat \ {0}, NEW r \in Nat \ {0},
         c <= im.cols, r <= im.rows,
         NEW a \in Cropped(im, c, r, CeilHalf(im.cols - c), CeilHalf(im.rows - r))
  PROVE  /\ IsImage(a) /\ a.cols = c /\ a.rows = r
         /\ a.cut[1] - a.cut[2] \in {0, 1} /\ a.cut[3] - a.cut[4] \in {0, 1}
  <1> DEFINE x == CeilHalf(im.cols - c)
             y == CeilHalf(im.rows - r)
  <1>1. im.cols \in Nat /\ im.rows \in Nat
    BY DEF IsImage
  <1>2. /\ x \in Nat /\ x < im.cols /\ c <= im.cols - x
        /\ (2 * x) - (im.cols - c) \in {0, 1}
        /\ y \in Nat /\ y < im.rows /\ r <= im.rows - y
        /\ (2 * y) - (im.rows - r) \in {0, 1}
    BY <1>1, HalfBegins
  <1>3. a \in Cropped(im, c, r, x, y)
    OBVIOUS
  <1> HIDE DEF x, y
  <1>4. /\ IsImage(a)
        /\ a.cols = Least(c, im.cols - x) /\ a.rows = Least(r, im.rows - y)
        /\ a.cut[1] - a.cut[2] = (2 * x) - (im.cols - a.cols)
        /\ a.cut[3] - a.cut[4] = (2 * y) - (im.rows - a.rows)
    BY <1>2, <1>3, CroppedInside
  <1>5. a.cols = c /\ a.rows = r
    BY <1>2, <1>4 DEF Least
  <1>6. QED
    BY <1>2, <1>4, <1>5

LEMMA SquareSides ==
  ASSUME NEW im, IsImage(im), NEW a, a.size \in Nat \ {0}, NEW t \in square(im, a)
  PROVE  /\ IsImage(t) /\ t.cols = a.size /\ t.rows = a.size
         /\ t.cut[1] - t.cut[2] \in {0, 1} /\ t.cut[3] - t.cut[4] \in {0, 1}
  <1> DEFINE side == Least(im.cols, im.rows)
  <1>1. PICK s \in Cropped(im, side, side, CeilHalf(im.cols - side), CeilHalf(im.rows - side)) :
           t \in Resized(s, a.size, a.size)
    BY DEF square
  <1>2. side \in Nat \ {0} /\ side <= im.cols /\ side <= im.rows
    BY DEF Least, IsImage
  <1> HIDE DEF side
  <1>3. /\ IsImage(s)
        /\ s.cut[1] - s.cut[2] \in {0, 1} /\ s.cut[3] - s.cut[4] \in {0, 1}
    BY <1>1, <1>2, CutOfTheMiddle
  <1>4. IsImage(t) /\ t.cols = a.size /\ t.rows = a.size /\ t.cut = s.cut
    BY <1>1, <1>3, ResizedSides
  <1>5. QED
    BY <1>3, <1>4

LEMMA LuaCropSides ==
  ASSUME NEW im, IsImage(im), NEW a, a.size \in Nat \ {0}, a.cols = 0, a.rows = 0,
         NEW t \in LuaCrop(im, a)
  PROVE  /\ IsImage(t) /\ t.cols = Least(a.size, im.cols) /\ t.rows = Least(a.size, im.rows)
         /\ t.cut[1] - t.cut[2] \in {0, 1} /\ t.cut[3] - t.cut[4] \in {0, 1}
  <1> DEFINE c == Least(a.size, im.cols)
             r == Least(a.size, im.rows)
  <1>1. t \in Cropped(im, c, r, CeilHalf(im.cols - c), CeilHalf(im.rows - r))
    BY DEF LuaCrop
  <1>2. /\ c \in Nat \ {0} /\ c <= im.cols
        /\ r \in Nat \ {0} /\ r <= im.rows
    BY DEF Least, IsImage
  <1> HIDE DEF c, r
  <1>3. /\ IsImage(t) /\ t.cols = c /\ t.rows = r
        /\ t.cut[1] - t.cut[2] \in {0, 1} /\ t.cut[3] - t.cut[4] \in {0, 1}
    BY <1>1, <1>2, CutOfTheMiddle
  <1>4. QED
    BY <1>3 DEF c, r

LEMMA MaxWidthSides ==
  ASSUME NEW im, IsImage(im), NEW a, a.size \in Nat \ {0}, NEW t \in max_width(im, a)
  PROVE  IsImage(t) /\ t.cols <= a.size
  <1>1. CASE im.cols <= a.size
    BY <1>1 DEF max_width
  <1>2. CASE ~(im.cols <= a.size) /\ ~HasRatio(a)
    <2>1. PICK r \in Ceil(a.size * im.rows, im.cols) : t \in Resized(im, a.size, r)
      BY <1>2 DEF max_width
    <2>2. a.size * im.rows \in Nat \ {0} /\ im.cols \in Nat \ {0}
      BY DEF IsImage
    <2>3. r \in Int
      BY <2>1, <2>2, CeilSome
    <2>4. QED
      BY <2>1, <2>3, ResizedSides
  <1>3. CASE ~(im.cols <= a.size) /\ HasRatio(a)
    <2>1. t \in Cropped(im, a.size, im.rows, 0, 0)
      BY <1>3 DEF max_width
    <2>2. QED
      BY <2>1, CroppedToSize DEF IsImage
  <1>4. QED
    BY <1>1, <1>2, <1>3

\* A quotient as a size is a size.
LEMMA FloorSome ==
  ASSUME NEW n \in Nat, NEW d \in Nat \ {0}
  PROVE  Floor(n, d) # {} /\ \A k \in Floor(n, d) : k \in Nat
  <1>1. n \div d \in Nat /\ (n % d = 0 /\ n > 0 => n \div d > 0)
    <2>1. n = (d * (n \div d)) + (n % d)
      OBVIOUS
    <2>2. n \div d = 0 => d * (n \div d) = 0
      OBVIOUS
    <2>3. QED
      BY <2>1, <2>2, Quotient
  <1>2. QED
    BY <1>1 DEF Floor

\* The cut to the ratio: there is one, and it is of the image.
LEMMA CutToRatioSome ==
  ASSUME NEW im, IsImage(im), NEW a, a.ratio[1] \in Nat, a.ratio[2] \in Nat
  PROVE  CutToRatio(im, a) # {} /\ \A s \in CutToRatio(im, a) : IsImage(s)
  <1> DEFINE cutCols(c) == Cropped(im, Least(c, im.cols), im.rows, 0, 0)
             cutRows(r) == Cropped(im, im.cols, Least(r, im.rows), 0, 0)
             cs == Floor(im.rows * a.ratio[2], a.ratio[1])
             rs == Floor(im.cols * a.ratio[2], a.ratio[1])
  <1>1. im.cols \in Nat /\ im.rows \in Nat
    BY DEF IsImage
  <1>2. HasRatio(a) => /\ cs # {} /\ \A c \in cs : c \in Nat
                       /\ rs # {} /\ \A r \in rs : r \in Nat
    <2>1. im.rows * a.ratio[2] \in Nat /\ im.cols * a.ratio[2] \in Nat
      BY <1>1
    <2>2. QED
      BY <2>1, FloorSome DEF HasRatio
  <1>3. /\ \A c : cutCols(c) # {}
        /\ \A r : cutRows(r) # {}
    BY CroppedSome
  <1>4. /\ \A c \in Nat : \A s \in cutCols(c) : IsImage(s)
        /\ \A r \in Nat : \A s \in cutRows(r) : IsImage(s)
    <2>1. ASSUME NEW c \in Nat, NEW s \in cutCols(c) PROVE IsImage(s)
      <3>1. Least(c, im.cols) \in Nat
        BY <1>1 DEF Least
      <3>2. QED
        BY <1>1, <2>1, <3>1, CroppedWithin DEF Within
    <2>2. ASSUME NEW r \in Nat, NEW s \in cutRows(r) PROVE IsImage(s)
      <3>1. Least(r, im.rows) \in Nat
        BY <1>1 DEF Least
      <3>2. QED
        BY <1>1, <2>2, <3>1, CroppedWithin DEF Within
    <2>3. QED
      BY <2>1, <2>2
  <1>5. CutToRatio(im, a) =
          IF HasRatio(a) /\ im.cols > im.rows /\ Wide(im, a) THEN UNION {cutCols(c) : c \in cs}
          ELSE IF HasRatio(a) /\ Narrow(im, a) THEN UNION {cutRows(r) : r \in rs} ELSE {im}
    BY DEF CutToRatio
  <1> HIDE DEF cutCols, cutRows, cs, rs
  <1>6. HasRatio(a) =>
          /\ UNION {cutCols(c) : c \in cs} # {}
          /\ UNION {cutRows(r) : r \in rs} # {}
    BY <1>2, <1>3
  <1>7. HasRatio(a) =>
          /\ \A s \in UNION {cutCols(c) : c \in cs} : IsImage(s)
          /\ \A s \in UNION {cutRows(r) : r \in rs} : IsImage(s)
    BY <1>2, <1>4
  <1>8. CASE HasRatio(a)
    BY <1>5, <1>6, <1>7, <1>8
  <1>9. CASE ~HasRatio(a)
    BY <1>5, <1>9
  <1>10. QED
    BY <1>8, <1>9

LEMMA MaxSizeSides ==
  ASSUME NEW im, IsImage(im), NEW a, a.size \in Nat \ {0},
         a.ratio[1] \in Nat, a.ratio[2] \in Nat \ {0}, a.ratio[1] <= a.ratio[2],
         NEW t \in max_size(im, a)
  PROVE  IsImage(t) /\ t.cols <= a.size + 1 /\ t.rows <= a.size + 1
  <1> DEFINE fits(side) == HasRatio(a) /\ side * a.ratio[2] < a.size * a.ratio[1]
             sizes == IF im.cols > im.rows
                      THEN {a.size} \X Ceil(a.size * im.rows, im.cols)
                      ELSE Ceil(a.size * im.cols, im.rows) \X {a.size}
  <1>1. ASSUME NEW side \in Nat, fits(side) PROVE side < a.size
    <2>1. side * a.ratio[2] < a.size * a.ratio[1]
      BY <1>1
    <2>2. a.size * a.ratio[1] <= a.size * a.ratio[2]
      OBVIOUS
    <2>3. a.size <= side => a.size * a.ratio[2] <= side * a.ratio[2]
      OBVIOUS
    <2>4. side * a.ratio[2] \in Nat /\ a.size * a.ratio[1] \in Nat /\ a.size * a.ratio[2] \in Nat
      OBVIOUS
    <2>5. QED
      BY <2>1, <2>2, <2>3, <2>4
  <1>2. CASE im.cols <= a.size /\ im.rows <= a.size
    BY <1>2 DEF max_size, IsImage
  <1>3. CASE /\ ~(im.cols <= a.size /\ im.rows <= a.size)
             /\ fits(im.cols) /\ Narrow(im, a)
    <2>1. t \in Cropped(im, im.cols, Least(im.rows, a.size), 0, 0)
      BY <1>3 DEF max_size
    <2>2. Least(im.rows, a.size) \in Nat \ {0} /\ Least(im.rows, a.size) <= a.size
      BY DEF Least, IsImage
    <2>3. IsImage(t) /\ t.cols <= im.cols /\ t.rows <= Least(im.rows, a.size)
      BY <2>1, <2>2, CroppedToSize DEF IsImage
    <2>4. im.cols < a.size
      BY <1>1, <1>3 DEF IsImage
    <2>5. QED
      BY <2>2, <2>3, <2>4 DEF IsImage
  <1>4. CASE /\ ~(im.cols <= a.size /\ im.rows <= a.size)
             /\ ~(fits(im.cols) /\ Narrow(im, a))
             /\ fits(im.rows) /\ Wide(im, a)
    <2>1. t \in Cropped(im, Least(im.cols, a.size), im.rows, 0, 0)
      BY <1>4 DEF max_size
    <2>2. Least(im.cols, a.size) \in Nat \ {0} /\ Least(im.cols, a.size) <= a.size
      BY DEF Least, IsImage
    <2>3. IsImage(t) /\ t.cols <= Least(im.cols, a.size) /\ t.rows <= im.rows
      BY <2>1, <2>2, CroppedToSize DEF IsImage
    <2>4. im.rows < a.size
      BY <1>1, <1>4 DEF IsImage
    <2>5. QED
      BY <2>2, <2>3, <2>4 DEF IsImage
  <1>5. CASE /\ ~(im.cols <= a.size /\ im.rows <= a.size)
             /\ ~(fits(im.cols) /\ Narrow(im, a))
             /\ ~(fits(im.rows) /\ Wide(im, a))
    <2>1. PICK z \in sizes : \E s \in CutToRatio(im, a) : t \in Resized(s, z[1], z[2])
      BY <1>5 DEF max_size
    <2>2. PICK s \in CutToRatio(im, a) : t \in Resized(s, z[1], z[2])
      BY <2>1
    <2>3. IsImage(s)
      BY <2>2, CutToRatioSome
    <2>4. z[1] \in Nat /\ z[1] <= a.size + 1 /\ z[2] \in Nat /\ z[2] <= a.size + 1
      <3>1. /\ a.size * im.rows \in Nat /\ a.size * im.cols \in Nat
            /\ im.cols \in Nat \ {0} /\ im.rows \in Nat \ {0}
        BY DEF IsImage
      <3>2. CASE im.cols > im.rows
        <4>1. a.size * im.rows <= a.size * im.cols
          BY <3>1, <3>2
        <4>2. z[1] = a.size /\ z[2] \in Ceil(a.size * im.rows, im.cols)
          BY <2>1, <3>2
        <4>3. QED
          BY <3>1, <4>1, <4>2, CeilBound
      <3>3. CASE ~(im.cols > im.rows)
        <4>1. a.size * im.cols <= a.size * im.rows
          BY <3>1, <3>3
        <4>2. z[2] = a.size /\ z[1] \in Ceil(a.size * im.cols, im.rows)
          BY <2>1, <3>3
        <4>3. QED
          BY <3>1, <4>1, <4>2, CeilBound
      <3>4. QED
        BY <3>2, <3>3
    <2>5. IsImage(t) /\ t.cols = z[1] /\ t.rows = z[2]
      BY <2>2, <2>3, <2>4, ResizedSides
    <2>6. QED
      BY <2>4, <2>5
  <1>6. QED
    BY <1>2, <1>3, <1>4, <1>5

\* What f() does after the scaling cuts nothing off.
LEMMA LuaFinishedKeeps ==
  ASSUME NEW im, IsImage(im), NEW a, NEW done
  PROVE  LET f == LuaFinished(im, a, done) IN
         /\ f.cut = im.cut
         /\ ~f.missed => ~im.missed
         /\ f.cols = im.cols /\ f.rows = im.rows
  <1> DEFINE f == LuaFinished(im, a, done)
             late == Len(LuaSteps(a)) # Cardinality(done)
  <1>1. f = [im EXCEPT !.turn = IF "rotate" \in done THEN a.rotate ELSE @,
                       !.gray = "gray" \in done,
                       !.quality = IF "quality" \in done THEN a.quality ELSE @,
                       !.fmt = IF "fmt" \in done THEN a.fmt ELSE @,
                       !.missed = @ \/ late]
    BY DEF LuaFinished
  <1> HIDE DEF f, late
  <1>2. f.cut = im.cut /\ f.cols = im.cols /\ f.rows = im.rows
    BY <1>1 DEF IsImage
  <1>3. f.missed <=> im.missed \/ late
    BY <1>1 DEF IsImage
  <1>4. QED
    BY <1>2, <1>3 DEF f

LEMMA LuaScaledCases ==
  ASSUME NEW im, NEW a
  PROVE  /\ a.type = "SQUARE" => LuaScaled(im, a) = square(im, a)
         /\ a.type = "MAX_WIDTH" => LuaScaled(im, a) = max_width(im, a)
         /\ a.type = "MAX_SIZE" => LuaScaled(im, a) = max_size(im, a)
         /\ a.type = "PROPORTION" => LuaScaled(im, a) = LuaProportion(im, a)
         /\ a.type = "CROP" => LuaScaled(im, a) = LuaCrop(im, a)
         /\ a.type \notin {"SQUARE", "MAX_WIDTH", "MAX_SIZE", "PROPORTION", "CROP"} =>
              LuaScaled(im, a) = {im}
  BY DEF LuaScaled

LEMMA TypeFacts ==
  ASSUME NEW t \in DOMAIN TypeList, NEW a, a = TypeList[t]
  PROVE  /\ a.size \in Nat
         /\ a.type \in {"SQUARE", "MAX_WIDTH", "MAX_SIZE", "CROP"} =>
              a.size > 0 /\ a.cols = 0 /\ a.rows = 0
         /\ a.type = "PROPORTION" => a.cols \in Nat \ {0} /\ a.rows \in Nat \ {0}
         /\ a.ratio[1] \in Nat /\ a.ratio[2] \in Nat \ {0} /\ a.ratio[1] <= a.ratio[2]
  BY TypeListAssumption

LEMMA AnswerByScript ==
  ASSUME MadeInv, status = "made", Scripted, NEW im \in answer
  PROVE  /\ Req.t \in DOMAIN TypeList /\ IsImage(Decoded(orig))
         /\ \E t \in LuaScaled(Decoded(orig), TypeList[Req.t]) :
              \E done : im = LuaFinished(t, TypeList[Req.t], done)
  <1>1. im \in lua_convert(orig, Req.t)
    BY DEF MadeInv, Scripted, Results
  <1>2. QED
    BY <1>1, OriginalIsImage DEF MadeInv, lua_convert

LEMMA MadeCentred == MadeInv => Centred
  <1> SUFFICES ASSUME MadeInv,
                      \/ ByArgs /\ ~Positioned /\ Req.p \in {1, 2} /\ Req.w > 0 /\ Req.h > 0
                      \/ /\ status = "made" /\ Scripted
                         /\ TypeList[Req.t].type \in {"SQUARE", "CROP"},
                      NEW im \in answer, ~im.missed
               PROVE  /\ im.cut[1] - im.cut[2] \in {-1, 0, 1}
                      /\ im.cut[3] - im.cut[4] \in {-1, 0, 1}
    BY DEF Centred
  <1>1. CASE ByArgs /\ ~Positioned /\ Req.p \in {1, 2} /\ Req.w > 0 /\ Req.h > 0
    <2>1. Req.w # 0 \/ Req.h # 0
      BY <1>1
    <2>2. /\ IsImage(Own) /\ settings.zoom \in BOOLEAN
          /\ Req.w \in Int /\ Req.h \in Int /\ Req.p \in Int
      BY <1>1, <2>1, AnswerByArgs
    <2>3. PICK a : /\ im.missed = a.missed /\ im.cut = a.cut
                   /\ Proportioned(Own, Req.p,
                                   Clamped(Req.w, Req.p, Own.cols, settings.zoom),
                                   Clamped(Req.h, Req.p, Own.rows, settings.zoom), a)
      BY <1>1, <2>1, AnswerByArgs
    <2>4. ~a.missed
      BY <2>3
    <2> DEFINE c == Clamped(Req.w, Req.p, Own.cols, settings.zoom)
               r == Clamped(Req.h, Req.p, Own.rows, settings.zoom)
    <2>5. c > 0 /\ r > 0
      BY <1>1, <2>2 DEF Clamped, Least, IsImage
    <2> HIDE DEF c, r
    <2>6. a.cut[1] - a.cut[2] \in {-1, 0} /\ a.cut[3] - a.cut[4] \in {-1, 0}
      BY <1>1, <2>3, <2>4, <2>5 DEF Proportioned, c, r
    <2>7. QED
      BY <2>3, <2>6
  <1>2. CASE /\ status = "made" /\ Scripted
             /\ TypeList[Req.t].type \in {"SQUARE", "CROP"}
    <2> DEFINE a == TypeList[Req.t]
               whole == Decoded(orig)
    <2>1. /\ Req.t \in DOMAIN TypeList /\ IsImage(whole)
          /\ \E t \in LuaScaled(whole, a) : \E done : im = LuaFinished(t, a, done)
      BY <1>2, AnswerByScript
    <2>2. PICK t \in LuaScaled(whole, a) : \E done : im = LuaFinished(t, a, done)
      BY <2>1
    <2>3. a.size \in Nat \ {0} /\ a.cols = 0 /\ a.rows = 0
      BY <1>2, <2>1, TypeFacts
    <2>4. a.type \in {"SQUARE", "CROP"}
      BY <1>2
    <2> HIDE DEF a, whole
    <2>5. /\ IsImage(t)
          /\ t.cut[1] - t.cut[2] \in {0, 1} /\ t.cut[3] - t.cut[4] \in {0, 1}
      <3>1. CASE a.type = "SQUARE"
        BY <2>1, <2>2, <2>3, <3>1, LuaScaledCases, SquareSides
      <3>2. CASE a.type = "CROP"
        BY <2>1, <2>2, <2>3, <3>2, LuaScaledCases, LuaCropSides
      <3>3. QED
        BY <2>4, <3>1, <3>2
    <2>6. im.cut = t.cut
      BY <2>2, <2>5, LuaFinishedKeeps
    <2>7. QED
      BY <2>5, <2>6
  <1>3. QED
    BY <1>1, <1>2

\* Whatever image, sizes, list of types and configuration there are: a result
\* that was made has the sides that were asked for, keeps the proportion of the
\* image where only one side or one percentage is given, and shows the middle
\* of the image where a cut is not positioned.
THEOREM ConversionsAsAsked == Spec => []SizeAsAsked
  <1>1. MadeInv => SizeAsAsked
    BY MadeSides, MadeInProportion, MadeCentred DEF SizeAsAsked
  <1>2. QED
    BY <1>1, MadeCorrect, PTL

\* Whatever the image and the list of types: what the script makes of it keeps
\* to the size of its type.
THEOREM ThumbsKeepToSize == Spec => []ThumbsFit
  <1>1. MadeInv => ThumbsFit
    <2> SUFFICES ASSUME MadeInv, status = "made", Scripted, NEW im \in answer
                 PROVE  LET a == TypeList[Req.t]
                            whole == Decoded(orig)
                            sides == {im.cols, im.rows}
                        IN /\ a.type = "SQUARE" => sides = {a.size}
                           /\ a.type = "MAX_SIZE" => \A n \in sides : n <= a.size + 1
                           /\ a.type = "MAX_WIDTH" => im.cols <= a.size
                           /\ a.type = "CROP" => sides = {Least(a.size, whole.cols),
                                                          Least(a.size, whole.rows)}
      BY DEF ThumbsFit
    <2> DEFINE a == TypeList[Req.t]
               whole == Decoded(orig)
    <2>1. /\ Req.t \in DOMAIN TypeList /\ IsImage(whole)
          /\ \E t \in LuaScaled(whole, a) : \E done : im = LuaFinished(t, a, done)
      BY AnswerByScript
    <2>2. PICK t \in LuaScaled(whole, a) : \E done : im = LuaFinished(t, a, done)
      BY <2>1
    <2>3. /\ a.type \in {"SQUARE", "MAX_WIDTH", "MAX_SIZE", "CROP"} =>
               a.size \in Nat \ {0} /\ a.cols = 0 /\ a.rows = 0
          /\ a.ratio[1] \in Nat /\ a.ratio[2] \in Nat \ {0} /\ a.ratio[1] <= a.ratio[2]
      BY <2>1, TypeFacts
    <2> HIDE DEF a, whole
    <2>4. IsImage(t) => im.cols = t.cols /\ im.rows = t.rows
      BY <2>2, LuaFinishedKeeps
    <2>5. a.type = "SQUARE" => {im.cols, im.rows} = {a.size}
      <3> SUFFICES ASSUME a.type = "SQUARE" PROVE {im.cols, im.rows} = {a.size}
        OBVIOUS
      <3>1. IsImage(t) /\ t.cols = a.size /\ t.rows = a.size
        BY <2>1, <2>2, <2>3, LuaScaledCases, SquareSides
      <3>2. QED
        BY <2>4, <3>1
    <2>6. a.type = "MAX_SIZE" => \A n \in {im.cols, im.rows} : n <= a.size + 1
      <3> SUFFICES ASSUME a.type = "MAX_SIZE"
                   PROVE  \A n \in {im.cols, im.rows} : n <= a.size + 1
        OBVIOUS
      <3>1. IsImage(t) /\ t.cols <= a.size + 1 /\ t.rows <= a.size + 1
        BY <2>1, <2>2, <2>3, LuaScaledCases, MaxSizeSides
      <3>2. QED
        BY <2>4, <3>1
    <2>7. a.type = "MAX_WIDTH" => im.cols <= a.size
      <3> SUFFICES ASSUME a.type = "MAX_WIDTH" PROVE im.cols <= a.size
        OBVIOUS
      <3>1. IsImage(t) /\ t.cols <= a.size
        BY <2>1, <2>2, <2>3, LuaScaledCases, MaxWidthSides
      <3>2. QED
        BY <2>4, <3>1
    <2>8. a.type = "CROP" => {im.cols, im.rows} = {Least(a.size, whole.cols),
                                                   Least(a.size, whole.rows)}
      <3> SUFFICES ASSUME a.type = "CROP"
                   PROVE  {im.cols, im.rows} = {Least(a.size, whole.cols),
                                                Least(a.size, whole.rows)}
        OBVIOUS
      <3>1. /\ IsImage(t)
            /\ t.cols = Least(a.size, whole.cols) /\ t.rows = Least(a.size, whole.rows)
        BY <2>1, <2>2, <2>3, LuaScaledCases, LuaCropSides
      <3>2. QED
        BY <2>4, <3>1
    <2>9. QED
      BY <2>5, <2>6, <2>7, <2>8 DEF a, whole
  <1>2. QED
    BY <1>1, MadeCorrect, PTL

-----------------------------------------------------------------------------
(* What is refused *)

LEMMA RoundPositive ==
  ASSUME NEW n \in Nat, NEW d \in Nat \ {0}, ~Vanishes(n, d)
  PROVE  \E k \in Round(n, d) : k \in Nat /\ k > 0
  <1>1. PICK k \in Round(n, d) : k > 0
    BY RoundSome
  <1>2. k \in Nat
    BY RoundNear
  <1>3. QED
    BY <1>1, <1>2

\* A side that does not vanish is some number of pixels.
LEMMA ProportionalRefused ==
  ASSUME NEW im, IsImage(im), NEW c \in Nat, NEW r \in Nat, c > 0 \/ r > 0,
         Proportional(im, c, r) = {}
  PROVE  \/ c > 0 /\ Vanishes(c * im.rows, im.cols)
         \/ r > 0 /\ Vanishes(r * im.cols, im.rows)
  <1>1. /\ c * im.rows \in Nat /\ r * im.cols \in Nat
        /\ im.cols \in Nat \ {0} /\ im.rows \in Nat \ {0}
    BY DEF IsImage
  <1>2. CASE c > 0
    <2>1. SUFFICES ASSUME ~Vanishes(c * im.rows, im.cols) PROVE FALSE
      BY <1>2
    <2>2. PICK k \in Round(c * im.rows, im.cols) : k \in Nat /\ k > 0
      BY <1>1, <2>1, RoundPositive
    <2>3. ResizedToInts(im, c, k) # {}
      BY <1>2, <2>2, ResizedSome
    <2>4. Proportional(im, c, r) =
            UNION {ResizedToInts(im, c, n) : n \in Round(c * im.rows, im.cols)}
      BY <1>2 DEF Proportional
    <2>5. QED
      BY <2>2, <2>3, <2>4
  <1>3. CASE c = 0
    <2>1. SUFFICES ASSUME ~Vanishes(r * im.cols, im.rows) PROVE FALSE
      BY <1>3
    <2>2. PICK k \in Round(r * im.cols, im.rows) : k \in Nat /\ k > 0
      BY <1>1, <2>1, RoundPositive
    <2>3. ResizedToInts(im, k, r) # {}
      BY <1>3, <2>2, ResizedSome
    <2>4. Proportional(im, c, r) =
            UNION {ResizedToInts(im, n, r) : n \in Round(r * im.cols, im.rows)}
      BY <1>3 DEF Proportional
    <2>5. QED
      BY <2>2, <2>3, <2>4
  <1>4. QED
    BY <1>2, <1>3

LEMMA PercentRefused ==
  ASSUME NEW im, IsImage(im), NEW c \in Nat, NEW r \in Nat, Percent(im, c, r) = {}
  PROVE  \/ Vanishes(im.cols * (IF c = 0 THEN r ELSE c), 100)
         \/ Vanishes(im.rows * (IF r = 0 THEN c ELSE r), 100)
  <1> DEFINE pc == IF c = 0 THEN r ELSE c
             pr == IF r = 0 THEN c ELSE r
             ks == Round(im.cols * pc, 100)
             ls == Round(im.rows * pr, 100)
  <1>1. SUFFICES ASSUME ~Vanishes(im.cols * pc, 100), ~Vanishes(im.rows * pr, 100)
                 PROVE  FALSE
    OBVIOUS
  <1>2. Percent(im, c, r) = UNION {ResizedToInts(im, k, l) : k \in ks, l \in ls}
    <2>1. Percentages(c, r)[1] = pc /\ Percentages(c, r)[2] = pr
      BY DEF Percentages
    <2> HIDE DEF pc, pr
    <2>2. QED
      BY <2>1 DEF Percent
  <1>3. pc \in Nat /\ pr \in Nat
    OBVIOUS
  <1> HIDE DEF pc, pr
  <1>4. im.cols * pc \in Nat /\ im.rows * pr \in Nat
    BY <1>3 DEF IsImage
  <1>5. PICK k \in ks : k > 0 /\ k \in Nat
    BY <1>1, <1>4, RoundPositive
  <1>6. PICK l \in ls : l > 0 /\ l \in Nat
    BY <1>1, <1>4, RoundPositive
  <1>7. ResizedToInts(im, k, l) # {}
    BY <1>5, <1>6, ResizedSome
  <1> HIDE DEF ks, ls
  <1>8. QED
    BY <1>2, <1>5, <1>6, <1>7

LEMMA MiddleCutSome ==
  ASSUME NEW im, NEW c, NEW r
  PROVE  MiddleCut(im, c, r) # {}
  <1>1. Middle(im.cols, c) # {} /\ Middle(im.rows, r) # {}
    BY DEF Middle
  <1>2. \A x, y : Cropped(im, c, r, x, y) # {}
    BY CroppedSome
  <1>3. QED
    BY <1>1, <1>2 DEF MiddleCut

\* The image's own size does not make a side vanish.
LEMMA ClampedKeepsSides ==
  ASSUME NEW size \in Int, NEW own \in Nat \ {0}, NEW other \in Nat \ {0},
         NEW n, n = size \/ n = own, Vanishes(n * other, own)
  PROVE  n = size /\ Vanishes(size * other, own)
  <1>1. CASE n = own
    <2>1. own * other \in Nat /\ own <= own * other
      OBVIOUS
    <2>2. QED
      BY <1>1, <2>1 DEF Vanishes
  <1>2. CASE n = size
    BY <1>2
  <1>3. QED
    BY <1>1, <1>2

LEMMA ClampedKeepsPercent ==
  ASSUME NEW v \in Nat, NEW own \in Nat \ {0},
         NEW n, n = v \/ n = Least(v, 100), Vanishes(own * n, 100)
  PROVE  Vanishes(own * v, 100)
  <1>1. CASE n = 100
    BY <1>1 DEF Vanishes
  <1>2. CASE n = v
    BY <1>2
  <1>3. QED
    BY <1>1, <1>2 DEF Least

\* Why proportion may not be possible.
ProportionCause(im, p, w, h, zoom) ==
  \/ p \notin 0..4
  \/ p = 0 /\ 0 \in {w, h}
  \/ (zoom \/ p = 3) /\ (w < 0 \/ h < 0)
  \/ p = 3 /\ \/ Vanishes(im.cols * (IF w = 0 THEN h ELSE w), 100)
              \/ Vanishes(im.rows * (IF h = 0 THEN w ELSE h), 100)
  \/ p \in {1, 4} /\ \/ w > 0 /\ Vanishes(w * im.rows, im.cols)
                     \/ h > 0 /\ Vanishes(h * im.cols, im.rows)

LEMMA ProportionRefused ==
  ASSUME NEW im, IsImage(im), NEW p \in Int, NEW w \in Int, NEW h \in Int, w # 0 \/ h # 0,
         NEW zoom \in BOOLEAN, proportion(im, p, w, h, zoom) = {}
  PROVE  ProportionCause(im, p, w, h, zoom)
  <1> SUFFICES ASSUME ~((zoom \/ p = 3) /\ (w < 0 \/ h < 0))
               PROVE  ProportionCause(im, p, w, h, zoom)
    BY DEF ProportionCause
  <1>1. PICK cols : cols = Clamped(w, p, im.cols, zoom)
    OBVIOUS
  <1>2. PICK rows : rows = Clamped(h, p, im.rows, zoom)
    OBVIOUS
  <1>3. im.cols \in Nat \ {0} /\ im.rows \in Nat \ {0}
    BY DEF IsImage
  <1>4. /\ cols \in Nat /\ (cols = 0 <=> w = 0)
        /\ rows \in Nat /\ (rows = 0 <=> h = 0)
        /\ p # 3 => (cols = w \/ cols = im.cols) /\ (rows = h \/ rows = im.rows)
        /\ p = 3 => /\ w >= 0 /\ h >= 0
                    /\ cols = w \/ cols = Least(w, 100)
                    /\ rows = h \/ rows = Least(h, 100)
    BY <1>1, <1>2, <1>3 DEF Clamped, Least
  <1>5. ASSUME p \in {1, 4},
               \/ cols > 0 /\ Vanishes(cols * im.rows, im.cols)
               \/ rows > 0 /\ Vanishes(rows * im.cols, im.rows)
        PROVE  ProportionCause(im, p, w, h, zoom)
    <2>1. cols > 0 /\ Vanishes(cols * im.rows, im.cols) =>
            w > 0 /\ Vanishes(w * im.rows, im.cols)
      BY <1>3, <1>4, <1>5, ClampedKeepsSides
    <2>2. rows > 0 /\ Vanishes(rows * im.cols, im.rows) =>
            h > 0 /\ Vanishes(h * im.cols, im.rows)
      BY <1>3, <1>4, <1>5, ClampedKeepsSides
    <2>3. QED
      BY <1>5, <2>1, <2>2 DEF ProportionCause
  <1>6. CASE p = 0
    <2>1. Resized(im, cols, rows) = {}
      BY <1>1, <1>2, <1>6, ProportionCases DEF Cases
    <2>2. cols = 0 \/ rows = 0
      BY <1>4, <2>1, ResizedSome
    <2>3. QED
      BY <1>4, <1>6, <2>2 DEF ProportionCause
  <1>7. CASE p = 1
    <2>1. (IF 0 \in {cols, rows} THEN Proportional(im, cols, rows)
           ELSE Fill(im, cols, rows)) = {}
      BY <1>1, <1>2, <1>7, ProportionCases DEF Cases
    <2>2. cols = 0 \/ rows = 0
      BY <1>4, <2>1, FillSome
    <2>3. Proportional(im, cols, rows) = {}
      BY <2>1, <2>2
    <2>4. \/ cols > 0 /\ Vanishes(cols * im.rows, im.cols)
          \/ rows > 0 /\ Vanishes(rows * im.cols, im.rows)
      BY <1>4, <2>3, ProportionalRefused
    <2>5. QED
      BY <1>5, <1>7, <2>4
  <1>8. CASE p = 2
    <2>1. MiddleCut(im, cols, rows) = {}
      BY <1>1, <1>2, <1>8, ProportionCases DEF Cases
    <2>2. QED
      BY <2>1, MiddleCutSome
  <1>9. CASE p = 3
    <2>1. Percent(im, cols, rows) = {}
      BY <1>1, <1>2, <1>9, ProportionCases DEF Cases
    <2>2. \/ Vanishes(im.cols * (IF cols = 0 THEN rows ELSE cols), 100)
          \/ Vanishes(im.rows * (IF rows = 0 THEN cols ELSE rows), 100)
      BY <1>4, <2>1, PercentRefused
    <2> DEFINE pc == IF w = 0 THEN h ELSE w
               pr == IF h = 0 THEN w ELSE h
    <2>3. /\ pc \in Nat /\ pr \in Nat
          /\ LET n == IF cols = 0 THEN rows ELSE cols IN n = pc \/ n = Least(pc, 100)
          /\ LET n == IF rows = 0 THEN cols ELSE rows IN n = pr \/ n = Least(pr, 100)
      BY <1>4, <1>9
    <2>4. Vanishes(im.cols * pc, 100) \/ Vanishes(im.rows * pr, 100)
      <3> HIDE DEF pc, pr
      <3>1. QED
        BY <1>3, <2>2, <2>3, ClampedKeepsPercent
    <2>5. QED
      BY <1>9, <2>4 DEF ProportionCause
  <1>10. CASE p = 4
    <2>1. Fit(im, cols, rows) = {}
      BY <1>1, <1>2, <1>10, ProportionCases DEF Cases
    <2>2. \/ cols > 0 /\ Proportional(im, cols, 0) = {}
          \/ rows > 0 /\ Proportional(im, 0, rows) = {}
      BY <1>4, <2>1 DEF Fit
    <2>3. \/ cols > 0 /\ Vanishes(cols * im.rows, im.cols)
          \/ rows > 0 /\ Vanishes(rows * im.cols, im.rows)
      BY <1>4, <2>2, ProportionalRefused
    <2>4. QED
      BY <1>5, <1>10, <2>3
  <1>11. CASE p \notin 0..4
    BY <1>11 DEF ProportionCause
  <1>12. QED
    BY <1>6, <1>7, <1>8, <1>9, <1>10, <1>11

\* Given a size, convert fails only for a cause.
LEMMA ConvertRefused ==
  ASSUME NEW o \in Originals, NEW req, NEW zoom \in BOOLEAN,
         req.w \in Int, req.h \in Int, req.p \in Int, req.x \in Int, req.y \in Int,
         convert(o, req, zoom) = {}
  PROVE  IF req.x # -1 \/ req.y # -1
         THEN req.x >= Oriented(o).cols \/ req.y >= Oriented(o).rows
         ELSE ProportionCause(Oriented(o), req.p, req.w, req.h, zoom)
  <1> DEFINE im == Oriented(o)
  <1>1. IsImage(im)
    BY OwnIsImage
  <1>2. Scaled(im, req, zoom) = {}
    BY DEF convert
  <1> HIDE DEF im
  <1>3. ~(req.w = 0 /\ req.h = 0)
    BY <1>2 DEF Scaled
  <1>4. CASE req.x # -1 \/ req.y # -1
    <2>1. crop(im, req.x, req.y, req.w, req.h) = {}
      BY <1>2, <1>3, <1>4 DEF Scaled
    <2>2. QED
      BY <1>1, <1>4, <2>1, CropSome DEF im
  <1>5. CASE ~(req.x # -1 \/ req.y # -1)
    <2>1. proportion(im, req.p, req.w, req.h, zoom) = {}
      BY <1>2, <1>3, <1>5 DEF Scaled
    <2>2. ProportionCause(im, req.p, req.w, req.h, zoom)
      BY <1>1, <1>3, <2>1, ProportionRefused
    <2>3. QED
      BY <1>5, <2>2 DEF im
  <1>6. QED
    BY <1>4, <1>5

LEMMA SquareSome ==
  ASSUME NEW im, NEW a, a.size \in Nat \ {0}
  PROVE  square(im, a) # {}
  <1> DEFINE side == Least(im.cols, im.rows)
             cuts == Cropped(im, side, side, CeilHalf(im.cols - side), CeilHalf(im.rows - side))
  <1>1. square(im, a) = UNION {Resized(s, a.size, a.size) : s \in cuts}
    BY DEF square
  <1>2. cuts # {}
    BY CroppedSome
  <1>3. \A s : Resized(s, a.size, a.size) # {}
    BY ResizedSome
  <1> HIDE DEF cuts
  <1>4. QED
    BY <1>1, <1>2, <1>3

\* A side rounded up is one.
LEMMA CeilPositive ==
  ASSUME NEW n \in Nat \ {0}, NEW d \in Nat \ {0}
  PROVE  \E k \in Ceil(n, d) : k \in Nat /\ k > 0
  <1>1. PICK k \in Ceil(n, d) : k \in Nat \ {0}
    BY CeilSome
  <1>2. QED
    BY <1>1

\* A type of fixed width makes something of every image that is not narrow.
LEMMA MaxWidthSome ==
  ASSUME NEW im, IsImage(im), NEW a, a.size \in Nat \ {0}, ~Narrow(im, a)
  PROVE  max_width(im, a) # {}
  <1>1. CASE im.cols <= a.size
    BY <1>1 DEF max_width
  <1>2. CASE ~(im.cols <= a.size) /\ ~HasRatio(a)
    <2> DEFINE rs == Ceil(a.size * im.rows, im.cols)
    <2>1. a.size * im.rows \in Nat \ {0} /\ im.cols \in Nat \ {0}
      BY DEF IsImage
    <2>2. PICK r \in rs : r \in Nat /\ r > 0
      BY <2>1, CeilPositive
    <2>3. Resized(im, a.size, r) # {}
      BY <2>2, ResizedSome
    <2>4. max_width(im, a) = UNION {Resized(im, a.size, n) : n \in rs}
      BY <1>2 DEF max_width
    <2> HIDE DEF rs
    <2>5. QED
      BY <2>2, <2>3, <2>4
  <1>3. CASE ~(im.cols <= a.size) /\ HasRatio(a)
    BY <1>3, CroppedSome DEF max_width
  <1>4. QED
    BY <1>1, <1>2, <1>3

LEMMA MaxSizeSome ==
  ASSUME NEW im, IsImage(im), NEW a, a.size \in Nat \ {0},
         a.ratio[1] \in Nat, a.ratio[2] \in Nat \ {0}
  PROVE  max_size(im, a) # {}
  <1> DEFINE fits(side) == HasRatio(a) /\ side * a.ratio[2] < a.size * a.ratio[1]
             sizes == IF im.cols > im.rows
                      THEN {a.size} \X Ceil(a.size * im.rows, im.cols)
                      ELSE Ceil(a.size * im.cols, im.rows) \X {a.size}
             made(z) == UNION {Resized(s, z[1], z[2]) : s \in CutToRatio(im, a)}
             whole == im.cols <= a.size /\ im.rows <= a.size
             tall == fits(im.cols) /\ Narrow(im, a)
             long == fits(im.rows) /\ Wide(im, a)
  <1>1. max_size(im, a) =
          IF whole THEN {im}
          ELSE IF tall THEN Cropped(im, im.cols, Least(im.rows, a.size), 0, 0)
          ELSE IF long THEN Cropped(im, Least(im.cols, a.size), im.rows, 0, 0)
          ELSE UNION {made(z) : z \in sizes}
    BY DEF max_size
  <1>2. UNION {made(z) : z \in sizes} # {}
    <2>1. /\ a.size * im.rows \in Nat \ {0} /\ a.size * im.cols \in Nat \ {0}
          /\ im.cols \in Nat \ {0} /\ im.rows \in Nat \ {0}
      BY DEF IsImage
    <2>2. PICK k \in Ceil(a.size * im.rows, im.cols) : k \in Nat /\ k > 0
      BY <2>1, CeilPositive
    <2>3. PICK l \in Ceil(a.size * im.cols, im.rows) : l \in Nat /\ l > 0
      BY <2>1, CeilPositive
    <2>4. \E z \in sizes : z[1] \in Nat /\ z[1] > 0 /\ z[2] \in Nat /\ z[2] > 0
      <3>1. CASE im.cols > im.rows
        <4>1. <<a.size, k>> \in sizes
          BY <2>2, <3>1
        <4>2. <<a.size, k>>[1] = a.size /\ <<a.size, k>>[2] = k
          OBVIOUS
        <4>3. QED
          BY <2>2, <4>1, <4>2
      <3>2. CASE ~(im.cols > im.rows)
        <4>1. <<l, a.size>> \in sizes
          BY <2>3, <3>2
        <4>2. <<l, a.size>>[1] = l /\ <<l, a.size>>[2] = a.size
          OBVIOUS
        <4>3. QED
          BY <2>3, <4>1, <4>2
      <3>3. QED
        BY <3>1, <3>2
    <2>5. PICK z \in sizes : z[1] \in Nat /\ z[1] > 0 /\ z[2] \in Nat /\ z[2] > 0
      BY <2>4
    <2>6. PICK s : s \in CutToRatio(im, a)
      BY CutToRatioSome
    <2>7. Resized(s, z[1], z[2]) # {}
      BY <2>5, ResizedSome
    <2>8. made(z) # {}
      BY <2>6, <2>7
    <2> HIDE DEF made, sizes
    <2>9. QED
      BY <2>5, <2>8
  <1>3. /\ Cropped(im, im.cols, Least(im.rows, a.size), 0, 0) # {}
        /\ Cropped(im, Least(im.cols, a.size), im.rows, 0, 0) # {}
    BY CroppedSome
  <1> HIDE DEF made, sizes, whole, tall, long
  <1>4. QED
    BY <1>1, <1>2, <1>3

LEMMA LuaProportionSome ==
  ASSUME NEW im, IsImage(im), NEW a, a.cols \in Nat \ {0}, a.rows \in Nat \ {0}
  PROVE  LuaProportion(im, a) # {}
  <1> DEFINE rs == Ceil(a.cols * im.rows, im.cols)
             cs == Ceil(a.rows * im.cols, im.rows)
             byCols == HasRatio(a) /\ im.cols * a.ratio[2] > a.ratio[1] * im.rows
  <1>1. /\ a.cols * im.rows \in Nat \ {0} /\ a.rows * im.cols \in Nat \ {0}
        /\ im.cols \in Nat \ {0} /\ im.rows \in Nat \ {0}
    BY DEF IsImage
  <1>2. PICK r \in rs : r \in Nat /\ r > 0
    BY <1>1, CeilPositive
  <1>3. PICK c \in cs : c \in Nat /\ c > 0
    BY <1>1, CeilPositive
  <1>4. Resized(im, a.cols, r) # {} /\ Resized(im, c, a.rows) # {}
    <2> HIDE DEF rs, cs, byCols
    <2>1. a.cols \in Int /\ a.cols > 0 /\ a.rows \in Int /\ a.rows > 0
      OBVIOUS
    <2>2. Resized(im, a.cols, r) # {}
      BY <1>2, <2>1, ResizedSome
    <2>3. Resized(im, c, a.rows) # {}
      BY <1>3, <2>1, ResizedSome
    <2>4. QED
      BY <2>2, <2>3
  <1>5. LuaProportion(im, a) =
          IF byCols THEN IF im.cols < a.cols THEN {im}
                         ELSE UNION {Resized(im, a.cols, n) : n \in rs}
          ELSE IF im.rows < a.rows THEN {im} ELSE UNION {Resized(im, n, a.rows) : n \in cs}
    BY DEF LuaProportion
  <1> HIDE DEF rs, cs, byCols
  <1>6. /\ UNION {Resized(im, a.cols, n) : n \in rs} # {}
        /\ UNION {Resized(im, n, a.rows) : n \in cs} # {}
    BY <1>2, <1>3, <1>4
  <1>7. QED
    BY <1>5, <1>6

\* Of the types of the list only one with a fixed width and a ratio refuses.
LEMMA LuaRefused ==
  ASSUME NEW o \in Originals, NEW t \in DOMAIN TypeList, lua_convert(o, t) = {},
         NEW a, a = TypeList[t]
  PROVE  a.type = "MAX_WIDTH" /\ Narrow(Decoded(o), a)
  <1> DEFINE im == Decoded(o)
  <1>1. IsImage(im)
    BY OriginalIsImage
  <1>2. LuaScaled(im, a) = {}
    <2>1. {} \in SUBSET Range(LuaSteps(a))
      OBVIOUS
    <2>2. \A s \in LuaScaled(im, a) : LuaFinished(s, a, {}) \in lua_convert(o, t)
      BY <2>1 DEF lua_convert
    <2>3. QED
      BY <2>2
  <1>3. /\ a.type \in {"SQUARE", "MAX_WIDTH", "MAX_SIZE", "CROP"} => a.size \in Nat \ {0}
        /\ a.type = "PROPORTION" => a.cols \in Nat \ {0} /\ a.rows \in Nat \ {0}
        /\ a.ratio[1] \in Nat /\ a.ratio[2] \in Nat \ {0}
    BY TypeFacts
  <1> HIDE DEF im
  <1>4. a.type # "SQUARE"
    BY <1>2, <1>3, LuaScaledCases, SquareSome
  <1>5. a.type # "MAX_SIZE"
    BY <1>1, <1>2, <1>3, LuaScaledCases, MaxSizeSome
  <1>6. a.type # "PROPORTION"
    BY <1>1, <1>2, <1>3, LuaScaledCases, LuaProportionSome
  <1>7. a.type # "CROP"
    BY <1>2, LuaScaledCases, CroppedSome DEF LuaCrop
  <1>8. a.type = "MAX_WIDTH"
    BY <1>2, <1>4, <1>5, <1>6, <1>7, LuaScaledCases
  <1>9. Narrow(im, a)
    BY <1>1, <1>2, <1>3, <1>8, LuaScaledCases, MaxWidthSome
  <1>10. QED
    BY <1>8, <1>9 DEF im

\* Whatever image, sizes, list of types and configuration there are: a request
\* that no run of ImageMagick could satisfy is one with a p that is not known, a
\* size missing for p = 0, a negative size that disable_zoom_up has not replaced,
\* a position outside of the image, a side that rounds to nothing, a type that is
\* not known, or an image that is narrow for a type of fixed width with a ratio.
THEOREM RefusesForCause == Spec => []RefusedForCause
  <1>1. MadeInv => RefusedForCause
    <2> SUFFICES ASSUME MadeInv, status = "impossible" PROVE RefusedForCause
      BY DEF RefusedForCause
    <2>1. Results(orig, Req, settings) = {} /\ settings.zoom \in BOOLEAN
      BY SettingsAssumption DEF MadeInv
    <2>2. CASE Scripted
      <3>1. lua_convert(orig, Req.t) = {}
        BY <2>1, <2>2 DEF Scripted, Results
      <3>2. Req.t \in DOMAIN TypeList =>
              TypeList[Req.t].type = "MAX_WIDTH" /\ Narrow(Decoded(orig), TypeList[Req.t])
        BY <3>1, LuaRefused DEF MadeInv
      <3>3. QED
        BY <2>2, <3>2 DEF RefusedForCause
    <2>3. CASE ~Scripted
      <3>1. convert(orig, Req, settings.zoom) = {}
        BY <2>1, <2>3 DEF Scripted, Results
      <3>2. /\ Req.w \in Int /\ Req.h \in Int /\ Req.p \in Int
            /\ Req.x \in Int /\ Req.y \in Int
        BY ReadType DEF MadeInv, Req
      <3>3. IF Positioned THEN Req.x >= Own.cols \/ Req.y >= Own.rows
            ELSE ProportionCause(Own, Req.p, Req.w, Req.h, settings.zoom)
        BY <2>1, <3>1, <3>2, ConvertRefused DEF MadeInv, Positioned, Own
      <3>4. QED
        BY <2>3, <3>3 DEF RefusedForCause, ProportionCause
    <2>4. QED
      BY <2>2, <2>3
  <1>2. QED
    BY <1>1, MadeCorrect, PTL

-----------------------------------------------------------------------------
(* Types *)

LEMMA ScaledImage ==
  ASSUME NEW im, IsImage(im), NEW req, NEW zoom \in BOOLEAN,
         req.w \in Int, req.h \in Int, req.p \in Int, req.x \in Int, req.y \in Int,
         NEW a \in Scaled(im, req, zoom)
  PROVE  IsImage(a)
  <1>1. CASE req.w = 0 /\ req.h = 0
    BY <1>1 DEF Scaled
  <1>2. CASE ~(req.w = 0 /\ req.h = 0) /\ req.x = -1 /\ req.y = -1
    <2>1. a \in proportion(im, req.p, req.w, req.h, zoom)
      BY <1>2 DEF Scaled
    <2>2. Proportioned(im, req.p, Clamped(req.w, req.p, im.cols, zoom),
                       Clamped(req.h, req.p, im.rows, zoom), a)
      BY <1>2, <2>1, ProportionSides
    <2>3. QED
      BY <2>2 DEF Proportioned
  <1>3. CASE ~(req.w = 0 /\ req.h = 0) /\ ~(req.x = -1 /\ req.y = -1)
    <2>1. a \in crop(im, req.x, req.y, req.w, req.h)
      BY <1>3 DEF Scaled
    <2>2. QED
      BY <2>1, CropWithin DEF Within
  <1>4. QED
    BY <1>1, <1>2, <1>3

LEMMA FinishedImage ==
  ASSUME NEW im, IsImage(im), NEW req, req.q \in Int \ {0}
  PROVE  IsImage(Finished(im, req)) /\ Finished(im, req).quality # 0
  <1> DEFINE f == Finished(im, req)
  <1>1. f = [im EXCEPT !.turn = req.r,
                       !.gray = @ \/ req.g = 1,
                       !.quality = IF @ = 0 \/ @ > req.q THEN req.q ELSE @,
                       !.fmt = IF req.f \in NoneFormats THEN @ ELSE req.f]
    BY DEF Finished
  <1> HIDE DEF f
  <1>2. /\ DOMAIN f = DOMAIN im /\ f.cols = im.cols /\ f.rows = im.rows
        /\ f.quality = IF im.quality = 0 \/ im.quality > req.q THEN req.q ELSE im.quality
    BY <1>1 DEF IsImage
  <1>3. IsImage(f) /\ f.quality # 0
    BY <1>2 DEF IsImage
  <1>4. QED
    BY <1>3 DEF f

LEMMA LuaProportionImage ==
  ASSUME NEW im, IsImage(im), NEW a, a.cols \in Nat \ {0}, a.rows \in Nat \ {0},
         NEW t \in LuaProportion(im, a)
  PROVE  IsImage(t)
  <1> DEFINE rs == Ceil(a.cols * im.rows, im.cols)
             cs == Ceil(a.rows * im.cols, im.rows)
  <1>1. /\ a.cols * im.rows \in Nat \ {0} /\ a.rows * im.cols \in Nat \ {0}
        /\ im.cols \in Nat \ {0} /\ im.rows \in Nat \ {0}
    BY DEF IsImage
  <1>2. (\A r \in rs : r \in Int) /\ (\A c \in cs : c \in Int)
    <2>1. \A r \in rs : r \in Nat \ {0}
      BY <1>1, CeilSome
    <2>2. \A c \in cs : c \in Nat \ {0}
      BY <1>1, CeilSome
    <2> HIDE DEF rs, cs
    <2>3. QED
      BY <2>1, <2>2
  <1>3. \/ t = im
        \/ \E r \in rs : t \in Resized(im, a.cols, r)
        \/ \E c \in cs : t \in Resized(im, c, a.rows)
    BY DEF LuaProportion
  <1> HIDE DEF rs, cs
  <1>4. CASE t = im
    BY <1>4
  <1>5. ASSUME NEW r \in rs, t \in Resized(im, a.cols, r) PROVE IsImage(t)
    BY <1>2, <1>5, ResizedSides
  <1>6. ASSUME NEW c \in cs, t \in Resized(im, c, a.rows) PROVE IsImage(t)
    BY <1>2, <1>6, ResizedSides
  <1>7. QED
    BY <1>3, <1>4, <1>5, <1>6

LEMMA LuaScaledImage ==
  ASSUME NEW im, IsImage(im), NEW ty \in DOMAIN TypeList, NEW a, a = TypeList[ty],
         NEW t \in LuaScaled(im, a)
  PROVE  IsImage(t)
  <1>1. /\ a.type \in {"SQUARE", "MAX_WIDTH", "MAX_SIZE", "CROP"} =>
             a.size \in Nat \ {0} /\ a.cols = 0 /\ a.rows = 0
        /\ a.type = "PROPORTION" => a.cols \in Nat \ {0} /\ a.rows \in Nat \ {0}
        /\ a.ratio[1] \in Nat /\ a.ratio[2] \in Nat \ {0} /\ a.ratio[1] <= a.ratio[2]
    BY TypeFacts
  <1>2. CASE a.type = "SQUARE"
    BY <1>1, <1>2, LuaScaledCases, SquareSides
  <1>3. CASE a.type = "MAX_WIDTH"
    BY <1>1, <1>3, LuaScaledCases, MaxWidthSides
  <1>4. CASE a.type = "MAX_SIZE"
    BY <1>1, <1>4, LuaScaledCases, MaxSizeSides
  <1>5. CASE a.type = "PROPORTION"
    BY <1>1, <1>5, LuaScaledCases, LuaProportionImage
  <1>6. CASE a.type = "CROP"
    BY <1>1, <1>6, LuaScaledCases, LuaCropSides
  <1>7. CASE a.type \notin {"SQUARE", "MAX_WIDTH", "MAX_SIZE", "PROPORTION", "CROP"}
    BY <1>7, LuaScaledCases
  <1>8. QED
    BY <1>2, <1>3, <1>4, <1>5, <1>6, <1>7

LEMMA JoinedRange ==
  ASSUME NEW T, NEW s \in Seq(T), NEW t \in Seq(T)
  PROVE  /\ s \o t \in Seq(T) /\ Len(s \o t) = Len(s) + Len(t)
         /\ Range(s \o t) \subseteq Range(s) \union Range(t)
  <1>1. s \o t \in Seq(T) /\ Len(s \o t) = Len(s) + Len(t)
    OBVIOUS
  <1>2. ASSUME NEW i \in DOMAIN (s \o t)
        PROVE  (s \o t)[i] \in Range(s) \union Range(t)
    <2>1. i \in 1 .. Len(s) + Len(t)
      OBVIOUS
    <2>2. CASE i <= Len(s)
      <3>1. i \in DOMAIN s /\ (s \o t)[i] = s[i]
        BY <2>1, <2>2
      <3>2. QED
        BY <3>1 DEF Range
    <2>3. CASE ~(i <= Len(s))
      <3>1. i - Len(s) \in DOMAIN t /\ (s \o t)[i] = t[i - Len(s)]
        BY <2>1, <2>3
      <3>2. QED
        BY <3>1 DEF Range
    <2>4. QED
      BY <2>2, <2>3
  <1>3. QED
    BY <1>1, <1>2 DEF Range

LEMMA StepOrNone ==
  ASSUME NEW T, NEW x \in T, NEW s, NEW S, \/ s = <<x>> /\ S = {x}
                                           \/ s = <<>> /\ S = {}
  PROVE  /\ s \in Seq(T) /\ Len(s) \in Nat /\ Range(s) \subseteq S
         /\ IsFiniteSet(S) /\ Cardinality(S) <= Len(s)
  <1>1. CASE s = <<x>> /\ S = {x}
    <2>1. IsFiniteSet(S) /\ Cardinality(S) = 1
      BY <1>1, FS_Singleton
    <2>2. s \in Seq(T) /\ Len(s) = 1 /\ DOMAIN s = {1} /\ s[1] = x
      BY <1>1
    <2>3. QED
      BY <1>1, <2>1, <2>2 DEF Range
  <1>2. CASE s = <<>> /\ S = {}
    <2>1. IsFiniteSet(S) /\ Cardinality(S) = 0
      BY <1>2, FS_EmptySet
    <2>2. s \in Seq(T) /\ Len(s) = 0 /\ DOMAIN s = {}
      BY <1>2
    <2>3. QED
      BY <1>2, <2>1, <2>2 DEF Range
  <1>3. QED
    BY <1>1, <1>2

\* Some steps that are all of them as to their number include the quality.
LEMMA AllStepsDone ==
  ASSUME NEW a, a.quality > 0, NEW done \in SUBSET Range(LuaSteps(a)),
         Len(LuaSteps(a)) = Cardinality(done)
  PROVE  "quality" \in done
  <1> DEFINE r == IF a.rotate > 0 THEN <<"rotate">> ELSE <<>>
             g == IF a.gray = 1 THEN <<"gray">> ELSE <<>>
             f == IF a.fmt # "" THEN <<"fmt">> ELSE <<>>
             R == IF a.rotate > 0 THEN {"rotate"} ELSE {}
             G == IF a.gray = 1 THEN {"gray"} ELSE {}
             F == IF a.fmt # "" THEN {"fmt"} ELSE {}
             q == <<"quality">>
             T == {"rotate", "gray", "quality", "fmt"}
  <1>1. LuaSteps(a) = ((r \o g) \o q) \o f
    BY DEF LuaSteps
  <1>2. /\ \/ r = <<"rotate">> /\ R = {"rotate"}
           \/ r = <<>> /\ R = {}
        /\ \/ g = <<"gray">> /\ G = {"gray"}
           \/ g = <<>> /\ G = {}
        /\ \/ f = <<"fmt">> /\ F = {"fmt"}
           \/ f = <<>> /\ F = {}
        /\ q = <<"quality">>
        /\ "rotate" \in T /\ "gray" \in T /\ "fmt" \in T /\ "quality" \in T
    OBVIOUS
  <1> HIDE DEF r, g, f, q, R, G, F, T
  <1>3. /\ r \in Seq(T) /\ Len(r) \in Nat /\ Range(r) \subseteq R
        /\ IsFiniteSet(R) /\ Cardinality(R) <= Len(r)
    BY <1>2, StepOrNone
  <1>4. /\ g \in Seq(T) /\ Len(g) \in Nat /\ Range(g) \subseteq G
        /\ IsFiniteSet(G) /\ Cardinality(G) <= Len(g)
    BY <1>2, StepOrNone
  <1>5. /\ f \in Seq(T) /\ Len(f) \in Nat /\ Range(f) \subseteq F
        /\ IsFiniteSet(F) /\ Cardinality(F) <= Len(f)
    BY <1>2, StepOrNone
  <1>6. q \in Seq(T) /\ Range(q) \subseteq {"quality"} /\ Len(q) = 1
    <2>1. q \in Seq(T) /\ Range(q) \subseteq {"quality"}
      BY <1>2, StepOrNone
    <2>2. QED
      BY <1>2, <2>1
  <1>7. /\ Len(LuaSteps(a)) = Len(r) + Len(g) + 1 + Len(f)
        /\ Range(LuaSteps(a)) \subseteq (R \union G) \union ({"quality"} \union F)
    <2>1. /\ r \o g \in Seq(T) /\ Len(r \o g) = Len(r) + Len(g)
          /\ Range(r \o g) \subseteq Range(r) \union Range(g)
      BY <1>3, <1>4, JoinedRange
    <2>2. /\ (r \o g) \o q \in Seq(T) /\ Len((r \o g) \o q) = Len(r \o g) + Len(q)
          /\ Range((r \o g) \o q) \subseteq Range(r \o g) \union Range(q)
      BY <1>6, <2>1, JoinedRange
    <2>3. /\ Len(((r \o g) \o q) \o f) = Len((r \o g) \o q) + Len(f)
          /\ Range(((r \o g) \o q) \o f) \subseteq Range((r \o g) \o q) \union Range(f)
      BY <1>5, <2>2, JoinedRange
    <2>4. Len(LuaSteps(a)) = Len(r) + Len(g) + 1 + Len(f)
      BY <1>1, <1>3, <1>4, <1>5, <1>6, <2>1, <2>2, <2>3
    <2>5. Range(LuaSteps(a)) \subseteq (R \union G) \union ({"quality"} \union F)
      BY <1>1, <1>3, <1>4, <1>5, <1>6, <2>1, <2>2, <2>3
    <2>6. QED
      BY <2>4, <2>5
  <1>8. SUFFICES ASSUME "quality" \notin done PROVE FALSE
    OBVIOUS
  <1>9. done \in SUBSET ((R \union G) \union F)
    BY <1>7, <1>8
  <1>10. /\ IsFiniteSet((R \union G) \union F)
         /\ Cardinality((R \union G) \union F) <= Len(r) + Len(g) + Len(f)
    <2>1. /\ IsFiniteSet(R \union G)
          /\ Cardinality(R \union G) =
               Cardinality(R) + Cardinality(G) - Cardinality(R \intersect G)
      BY <1>3, <1>4, FS_Union
    <2>2. /\ IsFiniteSet((R \union G) \union F)
          /\ Cardinality((R \union G) \union F) =
               Cardinality(R \union G) + Cardinality(F)
               - Cardinality((R \union G) \intersect F)
      BY <1>5, <2>1, FS_Union
    <2>3. /\ IsFiniteSet(R \intersect G) /\ IsFiniteSet((R \union G) \intersect F)
      BY <1>3, <2>1, FS_Intersection
    <2>4. /\ Cardinality(R \intersect G) \in Nat
          /\ Cardinality((R \union G) \intersect F) \in Nat
          /\ Cardinality(R) \in Nat /\ Cardinality(G) \in Nat /\ Cardinality(F) \in Nat
      BY <1>3, <1>4, <1>5, <2>3, FS_CardinalityType
    <2>5. QED
      BY <1>3, <1>4, <1>5, <2>1, <2>2, <2>4
  <1>11. IsFiniteSet(done) /\ Cardinality(done) <= Cardinality((R \union G) \union F)
    BY <1>9, <1>10, FS_Subset
  <1>12. Cardinality(done) \in Nat /\ Cardinality((R \union G) \union F) \in Nat
    BY <1>10, <1>11, FS_CardinalityType
  <1>13. QED
    BY <1>3, <1>4, <1>5, <1>7, <1>10, <1>11, <1>12

LEMMA LuaFinishedImage ==
  ASSUME NEW im, IsImage(im), NEW ty \in DOMAIN TypeList, NEW a, a = TypeList[ty],
         NEW done \in SUBSET Range(LuaSteps(a))
  PROVE  LET f == LuaFinished(im, a, done)
         IN IsImage(f) /\ (~f.missed => f.quality # 0)
  <1> DEFINE f == LuaFinished(im, a, done)
             late == Len(LuaSteps(a)) # Cardinality(done)
  <1>2. a.quality \in Nat /\ a.quality > 0
    BY TypeListAssumption
  <1>3. f = [im EXCEPT !.turn = IF "rotate" \in done THEN a.rotate ELSE @,
                       !.gray = "gray" \in done,
                       !.quality = IF "quality" \in done THEN a.quality ELSE @,
                       !.fmt = IF "fmt" \in done THEN a.fmt ELSE @,
                       !.missed = @ \/ late]
    BY DEF LuaFinished
  <1> HIDE DEF f, late
  <1>4. /\ DOMAIN f = DOMAIN im /\ f.cols = im.cols /\ f.rows = im.rows
        /\ f.quality = IF "quality" \in done THEN a.quality ELSE im.quality
    BY <1>3 DEF IsImage
  <1>5. f.missed <=> im.missed \/ late
    BY <1>3 DEF IsImage
  <1>6. IsImage(f)
    BY <1>2, <1>4 DEF IsImage
  <1>7. ~f.missed => "quality" \in done
    BY <1>2, <1>5, AllStepsDone DEF late
  <1>8. ~f.missed => f.quality # 0
    BY <1>2, <1>4, <1>7
  <1>9. QED
    BY <1>6, <1>8 DEF f

LEMMA ConvertImage ==
  ASSUME NEW o \in Originals, NEW req, NEW zoom \in BOOLEAN,
         req.w \in Int, req.h \in Int, req.p \in Int, req.x \in Int, req.y \in Int,
         req.q \in Int \ {0}, NEW im \in convert(o, req, zoom)
  PROVE  IsImage(im) /\ im.quality # 0
  <1>1. PICK a \in Scaled(Oriented(o), req, zoom) : im = Finished(a, req)
    BY DEF convert
  <1>2. IsImage(a)
    BY OwnIsImage, ScaledImage
  <1>3. QED
    BY <1>1, <1>2, FinishedImage

\* Results are images, and have a quality unless a call failed.
LEMMA ResultImage ==
  ASSUME NEW o \in Originals, NEW q \in Queries, NEW s \in Settings,
         NEW s2, s2.zoom \in BOOLEAN, NEW im \in Results(o, Read(q, s), s2)
  PROVE  IsImage(im) /\ (~im.missed => im.quality # 0)
  <1> DEFINE req == Read(q, s)
  <1>1. CASE ByScript(req, s2)
    <2>1. im \in lua_convert(o, req.t)
      BY <1>1 DEF Results
    <2>2. /\ req.t \in DOMAIN TypeList
          /\ \E t \in LuaScaled(Decoded(o), TypeList[req.t]) :
               \E done \in SUBSET Range(LuaSteps(TypeList[req.t])) :
                 im = LuaFinished(t, TypeList[req.t], done)
      BY <2>1 DEF lua_convert
    <2>3. PICK a : a = TypeList[req.t]
      OBVIOUS
    <2>4. PICK t \in LuaScaled(Decoded(o), a), done \in SUBSET Range(LuaSteps(a)) :
             im = LuaFinished(t, a, done)
      BY <2>2, <2>3
    <2>5. IsImage(t)
      BY <2>2, <2>3, <2>4, OriginalIsImage, LuaScaledImage
    <2>6. QED
      BY <2>2, <2>3, <2>4, <2>5, LuaFinishedImage
  <1>2. CASE ~ByScript(req, s2)
    <2>1. im \in convert(o, req, s2.zoom)
      BY <1>2 DEF Results
    <2>2. /\ req.w \in Int /\ req.h \in Int /\ req.p \in Int
          /\ req.x \in Int /\ req.y \in Int
      BY ReadType
    <2>3. req.q \in Int \ {0}
      <3>1. q.q \in Int /\ s.quality \in 1..100
        BY QueriesAssumption, SettingsAssumption, MaxIntAssumption DEF IsQuery, Ints
      <3>2. PICK a : a = IF s.args THEN q ELSE NoArgs
        OBVIOUS
      <3>3. a.q \in Int
        <4>1. NoArgs.q \in Int
          BY DEF NoArgs
        <4>2. a = q \/ a = NoArgs
          BY <3>2
        <4>3. QED
          BY <3>1, <4>1, <4>2
      <3>4. req.q = IF a.q # 0 THEN a.q ELSE s.quality
        BY <3>2 DEF Read
      <3>5. QED
        BY <3>1, <3>3, <3>4
    <2> HIDE DEF req
    <2>4. QED
      BY <2>1, <2>2, <2>3, ConvertImage
  <1>3. QED
    BY <1>1, <1>2

TypeInv ==
  /\ settings \in Settings /\ orig \in Originals
  /\ query \in Queries \union {NoArgs}
  /\ IsFiniteSet(DOMAIN kept) /\ Cardinality(DOMAIN kept) <= MaxKept
  /\ status \in {"none", "original", "kept", "made", "impossible"}
  /\ answer = {} <=> status \in {"none", "impossible"}
  /\ status = "original" => answer = {Decoded(orig)}
  /\ status = "kept" => query \in Queries

LEMMA InitTyped == Init => TypeInv
  <1> SUFFICES ASSUME Init PROVE TypeInv
    OBVIOUS
  <1>1. DOMAIN kept = {}
    BY DEF Init
  <1>2. IsFiniteSet(DOMAIN kept) /\ Cardinality(DOMAIN kept) = 0
    BY <1>1, FS_EmptySet
  <1>3. QED
    BY <1>2, MaxKeptAssumption DEF Init, TypeInv

LEMMA NextTyped == TypeInv /\ [Next]_vars => TypeInv'
  <1> SUFFICES ASSUME TypeInv, [Next]_vars PROVE TypeInv'
    OBVIOUS
  <1>1. CASE Restart \/ Taken
    BY <1>1 DEF TypeInv, Restart, Taken
  <1>2. CASE Forget
    <2>1. PICK k \in DOMAIN kept : kept' = [x \in DOMAIN kept \ {k} |-> kept[x]]
      BY <1>2 DEF Forget
    <2>2. DOMAIN kept' = DOMAIN kept \ {k}
      BY <2>1
    <2>3. /\ IsFiniteSet(DOMAIN kept')
          /\ Cardinality(DOMAIN kept') = Cardinality(DOMAIN kept) - 1
      <3>1. PICK D : D = DOMAIN kept
        OBVIOUS
      <3>2. IsFiniteSet(D)
        BY <3>1 DEF TypeInv
      <3>3. k \in D
        BY <2>1, <3>1
      <3>4. IsFiniteSet(D \ {k}) /\ Cardinality(D \ {k}) = Cardinality(D) - 1
        BY <3>2, <3>3, FS_RemoveElement
      <3>5. QED
        BY <2>2, <3>1, <3>4
    <2>4. Cardinality(DOMAIN kept) \in Nat
      BY FS_CardinalityType DEF TypeInv
    <2>5. IsFiniteSet(DOMAIN kept') /\ Cardinality(DOMAIN kept') <= MaxKept
      BY <2>3, <2>4, MaxKeptAssumption DEF TypeInv
    <2>6. QED
      BY <1>2, <2>5 DEF TypeInv, Forget
  <1>3. ASSUME NEW q \in Queries, Get(q) PROVE TypeInv'
    <2>1. CASE GetOriginal(q)
      BY <2>1 DEF TypeInv, GetOriginal, Answer
    <2>2. CASE GetKept(q)
      BY <2>2 DEF TypeInv, GetKept, Answer
    <2>3. CASE GetConverted(q)
      <3>1. /\ settings' = settings /\ orig' = orig /\ query' = q
            /\ \/ status' = "made" /\ \E im : answer' = {im}
               \/ status' = "impossible" /\ answer' = {}
        BY <2>3 DEF GetConverted, Answer
      <3>2. kept' = kept \/ \E im : Keep(Key(Read(q, settings), settings), im)
        BY <2>3 DEF GetConverted
      <3>3. IsFiniteSet(DOMAIN kept') /\ Cardinality(DOMAIN kept') <= MaxKept
        <4>1. CASE kept' = kept
          BY <4>1 DEF TypeInv
        <4>2. CASE kept' # kept
          <5> DEFINE c == Key(Read(q, settings), settings)
          <5> HIDE DEF c
          <5>1. ~(Cardinality(DOMAIN kept) >= MaxKept) /\ DOMAIN kept' = DOMAIN kept \union {c}
            <6>1. PICK im : Keep(c, im)
              BY <3>2, <4>2 DEF c
            <6>2. ~(Cardinality(DOMAIN kept) >= MaxKept)
              BY <4>2, <6>1 DEF Keep
            <6>3. kept' = [x \in DOMAIN kept \union {c} |-> IF x = c THEN im ELSE kept[x]]
              BY <6>1, <6>2 DEF Keep
            <6>4. QED
              BY <6>2, <6>3
          <5>2. IsFiniteSet(DOMAIN kept) /\ Cardinality(DOMAIN kept) \in Nat
            BY FS_CardinalityType DEF TypeInv
          <5>3. /\ IsFiniteSet(DOMAIN kept')
                /\ Cardinality(DOMAIN kept') <= Cardinality(DOMAIN kept) + 1
            <6>1. PICK D : D = DOMAIN kept
              OBVIOUS
            <6>2. IsFiniteSet(D) /\ Cardinality(D) \in Nat
              BY <5>2, <6>1
            <6>3. /\ IsFiniteSet(D \union {c})
                  /\ Cardinality(D \union {c}) =
                       IF c \in D THEN Cardinality(D) ELSE Cardinality(D) + 1
              BY <6>2, FS_AddElement
            <6>4. Cardinality(D \union {c}) <= Cardinality(D) + 1
              BY <6>2, <6>3
            <6>5. QED
              BY <5>1, <6>1, <6>3, <6>4
          <5>4. Cardinality(DOMAIN kept') \in Nat
            BY <5>3, FS_CardinalityType
          <5>5. QED
            BY <5>1, <5>2, <5>3, <5>4, MaxKeptAssumption
        <4>3. QED
          BY <4>1, <4>2
      <3>4. QED
        BY <3>1, <3>3 DEF TypeInv
    <2>4. QED
      BY <1>3, <2>1, <2>2, <2>3 DEF Get
  <1>4. CASE UNCHANGED vars
    BY <1>4 DEF TypeInv, vars
  <1>5. QED
    BY <1>1, <1>2, <1>3, <1>4 DEF Next

\* Type correctness: whatever is answered is an image with columns and rows, and
\* but for the original itself and for calls that failed it has a quality; no
\* more is kept than may be.
THEOREM TypesCorrect == Spec => []TypeOK
  <1>1. TypeInv /\ MadeInv /\ KeptAsMade => TypeOK
    <2> SUFFICES ASSUME TypeInv, MadeInv, KeptAsMade PROVE TypeOK
      OBVIOUS
    <2>1. ASSUME NEW im \in answer
          PROVE  /\ im.cols > 0 /\ im.rows > 0
                 /\ status # "original" /\ ~im.missed => im.quality # 0
      <3>1. CASE status = "original"
        <4>1. im = Decoded(orig)
          BY <2>1, <3>1 DEF TypeInv
        <4>2. QED
          BY <3>1, <4>1, OriginalIsImage DEF TypeInv, IsImage
      <3>2. CASE status = "made"
        <4>1. im \in Results(orig, Read(query, settings), settings)
          BY <2>1, <3>2 DEF MadeInv, Req
        <4>2. query \in Queries /\ settings.zoom \in BOOLEAN
          BY <3>2, SettingsAssumption DEF MadeInv
        <4>3. IsImage(im) /\ (~im.missed => im.quality # 0)
          BY <4>1, <4>2, ResultImage DEF MadeInv
        <4>4. QED
          BY <4>3 DEF IsImage
      <3>3. CASE status = "kept"
        <4>1. PICK z \in BOOLEAN :
                 \/ im \in Results(orig, Read(query, settings), [settings EXCEPT !.zoom = z])
                 \/ /\ Req.t \in DOMAIN Spells
                    /\ im \in convert(orig, Spells[Req.t], z)
          BY <2>1, <3>3 DEF KeptAsMade, Req
        <4>2. query \in Queries
          BY <3>3 DEF TypeInv
        <4>3. PICK s2 : s2 = [settings EXCEPT !.zoom = z]
          OBVIOUS
        <4>4. s2.zoom \in BOOLEAN
          BY <4>1, <4>3, SettingsAssumption DEF MadeInv
        <4>5. CASE im \in Results(orig, Read(query, settings), s2)
          BY <4>2, <4>4, <4>5, ResultImage DEF MadeInv, IsImage
        <4>6. CASE Req.t \in DOMAIN Spells /\ im \in convert(orig, Spells[Req.t], z)
          <5>1. PICK a : a = Spells[Req.t]
            OBVIOUS
          <5>2. /\ a.w \in Int /\ a.h \in Int /\ a.p \in Int
                /\ a.x \in Int /\ a.y \in Int /\ a.q \in Int \ {0}
            BY <4>6, <5>1, SpellsAssumption, MaxIntAssumption DEF Ints
          <5>3. IsImage(im) /\ im.quality # 0
            BY <4>6, <5>1, <5>2, ConvertImage DEF MadeInv
          <5>4. QED
            BY <5>3 DEF IsImage
        <4>7. QED
          BY <4>1, <4>3, <4>5, <4>6
      <3>4. QED
        BY <2>1, <3>1, <3>2, <3>3 DEF TypeInv
    <2>2. QED
      BY <2>1 DEF TypeOK, TypeInv
  <1>2. KeptInv => KeptAsMade
    BY DEF KeptInv
  <1>3. Spec => []TypeInv
    BY InitTyped, NextTyped, PTL DEF Spec
  <1>4. Spec => []KeptInv
    BY InitKept, NextKept, PTL DEF Spec
  <1>5. QED
    BY <1>1, <1>2, <1>3, <1>4, MadeCorrect, PTL
=============================================================================
