---------------------------- MODULE Base64Texts ----------------------------
(***************************************************************************)
(* The texts that clients send to base64_request_cb: images as RFC 4648    *)
(* writes them, escaped as RFC 3986 and url_decode allow.                  *)
(***************************************************************************)
EXTENDS Base64

\* The characters of the numbers below 64, and of the padding, which is 64.
Character(n) ==
  CASE n \in 0..25  -> n + 65
    [] n \in 26..51 -> (n - 26) + 97
    [] n \in 52..61 -> n - 4
    [] n = 62       -> 43
    [] n = 63       -> 47
    [] OTHER        -> 61

\* The four numbers of up to three bytes.
Sextets(b) ==
  LET byte(i) == IF i <= Len(b) THEN b[i] ELSE 0
  IN <<byte(1) \div 4,
       ((byte(1) % 4) * 16) + (byte(2) \div 16),
       IF Len(b) < 2 THEN 64 ELSE ((byte(2) % 16) * 4) + (byte(3) \div 64),
       IF Len(b) < 3 THEN 64 ELSE byte(3) % 64>>

\* The bytes of an image by three, the last ones perhaps fewer.
Three(image, g) ==
  SubSeq(image, (3 * g) - 2, IF 3 * g <= Len(image) THEN 3 * g ELSE Len(image))

Encoded(image) ==
  [k \in 1..(4 * ((Len(image) + 2) \div 3)) |->
     Character(Sextets(Three(image, ((k - 1) \div 4) + 1))[((k - 1) % 4) + 1])]

\* A character may be written as it is, as an escape with either kind of digits,
\* and behind a % if that cannot begin an escape.
Ways == {"plain", "capital", "small", "stray"}
Digit(n, ten) == IF n < 10 THEN n + 48 ELSE (n - 10) + ten
Escape(ch, ten) == <<37, Digit(ch \div 16, ten), Digit(ch % 16, ten)>>
Write(ch, way) ==
  CASE way = "capital" -> Escape(ch, 65)
    [] way = "small"   -> Escape(ch, 97)
    [] way = "stray" /\ HexValue(ch) < 0 -> <<37, ch>>
    [] OTHER -> <<ch>>

Written(text, ways, end) ==
  LET from[i \in 1..(Len(text) + 1)] ==
        IF i > Len(text) THEN end ELSE Write(text[i], ways[i]) \o from[i + 1]
  IN from[1]

\* The text of an image, or that without its last characters; a % may end it.
Text(image, cut, ways, end) ==
  [chars |-> Written(SubSeq(Encoded(image), 1, Len(Encoded(image)) - cut), ways, end),
   image |-> image, whole |-> cut = 0]
Ends == {<<>>, << 37 >>}

\* What a message is when a client that means an image has sent it.
IsText(m) ==
  \E cut \in 0..3, ways \in Seq(Ways), end \in Ends :
    /\ Len(ways) = Len(Encoded(m.image)) /\ (cut # 0 => end = <<>>)
    /\ m = Text(m.image, cut, ways, end)
=============================================================================
