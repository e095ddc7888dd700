------------------------------ MODULE MCBase64 ------------------------------
(* Constants for model-checking Base64: the texts that clients send. *)
EXTENDS Base64Texts

\* All characters plain; what URLs need of +, / and = escaped; all escaped; a %
\* in front of each that allows it.
Wayses(image) ==
  LET text == Encoded(image)
      each(way, chars) == [i \in DOMAIN text |-> IF text[i] \in chars THEN way ELSE "plain"]
  IN {each("plain", {}), each("capital", {43, 47, 61}), each("small", 1..255),
      each("stray", 1..255)}

\* All images of up to two bytes, some of three, and one of each length up to two
\* blocks and a little.
Bytes == {0, 99, 251, 255}
Long(n) == [i \in 1..n |-> ((i * 37) + 200) % 256]
SomeImages == UNION {[1..n -> Bytes] : n \in 0..2}
              \union {<<251, 255, 191>>, <<0, 0, 0>>, <<255, 255, 255>>}
              \union {Long(n) : n \in 3..20}

MCMessages ==
  UNION {{Text(i, cut, ways, <<>>) : cut \in 0..3, ways \in Wayses(i)} : i \in SomeImages}
  \union UNION {{Text(i, 0, ways, << 37 >>) : ways \in Wayses(i)} : i \in SomeImages}
=============================================================================
