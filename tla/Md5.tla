-------------------------------- MODULE Md5 --------------------------------
(***************************************************************************)
(* md5 (zmd5.c), by which save_img names an image: how the bytes of a      *)
(* message are counted, gathered into blocks and padded.  What md5_process *)
(* computes from a block is left out; blocks are what it has been given,   *)
(* in order, and stand for the digest.                                     *)
(***************************************************************************)
EXTENDS Integers, Sequences

CONSTANTS
  Unit,     \* bits of a byte: 8 in the code
  Base,     \* values of a byte: 256
  Half,     \* bytes of a word of the count: 4
  Block,    \* bytes of a block: 64
  Stale     \* what the buffer holds before it is written

\* What a one in the byte of this place stands for, in the count.
Place[i \in 0..(2 * Half)] == IF i = 0 THEN 1 ELSE Place[i - 1] * Base

Word == Place[Half]

ASSUME BaseAssumption == Base = 2 ^ Unit
ASSUME Md5Assumption ==
  /\ {Unit, Base, Half, Block} \subseteq Nat \ {0}
  /\ Block > 2 * Half
  /\ Word % (Unit * Block) = 0

Zeros(n) == [i \in 1..n |-> 0]

\* The first byte of the padding: a 1 and zeros.
One == Base \div 2

md5_init ==
  [count |-> <<0, 0>>, buf |-> [i \in 1..Block |-> Stale], blocks |-> <<>>]

\* Bytes of the message that wait in the buffer.
Offset(s) == (s.count[1] \div Unit) % Block

\* md5_append: the message is n bytes longer; the sum of the low word has
\* overflowed when it is below what was added.
Counted(s, n) ==
  LET nbits == (n * Unit) % Word
      low == (s.count[1] + nbits) % Word
  IN [s EXCEPT !.count = <<low, (@[2] + ((n * Unit) \div Word)
                                 + (IF low < nbits THEN 1 ELSE 0)) % Word>>]

\* memcpy(buf + offset, data).
Copied(buf, offset, data) ==
  [i \in 1..Block |->
     IF i > offset /\ i <= offset + Len(data) THEN data[i - offset] ELSE buf[i]]

\* Mutant: the last full block is left in the buffer.
AppendBlocksButLast(s, data) ==
  LET full == IF data = <<>> THEN 0 ELSE (Len(data) - 1) \div Block
      rest == SubSeq(data, (full * Block) + 1, Len(data))
  IN [s EXCEPT !.blocks = @ \o [k \in 1..full |->
                                  SubSeq(data, ((k - 1) * Block) + 1, k * Block)],
               !.buf = Copied(@, 0, rest)]

\* md5_append with nothing in the buffer: full blocks, and the rest.
AppendBlocks(s, data) ==
  LET full == Len(data) \div Block
      rest == SubSeq(data, (full * Block) + 1, Len(data))
  IN [s EXCEPT !.blocks = @ \o [k \in 1..full |->
                                  SubSeq(data, ((k - 1) * Block) + 1, k * Block)],
               !.buf = Copied(@, 0, rest)]

md5_append(s, data) ==
  LET offset == Offset(s)
      n == Len(data)
      copy == IF offset + n > Block THEN Block - offset ELSE n
      filled == Copied(s.buf, offset, SubSeq(data, 1, copy))
      t == Counted(s, n)
  IN IF n = 0 THEN s
     ELSE IF offset = 0 THEN AppendBlocks(t, data)
     ELSE IF offset + copy < Block THEN [t EXCEPT !.buf = filled]
     ELSE AppendBlocks([t EXCEPT !.buf = filled, !.blocks = Append(@, filled)],
                       SubSeq(data, copy + 1, n))

\* The count as bytes, the lowest first.
CountBytes(s) ==
  [i \in 1..(2 * Half) |->
     (s.count[((i - 1) \div Half) + 1] \div Place[(i - 1) % Half]) % Base]

\* Bytes up to the length field of a block, at least one: for 64 and 8 it is
\* ((55 - (count >> 3)) & 63) + 1.
PadLength(s) == (((Block - (2 * Half)) - 1 - (s.count[1] \div Unit)) % Block) + 1

md5_finish(s) ==
  md5_append(md5_append(s, <<One>> \o Zeros(PadLength(s) - 1)), CountBytes(s))

\* The digest of a buffer.
Digest(data) == md5_finish(md5_append(md5_init, data)).blocks

-----------------------------------------------------------------------------
(* RFC 1321: the padded message *)

\* Its length in bits, modulo two words, as bytes, the lowest first.
LengthField(data) ==
  [i \in 1..(2 * Half) |-> ((Len(data) * Unit) \div Place[i - 1]) % Base]

Padded(data) ==
  LET k == CHOOSE k \in 0..(Block - 1) :
             (Len(data) + 1 + k + (2 * Half)) % Block = 0
  IN data \o <<One>> \o Zeros(k) \o LengthField(data)
=============================================================================
