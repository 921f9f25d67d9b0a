--------------------------------- MODULE MD5 ----------------------------------
(***************************************************************************)
(* The digest of a password: LoginScene::_md5 and md5.cpp, bit by bit.     *)
(*                                                                         *)
(* A 32-bit word is the set of its bits that are 1; a byte is a number.    *)
(* TLC tests the assumptions at the end whenever it loads this module.     *)
(***************************************************************************)
EXTENDS Integers, Sequences, SequencesExt, FiniteSetsExt

Bits == 0 .. 31

Number(word) == MapThenSumSet(LAMBDA i : 2 ^ i, word)
BitsOf(n, width) == {i \in 0 .. width - 1 : (n \div 2 ^ i) % 2 = 1}

\* The word of the n bits from the given one on, counted from 0.
Slice(word, from, n) == {i \in 0 .. n - 1 : from + i \in word}
Shifted(word, n) == {i \in Bits : i - n \in word}

\* A word from its two halves.
Word(halves) == BitsOf(halves[2], 16) \cup {i + 16 : i \in BitsOf(halves[1], 16)}

\* What is carried into bit i when x and y are added.
Carry(x, y, i) ==
  \E j \in 0 .. i - 1 : j \in x \cap y /\ \A k \in j + 1 .. i - 1 : k \in x \cup y

Xor(x, y) == (x \ y) \cup (y \ x)
Plus(x, y) == {i \in Bits : (i \in Xor(x, y)) # Carry(x, y, i)}
Less(x, y) == \E i \in y \ x : \A j \in i + 1 .. 31 : j \in x <=> j \in y
Not(x) == Bits \ x

-----------------------------------------------------------------------------
(* md5_process: four rounds of sixteen steps on one block                  *)

T == <<
  <<\hd76a, \ha478>>, <<\he8c7, \hb756>>, <<\h2420, \h70db>>, <<\hc1bd, \hceee>>,
  <<\hf57c, \h0faf>>, <<\h4787, \hc62a>>, <<\ha830, \h4613>>, <<\hfd46, \h9501>>,
  <<\h6980, \h98d8>>, <<\h8b44, \hf7af>>, <<\hffff, \h5bb1>>, <<\h895c, \hd7be>>,
  <<\h6b90, \h1122>>, <<\hfd98, \h7193>>, <<\ha679, \h438e>>, <<\h49b4, \h0821>>,
  <<\hf61e, \h2562>>, <<\hc040, \hb340>>, <<\h265e, \h5a51>>, <<\he9b6, \hc7aa>>,
  <<\hd62f, \h105d>>, <<\h0244, \h1453>>, <<\hd8a1, \he681>>, <<\he7d3, \hfbc8>>,
  <<\h21e1, \hcde6>>, <<\hc337, \h07d6>>, <<\hf4d5, \h0d87>>, <<\h455a, \h14ed>>,
  <<\ha9e3, \he905>>, <<\hfcef, \ha3f8>>, <<\h676f, \h02d9>>, <<\h8d2a, \h4c8a>>,
  <<\hfffa, \h3942>>, <<\h8771, \hf681>>, <<\h6d9d, \h6122>>, <<\hfde5, \h380c>>,
  <<\ha4be, \hea44>>, <<\h4bde, \hcfa9>>, <<\hf6bb, \h4b60>>, <<\hbebf, \hbc70>>,
  <<\h289b, \h7ec6>>, <<\heaa1, \h27fa>>, <<\hd4ef, \h3085>>, <<\h0488, \h1d05>>,
  <<\hd9d4, \hd039>>, <<\he6db, \h99e5>>, <<\h1fa2, \h7cf8>>, <<\hc4ac, \h5665>>,
  <<\hf429, \h2244>>, <<\h432a, \hff97>>, <<\hab94, \h23a7>>, <<\hfc93, \ha039>>,
  <<\h655b, \h59c3>>, <<\h8f0c, \hcc92>>, <<\hffef, \hf47d>>, <<\h8584, \h5dd1>>,
  <<\h6fa8, \h7e4f>>, <<\hfe2c, \he6e0>>, <<\ha301, \h4314>>, <<\h4e08, \h11a1>>,
  <<\hf753, \h7e82>>, <<\hbd3a, \hf235>>, <<\h2ad7, \hd2bb>>, <<\heb86, \hd391>> >>

ROTATE_LEFT(x, n) == {(i + n) % 32 : i \in x}

F(x, y, z) == (x \cap y) \cup (Not(x) \cap z)
G(x, y, z) == (x \cap z) \cup (y \cap Not(z))
H(x, y, z) == Xor(x, Xor(y, z))
I(x, y, z) == Xor(y, x \cup Not(z))

\* The function of a round, the word of the block each of its steps takes, and
\* how far each rotates.
Round(n) == (n - 1) \div 16
Mixed(n, x, y, z) ==
  CASE Round(n) = 0 -> F(x, y, z)
    [] Round(n) = 1 -> G(x, y, z)
    [] Round(n) = 2 -> H(x, y, z)
    [] Round(n) = 3 -> I(x, y, z)

WordTaken(n) ==
  CASE Round(n) = 0 -> n - 1
    [] Round(n) = 1 -> (1 + 5 * (n - 1)) % 16
    [] Round(n) = 2 -> (5 + 3 * (n - 1)) % 16
    [] Round(n) = 3 -> (7 * (n - 1)) % 16

Rotations == << <<7, 12, 17, 22>>, <<5, 9, 14, 20>>, <<4, 11, 16, 23>>, <<6, 10, 15, 21>> >>

\* X[k]: four bytes, the low one first.
BlockWord(block, k) ==
  UNION {{8 * j + i : i \in BitsOf(block[4 * k + j + 1], 8)} : j \in 0 .. 3}

\* One SET; the registers change places, so that the next one writes d.
SET(block, abcd, n) ==
  LET mixed == Mixed(n, abcd[2], abcd[3], abcd[4])
      t == Plus(Plus(abcd[1], mixed), Plus(BlockWord(block, WordTaken(n)), Word(T[n])))
      s == Rotations[Round(n) + 1][((n - 1) % 4) + 1]
  IN <<abcd[4], Plus(ROTATE_LEFT(t, s), abcd[2]), abcd[2], abcd[3]>>

md5_process(abcd, block) ==
  LET last == FoldLeft(LAMBDA reg, n : SET(block, reg, n), abcd, [n \in 1 .. 64 |-> n])
  IN <<Plus(abcd[1], last[1]), Plus(abcd[2], last[2]),
       Plus(abcd[3], last[3]), Plus(abcd[4], last[4])>>

-----------------------------------------------------------------------------
(* The message in pieces.  md5_state_t: count[0] and count[1] hold the     *)
(* message's length in bits, buf what is not processed yet                 *)

\* buf is not initialised.
md5_init ==
  [count |-> <<{}, {}>>, buf |-> [i \in 1 .. 64 |-> 255],
   abcd |-> <<Word(<<\h6745, \h2301>>), Word(<<\hefcd, \hab89>>),
              Word(<<\h98ba, \hdcfe>>), Word(<<\h1032, \h5476>>)>>]

\* memcpy(buf + offset, data, Len(data))
Copied(buf, offset, data) == SubSeq(buf, 1, offset) \o data \o SubSeq(buf, offset + Len(data) + 1, 64)

Offset(pms) == Number(Slice(pms.count[1], 3, 6))

\* The 64-bit length, as two words.
Counted(count, nbytes) ==
  LET nbits == Shifted(BitsOf(nbytes, 31), 3)
      low == Plus(count[1], nbits)
      high == Plus(count[2], Slice(BitsOf(nbytes, 31), 29, 2))
  IN <<low, IF Less(low, nbits) THEN Plus(high, {0}) ELSE high>>

\* Blocks, and what is left of data when its blocks are processed.
Blocks(data) == [b \in 1 .. (Len(data) \div 64) |-> SubSeq(data, 64 * b - 63, 64 * b)]
Left(data) == SubSeq(data, Len(data) - (Len(data) % 64) + 1, Len(data))

\* How much of data goes into the block that was begun.
Copy(offset, data) ==
  IF offset = 0 THEN 0 ELSE IF offset + Len(data) > 64 THEN 64 - offset ELSE Len(data)

md5_append(pms, data) ==
  LET offset == Offset(pms)
      copy == Copy(offset, data)
      buf == Copied(pms.buf, offset, SubSeq(data, 1, copy))
      rest == SubSeq(data, copy + 1, Len(data))
      begun == IF offset = 0 THEN <<>> ELSE <<buf>>
      counted == [pms EXCEPT !.count = Counted(@, Len(data))]
  IN
  IF data = <<>> THEN pms
  ELSE IF offset # 0 /\ offset + copy < 64 THEN [counted EXCEPT !.buf = buf]
  ELSE [counted EXCEPT !.abcd = FoldLeft(md5_process, @, begun \o Blocks(rest)),
                       !.buf = Copied(buf, 0, Left(rest))]

\* Eight bytes from the two words of the length, the low one first.
LengthBytes(count) ==
  [i \in 1 .. 8 |-> Number(Slice(count[(i - 1) \div 4 + 1], 8 * ((i - 1) % 4), 8))]

Padding(offset) == ((55 - offset) % 64) + 1

Pad == <<128>> \o [i \in 1 .. 63 |-> 0]

\* Sixteen bytes, the low one of each register first.
Digest(abcd) == [i \in 1 .. 16 |-> Number(Slice(abcd[(i - 1) \div 4 + 1], 8 * ((i - 1) % 4), 8))]

md5_finish(pms) ==
  LET padded == md5_append(pms, SubSeq(Pad, 1, Padding(Offset(pms))))
  IN Digest(md5_append(padded, LengthBytes(pms.count)).abcd)

\* sprintf("%02x"): what is sent is two characters for each of these bytes.
_md5(src) == md5_finish(md5_append(md5_init, src))

-----------------------------------------------------------------------------
(* What the digest is compared with                                        *)

\* The texts of the test suite of RFC 1321 (A.5) that are made of ranges of
\* characters, with their digests, two bytes to a number.
Chars(from, n) == [i \in 1 .. n |-> from + i - 1]
Suite == {
  [text |-> <<>>,
   digest |-> <<\hd41d, \h8cd9, \h8f00, \hb204, \he980, \h0998, \hecf8, \h427e>>],
  [text |-> Chars(97, 3),
   digest |-> <<\h9001, \h5098, \h3cd2, \h4fb0, \hd696, \h3f7d, \h28e1, \h7f72>>],
  [text |-> Chars(65, 26) \o Chars(97, 26) \o Chars(48, 10),
   digest |-> <<\hd174, \hab98, \hd277, \hd9f5, \ha561, \h1c2c, \h9f41, \h9d9f>>],
  [text |-> [i \in 1 .. 80 |-> 48 + (i % 10)],
   digest |-> <<\h57ed, \hf4a2, \h2be3, \hc955, \hac49, \hda2e, \h2107, \hb67a>>]}

Pairs(digest) == [i \in 1 .. 8 |-> 256 * digest[2 * i - 1] + digest[2 * i]]

\* md5.cpp is said to implement RFC 1321 (md5.cpp:26).
ASSUME SuitePasses == \A test \in Suite : Pairs(_md5(test.text)) = test.digest

\* A message as the RFC pads it: a 1, zeros up to 56 bytes modulo 64, its length.
Padded(text) ==
  LET n == Len(text) IN
  text \o <<128>> \o [i \in 1 .. (119 - (n % 64)) % 64 |-> 0]
       \o [i \in 1 .. 8 |-> IF i > 3 THEN 0 ELSE ((8 * n) \div 256 ^ (i - 1)) % 256]

\* Lengths around the end of a block, and texts that come in two pieces.
ASSUME PaddedAsInTheStandard ==
  \A n \in {55, 56, 63, 64, 119}, cut \in {0, 1, 56} :
    LET whole == FoldLeft(md5_process, md5_init.abcd, Blocks(Padded(Chars(1, n))))
        pieces == md5_append(md5_append(md5_init, Chars(1, cut)), Chars(cut + 1, n - cut))
    IN cut <= n => md5_finish(pieces) = Digest(whole)
=============================================================================
