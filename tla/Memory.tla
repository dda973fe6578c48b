-------------------------------- MODULE Memory --------------------------------
(****************************************************************************)
(* Bytes and words of a story's memory (zcore.Core).  A memory is a         *)
(* function from the addresses 0..n to bytes; words are big-endian.  An     *)
(* access outside the domain is a panic in the code.                        *)
(****************************************************************************)
EXTENDS Integers, Sequences

Byte == 0..255
Word16 == 0..65535

\* uint16(n), and int16(w) of such a word.
Word(n) == n % 65536
Signed(w) == IF w >= 32768 THEN w - 65536 ELSE w

ReadZByte(m, a) == m[a]
ReadHalfWord(m, a) == 256 * m[a] + m[a + 1]

\* The bytes of the addresses a..(b - 1).
ReadSlice(m, a, b) == [i \in 1..(b - a) |-> m[a + i - 1]]

WriteZByte(m, a, v) == [m EXCEPT ![a] = v % 256]
WriteHalfWord(m, a, v) == [m EXCEPT ![a] = (v \div 256) % 256, ![a + 1] = v % 256]

\* The bytes s written from address a on.
WriteSlice(m, a, s) ==
    [x \in DOMAIN m |-> IF x \in a..(a + Len(s) - 1) THEN s[x - a + 1] ELSE m[x]]
===============================================================================
