------------------------------- MODULE ZString --------------------------------
(****************************************************************************)
(* Encoding and decoding of text (package zstring).  A text is a sequence   *)
(* of Unicode code points.  The alphabets a0 and a1 are the letters; of the *)
(* table of extra characters three entries stand for all.                   *)
(****************************************************************************)
EXTENDS Memory, SequencesExt

Space == 32
DigitChars == [i \in 1..10 |-> 47 + i]

\* a2 has 25 characters, the first of them z-character 7:  . , ! ? _ # ' " / \ ...
Alphabet2(version) ==
    IF version = 1
    THEN DigitChars \o <<46, 44, 33, 63, 95, 35, 39, 34, 47, 92, 60, 45, 58, 40, 41>>
    ELSE <<10>> \o DigitChars \o <<46, 44, 33, 63, 95, 35, 39, 34, 47, 92, 45, 58, 40, 41>>

\* The character of z-character z, at least 6, in an alphabet.
InAlphabet(version, alphabet, z) ==
    CASE alphabet = 0 -> 91 + z
      [] alphabet = 1 -> 59 + z
      [] alphabet = 2 -> Alphabet2(version)[z - 6]

\* Some entries of DefaultUnicodeTranslationTable: a-umlaut, e-acute, the ligature oe.
UnicodeTable == [c \in {228, 233, 339} |->
                   CASE c = 228 -> 155 [] c = 233 -> 170 [] c = 339 -> 220]

\* coreUnicodeTranslationTable: these are their own codes.
CoreCharacters == 33..126

\* ZsciiToUnicode; a code without a character is printed as 0.
ZsciiToUnicode(code) ==
    IF \E c \in DOMAIN UnicodeTable : UnicodeTable[c] = code
    THEN CHOOSE c \in DOMAIN UnicodeTable : UnicodeTable[c] = code
    ELSE IF code \in CoreCharacters THEN code ELSE 0

\* Words hold three z-characters of five bits; the top bit of the last is set.
Packed(zchrs) ==
    LET n == Len(zchrs) \div 3
        Value(i) == 1024 * zchrs[3*i - 2] + 32 * zchrs[3*i - 1] + zchrs[3*i]
                      + IF i = n THEN 32768 ELSE 0
    IN [k \in 1..(2 * n) |-> IF k % 2 = 1 THEN Value((k + 1) \div 2) \div 256
                             ELSE Value(k \div 2) % 256]

Unpacked(words) ==
    [k \in 1..(3 * Len(words)) |->
        LET w == words[(k + 2) \div 3]
        IN CASE k % 3 = 1 -> (w \div 1024) % 32
             [] k % 3 = 2 -> (w \div 32) % 32
             [] k % 3 = 0 -> w % 32]

-----------------------------------------------------------------------------
(* Encode.                                                                  *)

EncodedLength(version) == IF version > 3 THEN 9 ELSE 6

\* The z-characters of one character.  One that is in no table leaves an escape
\* without a code behind.
ZChars(version, c) ==
    LET shiftA1 == IF version > 2 THEN 4 ELSE 2
        shiftA2 == shiftA1 + 1
        a2 == Alphabet2(version)
        Code(z) == <<z \div 32, z % 32>>
    IN CASE c = Space -> <<0>>
         [] c \in 97..122 -> <<c - 91>>
         [] c \in 65..90 -> <<shiftA1, c - 59>>
         [] c \in ToSet(a2) -> <<shiftA2, 6 + CHOOSE i \in DOMAIN a2 : a2[i] = c>>
         [] OTHER -> <<shiftA2, 6>> \o
                       (IF c \in CoreCharacters THEN Code(c)
                        ELSE IF c \in DOMAIN UnicodeTable THEN Code(UnicodeTable[c])
                        ELSE <<>>)

\* Padded with fives, or cut, to the length of the version.
Fitted(zchrs, n) == [i \in 1..n |-> IF i <= Len(zchrs) THEN zchrs[i] ELSE 5]

Encode(version, text) ==
    Packed(Fitted(FlattenSeq([i \in DOMAIN text |-> ZChars(version, text[i])]),
                  EncodedLength(version)))

-----------------------------------------------------------------------------
(* Decode.                                                                  *)

\* The words from ptr to the one with the top bit set, or to the end.
WordsFrom(m, ptr, end) ==
    LET words[p \in Nat] ==
            LET w == ReadHalfWord(m, p)
            IN IF w >= 32768 \/ p + 2 >= end THEN <<w>> ELSE <<w>> \o words[p + 2]
    IN words[ptr]

\* The reader of z-characters: the text so far, the alphabet it returns to, the
\* alphabet of the next z-character, and what the z-character under way belongs to.
Reader == [text |-> <<>>, base |-> 0, next |-> 0, within |-> <<>>]

\* z begins a construction of more than one z-character.
IsAbbreviation(version, z) == \/ z = 1 /\ version > 1
                              \/ z \in {2, 3} /\ version > 2

\* One z-character; abbreviations[z, x] is the text that z and the x after it stand
\* for.  A construction cut off by the end of the string adds nothing.
ReadZChr(version, abbreviations, r, z) ==
    LET now == r.next
        plain == [r EXCEPT !.within = <<>>, !.next = r.base]
        Add(text) == [plain EXCEPT !.text = @ \o text]
        Shift(k) == [plain EXCEPT !.next = (r.base + k) % 3]
        Lock(k) == [plain EXCEPT !.base = (r.base + k) % 3, !.next = (r.base + k) % 3]
    IN CASE Len(r.within) = 1 /\ r.within[1] # 6 -> Add(abbreviations[r.within[1], z])
         [] Len(r.within) = 1 /\ r.within[1] = 6 -> [plain EXCEPT !.within = <<6, z>>]
         [] Len(r.within) = 2 -> Add(<<ZsciiToUnicode((32 * r.within[2] + z) % 256)>>)
         [] OTHER ->
              CASE z = 0 -> Add(<<Space>>)
                [] z = 1 /\ version = 1 -> Add(<<10>>)
                [] IsAbbreviation(version, z) -> [plain EXCEPT !.within = <<z>>]
                [] z \in {2, 3} /\ version < 3 -> Shift(z - 1)
                [] z \in {4, 5} /\ version < 3 -> Lock(z - 3)
                [] z \in {4, 5} /\ version >= 3 -> Shift(z - 3)
                [] z = 6 /\ now = 2 -> [plain EXCEPT !.within = <<6>>]
                [] OTHER -> Add(<<InAlphabet(version, now, z)>>)

DecodeZChrs(version, abbreviations, zchrs) ==
    FoldLeft(LAMBDA r, z : ReadZChr(version, abbreviations, r, z), Reader, zchrs).text

\* The length in the header counts units of 2, 4 or 8 bytes; the result has 16 bits.
FileLength(h) ==
    Word(h.length * (IF h.version <= 3 THEN 2 ELSE IF h.version <= 5 THEN 4 ELSE 8))

\* An abbreviation's own abbreviations are ignored.
Ignored == [z \in 1..3, x \in 0..31 |-> <<>>]

\* Faulty variant: the text of an abbreviation is taken to end with its first word.
FindAbbreviation_OneWord(m, h, z, x) ==
    LET address == Word(2 * ReadHalfWord(m, h.abbreviations + 2 * ((32 * (z - 1) + x) % 256)))
    IN DecodeZChrs(h.version, Ignored, Unpacked(WordsFrom(m, address, 0)))

\* The text of abbreviation x of the table's z-th part.
FindAbbreviation(m, h, z, x) ==
    LET address == Word(2 * ReadHalfWord(m, h.abbreviations + 2 * ((32 * (z - 1) + x) % 256)))
    IN DecodeZChrs(h.version, Ignored, Unpacked(WordsFrom(m, address, FileLength(h))))

\* The text from ptr on; h is the header of the story.
Decode(m, h, ptr, end) ==
    DecodeZChrs(h.version, [z \in 1..3, x \in 0..31 |-> FindAbbreviation(m, h, z, x)],
                Unpacked(WordsFrom(m, ptr, end)))

\* The number of bytes it was read from.
DecodedBytes(m, ptr, end) == 2 * Len(WordsFrom(m, ptr, end))
===============================================================================
